----------------------------- MODULE MCExecution ------------------------------
(* Targets for model checking. *)
EXTENDS Execution

UnitOf(task, subs, scoped, autoInit) ==
  [task |-> task, subs |-> subs, scoped |-> scoped, autoInit |-> autoInit]

\* A backup that may have to create its repository.
Backup == [workflow |-> FALSE, units |-> <<UnitOf("A", <<"backup", "cleanup">>, TRUE, TRUE)>>]

\* The same backup twice, once as a single substep without its hooks.
Twice == [workflow |-> TRUE, units |-> <<UnitOf("A", <<"backup">>, FALSE, FALSE),
                                         UnitOf("A", <<"backup", "retention">>, TRUE, FALSE)>>]

\* A remote copy with its hooks, and a step after it.
Mirror == [workflow |-> TRUE, units |-> <<UnitOf("R", <<"rclone">>, TRUE, FALSE),
                                          UnitOf("A", <<"cleanup">>, FALSE, FALSE)>>]

MCTargets == {Backup, Twice, Mirror}
MCHookCount == <<1, 1, 1>>
=============================================================================
