---------------------------- MODULE MCScheduler ----------------------------
(* Scheduler for TLC: one backup under two valid configurations, one of    *)
(* which runs it at two instants and the other at the first of them only,  *)
(* and a configuration that load_config refuses.  Reports are due at the   *)
(* first and the last instant, so a run can finish on the edge between two *)
(* report windows and inside one; under the second configuration at the    *)
(* instant in between, whose window overlaps the others.                   *)
EXTENDS Scheduler

CONSTANTS first, second, broken, backup, run1

AllConfigs == {first, second, broken}
ValidOnes  == {first, second}
OneConfig  == {first}
OneItem    == {backup}
Plan       == [c \in Configs |-> [i \in Items |-> IF c = first THEN {2, 3} ELSE {2}]]
Reports    == [c \in Configs |-> IF c = second THEN {2} ELSE {1, 3}]
OneRun     == {run1}
\* A run moves while the clock only advances; without it, the clock is set back once.
Steady     == [edits |-> 1, failures |-> 1, setbacks |-> 0, runs |-> Runs]
SetBack    == [edits |-> 1, failures |-> 1, setbacks |-> 1, runs |-> {}]
Calm       == [edits |-> 1, failures |-> 0, setbacks |-> 0, runs |-> Runs]
TickBounds    == {Steady, SetBack}
StartupBounds == {Calm}
None       == {}
Both       == {"start", "reload"}
=============================================================================
