---------------------------- MODULE RunLifecycle ----------------------------
(***************************************************************************)
(* What Dockkeep promises about one operational run, seen from outside:    *)
(* the answer a client gets when it asks for the run (GET /runs/<id>, the  *)
(* runs page, the CLI's join), and which of those answers are final.       *)
(*                                                                         *)
(* A run is submitted, begins, and reaches one outcome.  The outcome may   *)
(* still be lost with the process until it is in the history database;     *)
(* from then on it never changes, and nobody who waits for the run is told *)
(* that it is over before that.  RunManager.tla implements this.           *)
(***************************************************************************)
EXTENDS FiniteSets

CONSTANT Runs               \* run ids (UUIDs of RunRecord.run_id)

Active   == {"queued", "running"}
Terminal == {"success", "failed", "cancelled", "skipped", "lock_error",
             "config_error", "unexpected_error"}
\* "absent": nobody knows the run; "expired": removed by history retention.
Phases   == Active \cup Terminal \cup {"absent", "expired"}

VARIABLES
    phase,        \* phase[r]: what a client is told about r
    durable,      \* runs whose outcome is in the history database
    announced,    \* runs whose waiters have been released
    down          \* no process is running

vars == <<phase, durable, announced, down>>

TypeOK == /\ phase \in [Runs -> Phases]
          /\ durable \subseteq Runs
          /\ announced \subseteq Runs
          /\ down \in BOOLEAN

Init == /\ phase = [r \in Runs |-> "absent"]
        /\ durable = {}
        /\ announced = {}
        /\ down = FALSE

Submit(r) ==
    /\ ~down
    /\ phase[r] = "absent"
    /\ phase' = [phase EXCEPT ![r] = "queued"]
    /\ UNCHANGED <<durable, announced, down>>

Begin(r) ==
    /\ ~down
    /\ phase[r] = "queued"
    /\ phase' = [phase EXCEPT ![r] = "running"]
    /\ UNCHANGED <<durable, announced, down>>

\* A run that never began can only have been cancelled.
Conclude(r) ==
    /\ ~down
    /\ phase[r] \in Active
    /\ \E outcome \in IF phase[r] = "queued" THEN {"cancelled"} ELSE Terminal :
          phase' = [phase EXCEPT ![r] = outcome]
    /\ UNCHANGED <<durable, announced, down>>

\* Retention may remove the outcomes of finished runs, never of others.
Expired(gone) == [r \in Runs |-> IF r \in gone THEN "expired" ELSE phase[r]]

Persist(r) ==
    /\ ~down
    /\ phase[r] \in Terminal
    /\ r \notin durable
    /\ durable' = durable \cup {r}
    /\ \E gone \in SUBSET durable : phase' = Expired(gone)
    /\ UNCHANGED <<announced, down>>

Expire ==
    /\ ~down
    /\ \E gone \in SUBSET durable : phase' = Expired(gone)
    /\ UNCHANGED <<durable, announced, down>>

Announce(r) ==
    /\ ~down
    /\ r \in durable
    /\ announced' = announced \cup {r}
    /\ UNCHANGED <<phase, durable, down>>

\* The process dies.  A durable outcome stays (or is found expired); any other
\* run is forgotten, is left as running, or its outcome just became durable.
Crash ==
    /\ ~down
    /\ down' = TRUE
    /\ durable \subseteq durable'
    /\ durable' \subseteq Runs
    /\ phase' \in [Runs -> Phases \ {"queued"}]
    /\ \A r \in Runs :
          /\ r \in durable => phase'[r] \in {phase[r], "expired"}
          /\ r \in durable' \ durable => phase'[r] \in Terminal
          /\ r \notin durable' => phase'[r] \in {"absent", "running"}
    /\ announced' = {}

\* The restarted process closes the runs its predecessor left open.
Recover ==
    LET open == {r \in Runs : phase[r] = "running"}
    IN  /\ down
        /\ down' = FALSE
        /\ durable' = durable \cup open
        /\ \E gone \in SUBSET (durable \cup open) :
              phase' = [r \in Runs |-> IF r \in gone THEN "expired"
                                       ELSE IF r \in open THEN "unexpected_error"
                                       ELSE phase[r]]
        /\ UNCHANGED announced

Next == \/ \E r \in Runs : Submit(r) \/ Begin(r) \/ Conclude(r) \/ Persist(r) \/ Announce(r)
        \/ Expire
        \/ Crash
        \/ Recover

Spec == Init /\ [][Next]_vars
=============================================================================
