----------------------------- MODULE MCServing ------------------------------
(* Two scheduler threads of the web process and one scheduler of the command *)
(* line on their own, with all disturbances; and the threads with one listing *)
(* and one run, manual or of the scheduler, without any but stop and restart. *)
EXTENDS RunService

MCInit ==
    /\ HostsInit
    /\ row = [r \in Runs |-> "none"]
    /\ \/ /\ faults = 0
          /\ run = [r \in Runs |-> [at |-> "over", by |-> Nobody]]
          /\ listing = Request("answered")
       \/ /\ faults = MaxFaults
          /\ \E one \in Runs : run = [r \in Runs |->
                [at |-> IF r = one THEN "none" ELSE "over", by |-> Nobody]]
          /\ listing = Request("no")

MCSpec == MCInit /\ [][Next]_vars /\ Fairness
=============================================================================
