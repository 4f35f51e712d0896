----------------------------- MODULE MCCollector -----------------------------
(* StatsCollector for TLC: two runs and a refresh with one change from        *)
(* outside, and a run and a refresh with two.                                *)
EXTENDS StatsCollector, TLC

MCPlans == {<<"backup", "backup">>, <<"retention", "cleanup">>}
Symmetry == Permutations(Keys) \union Permutations(Runs) \union Permutations(Backups)

MCInit ==
    /\ InitialTables /\ strayed = {}
    /\ \/ calls = [c \in Calls |-> Idle] /\ changes = 1
       \/ /\ \E r \in Runs : calls = [[c \in Calls |-> Idle] EXCEPT ![r].at = "over"]
          /\ changes = 0

MCSpec == MCInit /\ [][Next]_vars
=============================================================================
