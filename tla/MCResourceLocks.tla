--------------------------- MODULE MCResourceLocks ---------------------------
(* ResourceLocks for TLC: runs of three loops whose needs form a cycle over  *)
(* three resources, so that partial acquisitions can block each other; one   *)
(* of them also needs a lock file that cannot be opened.                     *)
EXTENDS ResourceLocks

CONSTANTS nightly, offsite, restore, scheduler, gui, cli

ThreeRuns == {nightly, offsite, restore}
AllLoops  == {scheduler, gui, cli}
Home      == [r \in Runs |-> CASE r = nightly -> scheduler [] r = offsite -> gui
                               [] r = restore -> cli]
FourIds   == {1, 2, 3, 4}
Cycle     == [r \in Runs |-> CASE r = nightly -> {1, 2} [] r = offsite -> {2, 3}
                               [] r = restore -> {1, 3, 4}]
Blocked4  == {4}
Retried   == [r \in Runs |-> IF r = nightly THEN 2 ELSE 1]
Scheduled == {nightly}
=============================================================================
