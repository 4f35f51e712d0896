---------------------------- MODULE MCRunManager ----------------------------
(* RunManager for TLC: a scheduler run and a manual run.                    *)
EXTENDS RunManager

CONSTANTS nightly, manual

AllRuns   == {nightly, manual}
Scheduled == {nightly}
Broken    == {manual}
OneRun    == {manual}
None      == {}
=============================================================================
