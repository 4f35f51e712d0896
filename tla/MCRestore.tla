------------------------------ MODULE MCRestore ------------------------------
(* Restore for TLC: one restore whose statements may fail, two requests, and *)
(* a process that may die and start again.                                   *)
EXTENDS Restore

CONSTANTS restore, page, tab

OneRun      == {restore}
None        == {}
OneRequest  == {page}
TwoRequests == {page, tab}
=============================================================================
