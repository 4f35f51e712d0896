\* A restore with failing statements, cancellations, two requests and a restart.
CONSTANTS
    restore = restore
    page = page
    tab = tab
    Runs <- OneRun
    FaultyRuns <- OneRun
    Requests <- TwoRequests
    Retention = TRUE
    MaxBoots = 2
SPECIFICATION Spec
CHECK_DEADLOCK FALSE
INVARIANTS
    RestoresAreFound
    RestoreEndsAsItsRun
    AnswersAgree
