\* A restore that ends while a request looks at it.
CONSTANTS
    restore = restore
    page = page
    tab = tab
    Runs <- OneRun
    FaultyRuns <- None
    Requests <- OneRequest
    Retention = TRUE
    MaxBoots = 1
SPECIFICATION Spec
CHECK_DEADLOCK FALSE
INVARIANTS
    SuccessIsKept
