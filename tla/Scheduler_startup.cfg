\* A configuration saved while the scheduler starts.
CONSTANTS
    first = first
    second = second
    broken = broken
    backup = backup
    run1 = run1
    NoDigest = NoDigest
    Schedule <- Plan
    ReportSchedule <- Reports
    Configs <- AllConfigs
    Valid <- ValidOnes
    Items <- OneItem
    Runs <- OneRun
    Exposed <- Both
    MaxTime = 3
    Bounds <- StartupBounds
SPECIFICATION Spec
CHECK_DEADLOCK FALSE
INVARIANTS
    NothingOverlooked
