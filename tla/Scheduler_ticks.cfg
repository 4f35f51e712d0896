\* The tick, reloads and reports, in both modes.
CONSTANTS
    first = first
    second = second
    broken = broken
    backup = backup
    run1 = run1
    NoDigest = NoDigest
    Schedule <- Plan
    ReportSchedule <- Reports
    Configs <- AllConfigs
    Valid <- ValidOnes
    Items <- OneItem
    Runs <- OneRun
    Exposed <- None
    MaxTime = 3
    Bounds <- TickBounds
SPECIFICATION FairSpec
CHECK_DEADLOCK FALSE
INVARIANTS
    TriggeredOnce
    NothingMissed
    NothingOverlooked
PROPERTIES
    EditsArrive
