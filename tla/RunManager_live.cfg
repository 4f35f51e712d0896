\* One run (progress of a run never waits for another) of a process that may die: nothing that was asked for is left hanging.
CONSTANTS
    nightly = nightly
    manual = manual
    Runs <- OneRun
    SchedulerRuns <- None
    FaultyRuns <- None
    Retention = FALSE
    MaxBoots = 1
SPECIFICATION FairSpec
CHECK_DEADLOCK FALSE
PROPERTIES
    CancelledRunEnds
    ShutdownDrains
