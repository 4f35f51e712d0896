\* Two runs, one of them with failing history statements, one restart.
CONSTANTS
    nightly = nightly
    manual = manual
    Runs <- AllRuns
    SchedulerRuns <- Scheduled
    FaultyRuns <- Broken
    Retention = TRUE
    MaxBoots = 2
SPECIFICATION Spec
CHECK_DEADLOCK FALSE
INVARIANTS
    AnnouncedIsDurable
    ShutdownIsComplete
    NotifiedOnceAfterRecord
PROPERTIES
    ImplementsLifecycle
    HistoryIsFinal
    CancellationWins
