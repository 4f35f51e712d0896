\* Three runs on three loops, a retry, and a lock file that cannot be opened.
CONSTANTS
    nightly = nightly
    offsite = offsite
    restore = restore
    scheduler = scheduler
    gui = gui
    cli = cli
    Nobody = Nobody
    Runs <- ThreeRuns
    Loops <- AllLoops
    LoopOf <- Home
    Resources <- FourIds
    Needs <- Cycle
    Attempts <- Retried
    SchedulerRuns <- Scheduled
    Unopenable <- Blocked4
SPECIFICATION FairSpec
CHECK_DEADLOCK FALSE
INVARIANTS
    ExclusiveWork
    SomebodyWins
PROPERTIES
    AcquisitionEnds
