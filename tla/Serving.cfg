\* Two threads and a daemon with two disturbances; a run and a listing over a restart.
CONSTANTS
    Threads = {t1, t2}
    Daemons = {d1}
    Nobody = Nobody
    Attempts = 3
    MaxFaults = 2
    ManualRuns = {manual}
    ScheduledRuns = {nightly}
SPECIFICATION MCSpec
CHECK_DEADLOCK FALSE
INVARIANTS
    NoOrphanScheduler
PROPERTIES
    ExitIsClean
    SweepSparesLiveRuns
    ListingIsTrue
    StopIsHeard
    SchedulerComesBack
