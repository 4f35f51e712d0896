\* Two locations; two runs and a refresh with one change from outside, or a run and a refresh
\* with two.  LocationLimit 0: as if each repository had ten younger locations elsewhere.
CONSTANTS
    LocationLimit = 0
    RetentionCount = 0
    NoRun = none
    Keys = {k1, k2}
    Backups = {b1, b2}
    Runs = {r1, r2}
    Refreshes = {f1}
    Plans <- MCPlans
    MaxSnaps = 3
    MaxIds = 2
    MaxChanges = 2
    MaxAtOnce = 2
SPECIFICATION MCSpec
SYMMETRY Symmetry
CHECK_DEADLOCK FALSE
INVARIANTS
    SnapshotsKeepTheirRun
PROPERTIES
    ReconcileIsExact
    RetentionSparesWhatIsUsed
    MergeLosesNothing
