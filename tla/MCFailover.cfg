\* Two upstreams, two goroutines, thresholds 2 and 3.
CONSTANTS
    N = 2
    FailThreshold = 2
    RecoverThreshold = 3
    CountCap = 3
    Procs = {p1, p2}
    NoProc = NoProc
SPECIFICATION HistFairSpec
INVARIANTS
    TypeOK
    SnapshotsConsistent
    LastActiveSettled
    ConfirmedFailureExcluded
    ConfirmedRecoveryServes
PROPERTIES
    ExclusionNeedsFailRun
    ImplementsBreaker
    EveryTransitionAnnounced
