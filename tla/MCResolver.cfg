\* Two upstreams with one attempt slot each, three goroutines for two queries.
CONSTANTS
    N = 2
    FailThreshold = 1
    RecoverThreshold = 1
    CountCap = 1
    Procs = {r1, r2, r3}
    Probers = {}
    TCPUpstreams = {2}
    NoProc = NoProc
    Slots = 1
    MaxConcurrent = 2
SYMMETRY Symmetry
SPECIFICATION WatchedSpec
INVARIANTS
    ResolverTypeOK
    AttemptsHoldSlots
    TokensAreQueries
    OnlySoundAnswers
    NormalQueriesSkipDown
PROPERTIES
    EmergencyWasSeen
    LateAnswersDoNotRevive
