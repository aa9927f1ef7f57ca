\* The end of a query's budget against the bounded-timeout criterion.
CONSTANTS
    N = 2
    FailThreshold = 1
    RecoverThreshold = 2
    CountCap = 2
    Procs = {r1, r2}
    Probers = {}
    TCPUpstreams = {2}
    NoProc = NoProc
    Slots = 1
    MaxConcurrent = 2
SPECIFICATION ResolverSpec
INVARIANTS
    BudgetEndIsClean
