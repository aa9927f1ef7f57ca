\* Liveness: two upstreams with one slot, two goroutines for one token, a prober.
CONSTANTS
    N = 2
    FailThreshold = 1
    RecoverThreshold = 1
    CountCap = 1
    Procs = {r1, r2, h1}
    Probers = {h1}
    TCPUpstreams = {2}
    NoProc = NoProc
    Slots = 1
    MaxConcurrent = 1
SPECIFICATION ResolverFairSpec
PROPERTIES
    EveryQueryEnds
