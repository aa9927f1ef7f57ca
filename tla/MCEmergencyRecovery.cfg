\* Who ends an exclusion: two upstreams, a query and a prober, one success needed.
CONSTANTS
    N = 2
    FailThreshold = 1
    RecoverThreshold = 1
    CountCap = 1
    Procs = {r1, h1}
    Probers = {h1}
    TCPUpstreams = {2}
    NoProc = NoProc
    Slots = 1
    MaxConcurrent = 1
SPECIFICATION ResolverSpec
PROPERTIES
    ProbesConfirmRecovery
