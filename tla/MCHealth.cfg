\* Two upstreams; delays of 3 and, capped, 4 units.
CONSTANTS
    Upstreams = {u1, u2}
    CountCap = 2
    FailThreshold = 1
    RecoverThreshold = 2
    Interval = 3
    MaxDelay = 4
    AttemptTimeout = 2
    Tick = 1
    Day = 11
    FailuresCap = 2
SPECIFICATION HealthFairSpec
INVARIANTS
    HealthTypeOK
    ReprobedInTime
PROPERTIES
    ProbesSpaced
    AutomaticFailback
