\* Reversibility across a power loss.
CONSTANTS
    Bases = {b1, b2}
    InitBase = b1
    Instances = {i1, i2}
    None = None
    NoHash = NoHash
SPECIFICATION DnsmasqSpec
INVARIANTS
    RecoverableAfterPowerLoss
