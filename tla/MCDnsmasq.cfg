\* The page and a shell, whose runs may overlap, every fault.
CONSTANTS
    Bases = {b1, b2}
    InitBase = b1
    Instances = {i1, i2}
    None = None
    NoHash = NoHash
    PageRun = i1
SPECIFICATION LuciSpec
INVARIANTS
    LuciTypeOK
    OriginalRecoverable
    MarkerHasBackup
    UnmarkedMeansOff
PROPERTIES
    NoEditLost
    SuccessLeavesState
