SPECIFICATION FairSpec

CONSTANTS
    Keys       = {"phase", "reason"}
    Values     = {0, 1}
    None       = None
    MaxUid     = 2
    MaxTouches = 2
    MaxFaults  = 1

INVARIANTS
    StoreInv

PROPERTIES
    Implements
    Remembered
