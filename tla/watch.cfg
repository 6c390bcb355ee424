SPECIFICATION FairSpec

CONSTANTS
    Absent        = Absent
    OptIns        = {"apply"}
    MaxLag        = 2
    MaxEdits      = 3
    MaxFaults     = 1
    MaxGeneration = 2

INVARIANTS
    WatchInv
    Scheduled

PROPERTIES
    EditIsRead
    ReleasedAwake
    ReleaseCleans
    GoneIsForgotten

\* A deployment without a policy is left alone.
CHECK_DEADLOCK FALSE
