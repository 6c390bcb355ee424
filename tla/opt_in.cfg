SPECIFICATION FairSpec

CONSTANTS
    Absent        = Absent
    OptIns        = {"annotate"}
    MaxLag        = 1
    MaxEdits      = 1
    MaxFaults     = 0
    MaxGeneration = 2

PROPERTIES
    EditIsRead

\* A deployment without a policy is left alone.
CHECK_DEADLOCK FALSE
