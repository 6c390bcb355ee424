SPECIFICATION FairSpec

CONSTANTS
    Partitions     <- TwoPartitions
    Producers      = {a}
    NoProducer     = NoProducer
    Sizes          <- Single
    GapFetches     = 4
    MaxGaps        = 2
    MaxBatches     = 4
    MaxCompactions = 0
    MaxFaults      = 0
    Quiet          = 1
    DrainedChecks  = 2
    MaxJobRestarts = 0

PROPERTIES
    QuietJobSleeps
