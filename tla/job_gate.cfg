SPECIFICATION Spec

CONSTANTS
    Partitions     <- OnePartition
    Producers      = {a}
    NoProducer     = NoProducer
    Sizes          <- Single
    GapFetches     = 3
    MaxGaps        = 2
    MaxBatches     = 4
    MaxCompactions = 1
    MaxFaults      = 1
    Quiet          = 1
    DrainedChecks  = 1
    MaxJobRestarts = 1

INVARIANTS
    GateInv
    IdleMeansRead
    RememberedStaysEmpty
    NoLagMeansRead
