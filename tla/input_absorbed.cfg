SPECIFICATION FairSpec

CONSTANTS
    Policies     <- OnlyGroup
    NoPolicy     = NoPolicy
    NoMemory     = NoMemory
    UpgradeModes <- KeepsState
    HealthCheck  = FALSE
    DryRun       = FALSE
    Humans       <- NoOne
    HumanNonces  <- NoNonces
    Outcomes     <- NoOutcomes
    IdleAfter    = 1
    MinAwake     = 1
    MaxSleep     = 0
    FailingAfter = 1
    MaxRestarts  = 1
    Window       = 4
    BaseBackoff  = 1
    Multiplier   = 2
    MaxLag       = 1
    MaxTime      = 5
    MaxEnd       = 1
    MaxFaults    = 0
    MaxEdits     = 0
    MaxFailures  = 0

PROPERTIES
    EveryRecordIsRead
