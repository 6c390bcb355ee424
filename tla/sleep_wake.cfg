SPECIFICATION FairSpec

CONSTANTS
    Policies     <- Sleepers
    NoPolicy     = NoPolicy
    NoMemory     = NoMemory
    UpgradeModes <- AnyMode
    HealthCheck  = FALSE
    DryRun       = FALSE
    Humans       <- MemoryLosers
    HumanNonces  <- NoNonces
    Outcomes     <- NoOutcomes
    IdleAfter    = 1
    MinAwake     = 1
    MaxSleep     = 1
    FailingAfter = 1
    MaxRestarts  = 1
    Window       = 4
    BaseBackoff  = 1
    Multiplier   = 2
    MaxLag       = 0
    MaxTime      = 6
    MaxEnd       = 1
    MaxFaults    = 1
    MaxEdits     = 1
    MaxFailures  = 0

PROPERTIES
    EveryRecordIsRead
    RefreshedInTime
    MinAwakeHonoured
