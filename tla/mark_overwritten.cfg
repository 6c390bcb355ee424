SPECIFICATION Spec

CONSTANTS
    Policies     <- OnlyGroup
    NoPolicy     = NoPolicy
    NoMemory     = NoMemory
    UpgradeModes <- KeepsState
    HealthCheck  = FALSE
    DryRun       = FALSE
    Humans       <- StateEditors
    HumanNonces  <- NoNonces
    Outcomes     <- NoOutcomes
    IdleAfter    = 1
    MinAwake     = 1
    MaxSleep     = 0
    FailingAfter = 1
    MaxRestarts  = 1
    Window       = 4
    BaseBackoff  = 1
    Multiplier   = 2
    MaxLag       = 2
    MaxTime      = 4
    MaxEnd       = 0
    MaxFaults    = 0
    MaxEdits     = 2
    MaxFailures  = 0

INVARIANTS
    OursIsMarked
