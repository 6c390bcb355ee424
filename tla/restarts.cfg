SPECIFICATION Spec

CONSTANTS
    Policies     <- OnlyRestarting
    NoPolicy     = NoPolicy
    NoMemory     = NoMemory
    UpgradeModes <- KeepsState
    HealthCheck  = FALSE
    DryRun       = FALSE
    Humans       <- StateEditors
    HumanNonces  <- NoNonces
    Outcomes     <- AnyFailure
    IdleAfter    = 1
    MinAwake     = 1
    MaxSleep     = 0
    FailingAfter = 1
    MaxRestarts  = 2
    Window       = 4
    BaseBackoff  = 2
    Multiplier   = 1
    MaxLag       = 0
    MaxTime      = 5
    MaxEnd       = 0
    MaxFaults    = 1
    MaxEdits     = 1
    MaxFailures  = 3

INVARIANTS
    TypeOK
    MarkInv
    BudgetInv
    RestartsSpaced
    RestartsLimited

PROPERTIES
    MinAwakeHonoured
