SPECIFICATION Spec

CONSTANTS
    Policies     <- Anything
    NoPolicy     = NoPolicy
    NoMemory     = NoMemory
    UpgradeModes <- AnyMode
    HealthCheck  = FALSE
    DryRun       = FALSE
    Humans       <- AllButState
    HumanNonces  <- HandWritten
    Outcomes     <- NoOutcomes
    IdleAfter    = 1
    MinAwake     = 1
    MaxSleep     = 0
    FailingAfter = 1
    MaxRestarts  = 1
    Window       = 4
    BaseBackoff  = 1
    Multiplier   = 2
    MaxLag       = 2
    MaxTime      = 4
    MaxEnd       = 1
    MaxFaults    = 1
    MaxEdits     = 1
    MaxFailures  = 0

INVARIANTS
    OursIsMarked
    SavepointInv
    MarkInv

PROPERTIES
    SavepointSafe

\* A released deployment is left alone once the clock has run out.
CHECK_DEADLOCK FALSE
