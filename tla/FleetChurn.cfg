SPECIFICATION Spec
CONSTANTS
    N = 2
    Limits = {1, 3}
    MaxLimit = 3
    Aggregate = "min"
    Allocation = "demand-proportional"
    Handoff = FALSE
    FailClosed = TRUE
    SelfFence = TRUE
    LeaseTtl = 2
    FenceMargin = 1
    MaxSkew = 1
    InOrder = TRUE
    MaxInFlight = 1
    CanFail = TRUE
    CanStop = TRUE
    DrainsInTime = FALSE
    MaxLoad = 0
    MaxBeats = 2
    MaxTime = 2
INVARIANTS
    TypeOK
    GlobalCap
    FenceBeforeReclaim
CHECK_DEADLOCK FALSE
