SPECIFICATION Spec
CONSTANTS
    N = 2
    Limits = {2}
    MaxLimit = 2
    Aggregate = "median"
    Allocation = "demand-proportional"
    Handoff = TRUE
    FailClosed = TRUE
    SelfFence = TRUE
    LeaseTtl = 2
    FenceMargin = 1
    MaxSkew = 0
    InOrder = FALSE
    MaxInFlight = 2
    CanFail = TRUE
    CanStop = FALSE
    DrainsInTime = FALSE
    MaxLoad = 2
    MaxBeats = 3
    MaxTime = 0
INVARIANTS
    InflightCap
    ReserveCovers
CHECK_DEADLOCK FALSE
