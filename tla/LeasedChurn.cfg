SPECIFICATION FairSpec
CONSTANTS
    N = 1
    Limit = 3
    WindowMs = 1
    BatchSizes = {2}
    MaxBatch = 2
    LowWater = 1
    WindowCoupled = FALSE
    Costs = {1, 2}
    MaxCost = 2
    Reqs = {r1, r2}
    Slots = {s1, s2}
    NoSlot = NoSlot
    ServerTime = TRUE
    CanEvict = TRUE
    MaxResets = 1
    CanFail = TRUE
    Straddle = {"demand", "refill"}
    MaxTime = 0
INVARIANTS
    L2GrantsWithinLimit
    NothingMinted
PROPERTIES
    CallbacksSettle
CHECK_DEADLOCK FALSE
