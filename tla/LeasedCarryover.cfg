SPECIFICATION Spec
CONSTANTS
    N = 2
    Limit = 4
    WindowMs = 1
    BatchSizes = {2}
    MaxBatch = 2
    LowWater = 0
    WindowCoupled = FALSE
    Costs = {1}
    MaxCost = 1
    Reqs = {r1, r2}
    Slots = {s1, s2}
    NoSlot = NoSlot
    ServerTime = TRUE
    CanEvict = FALSE
    MaxResets = 0
    CanFail = TRUE
    Straddle = {"demand", "refill"}
    MaxTime = 1
SYMMETRY ReqSlotSymmetry
INVARIANTS
    TypeOK
    NodeHoldsAtMostBatch
    CarryoverBound
CHECK_DEADLOCK FALSE
