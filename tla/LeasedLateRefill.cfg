SPECIFICATION Spec
CONSTANTS
    N = 1
    Limit = 4
    WindowMs = 1
    BatchSizes = {2}
    MaxBatch = 2
    LowWater = 1
    WindowCoupled = TRUE
    Costs = {1}
    MaxCost = 1
    Reqs = {r1, r2}
    Slots = {s1, s2}
    NoSlot = NoSlot
    ServerTime = TRUE
    CanEvict = FALSE
    MaxResets = 0
    CanFail = FALSE
    Straddle = {"refill"}
    MaxTime = 1
SYMMETRY ReqSlotSymmetry
INVARIANTS
    CoupledBound
CHECK_DEADLOCK FALSE
