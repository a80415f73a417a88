SPECIFICATION Spec
CONSTANTS
    N = 2
    Limit = 4
    WindowMs = 1
    BatchSizes = {1, 2}
    MaxBatch = 2
    LowWater = 1
    WindowCoupled = TRUE
    Costs = {1}
    MaxCost = 1
    Reqs = {r1}
    Slots = {s1, s2}
    NoSlot = NoSlot
    ServerTime = TRUE
    CanEvict = FALSE
    MaxResets = 0
    CanFail = FALSE
    Straddle = {}
    MaxTime = 1
SYMMETRY ReqSlotSymmetry
INVARIANTS
    CoupledBound
    NodeHoldsTwoLeases
CHECK_DEADLOCK FALSE
