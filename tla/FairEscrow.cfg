SPECIFICATION Spec
CONSTANTS
    NP = 2
    NT = 2
    Quota = 3
    Quantum = 1
    Weights = {1, 2}
    EscrowCosts = {1, 2}
    Plans <- MCPlans
    EscrowWindow = 1
    MaxForgets = 1
    EscrowTime = 1
    NR = 2
    NU = 2
    GlobalLimit = 4
    UserWeights = {1, 2}
    UserCosts = {1, 2}
    PoolWindow = 1
    PoolPlans <- MCPoolPlans
    MaxLeaseIters = 4
    MaxClears = 1
    PoolTime = 1
    NKeys = 3
    Rows = {1, 2}
    Cols = {1, 2}
    MaxCell = 4
    SketchLimit = 3
    SketchWindow = 1
    Counts = {1, 2}
    Peers = {1, 2}
    MaxAdds = 4
    SketchSpan = 1
    DenyKeys = {"a", "b"}
    DenyCosts = {1, 2}
    Checks = {1, 2, 3}
    DenyLimit = 1
    DenyWindow = 2
    MaxDenials = 1
    DenySpan = 2
INVARIANTS
    CountersMatchRescan
    FairCapsHold
    NoStall
    ApproximationsSafe
PROPERTIES
    UnitsLeaveGuaranteesCovered
CHECK_DEADLOCK FALSE
