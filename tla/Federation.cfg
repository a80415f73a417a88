SPECIFICATION Spec
CONSTANTS
    Procs = {1, 2}
    RegionOf <- OneRegion
    Limit = 2
    Batch = 2
    WindowMs = 1
    MaxSkew = 1
    Deployments <- MCDeployments
    LateClock = FALSE
    Riders = FALSE
    PushFaults = {"refill"}
    Landed = {FALSE}
    Reqs = {1, 2}
    Callers <- MCCallers
    Slots = {1, 2}
    NoSlot = NoSlot
    MaxCalls = 3
    MaxResets = 1
    MaxTime = 1
INVARIANTS
    FederationBound
    EscrowConserved
CHECK_DEADLOCK FALSE
