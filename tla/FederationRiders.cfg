SPECIFICATION Spec
CONSTANTS
    Procs = {1, 2}
    RegionOf <- OneRegion
    Limit = 2
    Batch = 2
    WindowMs = 1
    MaxSkew = 1
    Deployments <- MCDeployments
    LateClock = FALSE
    Riders = TRUE
    PushFaults = {"refill"}
    Landed = {FALSE}
    Reqs = {1, 2}
    Callers <- MCCallers
    Slots = {1, 2}
    NoSlot = NoSlot
    MaxCalls = 4
    MaxResets = 0
    MaxTime = 0
INVARIANTS
    FederationBound
CHECK_DEADLOCK FALSE
