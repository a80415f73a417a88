CONSTANTS
    Admits = {1, 2, 3}
    AdmitCosts = {1, 2}
    AdmitValues = {1, 4}
    Layouts <- MCLayouts
    ConcLimit = 2
    RateUnits = 2
    CostUnits = 3
    Workload <- MCWorkload
    SampleWindow = 2
    Tenants = {"a", "b", "c"}
    ShareLimit = 4
    TenantWeights = {1, 2}
    ShareCosts = {1, 2}
    TokenBudget = 3
    TokenSizes = {1, 2}
    Kay = 2
    MaxSent = 4
    BudgetWindow = 2
    BudgetSpan = 5
    Subjects = {"unified", "budgets", "lp", "split", "leases", "meters", "capture", "fleet"}
    LpValues = {0, 1, 3}
    LpCosts = {0, 1, 2}
    LpBudgets = {1, 2}
    MaxDemand = 3
    MaxWeight = 2
    MaxSplit = 4
    Calls = {1, 2, 3}
    GuardSlots = 2
    LeaseTtl = 2
    DoorSpan = 5
    MeterKeys = {"j", "k", "l"}
    MaxMeters = 2
    MeterBudget = 2
    MeterSizes = {1, 3}
    MaxDebits = 4
    Scopes = {"s", "t"}
    Traced = {"p", "q"}
    RingSize = 1
    MaxScopes = 1
    Ttl = 1
    Flushes = {1, 2}
    MaxEvents = 3
    LogSpan = 2
    Spenders = {1, 2}
    Requests = {1, 2, 3}
    SpendCosts = {1, 2}
    Asks = {1}
    FleetLimit = 2
    FleetWindow = 1
    MaxRounds = 2
    FleetSpan = 1
SPECIFICATION Spec
CHECK_DEADLOCK FALSE
INVARIANTS SlotsHeldOnce VerdictsAreOwn BudgetsHold AllocationsOptimal CaptureSound
PROPERTIES DeadlineKept EverythingSettles
