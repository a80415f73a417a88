SPECIFICATION PathSpec
CONSTANTS
    MsPerDay = 2
    LimiterPlans <- MCPlans
    LimiterCosts = {1, 2}
    LimiterSpan = 8
    MaxChecks = 4
    FirstDays <- MCFirstDays
    WalkDays = 900
    Holders = {h1, h2}
    MinLimit = 1
    MaxLimit = 2
    InitialLimit = 1
    Laws = {"aimd", "gradient2"}
    RttWindow = 2
    Tolerance = 1
    BackoffNum = 1
    BackoffDen = 2
    RecalMs = 2
    ProbeLimit = 1
    ProbeSamples = 1
    MaxSamples = 4
    GuardSpan = 2
    LifeSpan = 1
    AdapterSet <- AllAdapters
    TallyKeys = {k1, k2, k3}
    Lanes = {"rate"}
    Wrappers = {"limiter", "admitter"}
    TopK = 2
    TallyWindow = 2
    MaxTally = 4
    TallySpan = 2
INVARIANTS
    RateBound
    RetryIsHonest
    AnswersHold
    ReferencesAgree
    SlotsSettledRight
PROPERTIES
    EverySlotComesBack
CHECK_DEADLOCK FALSE
