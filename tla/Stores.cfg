SPECIFICATION StoresSpec
CONSTANTS
    Procs = {1, 2}
    NoProc = NoProc
    Calls <- MCCalls
    Transforms = {1, 2}
    Limit = 3
    States <- MCStates
    NoState = NoState
    Results = {"allowed", "denied"}
    Outcome <- MCOutcome
    MaxRetries = 1
    UniqueStamps = TRUE
    CanReset = TRUE
    CanFail = TRUE
    MaxTime = 2
    MemKeys = {a, b, c}
    NoKey = NoKey
    MaxKeys = 2
    TickMs = 2
    WheelSize = 2
    Ttls = {0, 1, 3}
    MemSpan = 4
    PgCalls = {1, 2, 3}
    PoolSize = 2
    PgTtl = 1
    PgSpan = 1
    RedisCalls = {1, 2, 3}
    RedisModes <- MCModes
    OccRetries = 1
    MaxFlushes = 1
    MaxForeign = 1
INVARIANTS
    TypeOK
    NothingLost
    StoresWellFormed
PROPERTIES
    AtomicApply
    ConflictsAreForeign
    EvictsOnlyWhenFull
    EveryApplySettles
CHECK_DEADLOCK FALSE
