SPECIFICATION LeftoverSpec
CONSTANTS
    None = None
    Jobs = {j1, j2}
    Keys = {k1}
    KeyOf <- AllKeyed
    MaxAttempts <- TwoAndOne
    BadPayload = {}
    Cap = 1
    BaseDelay = 1
    MaxDelay = 1
    MaxRetryAt = 1
    Visibility = 1
    FunctionMax = 2
    Budget = 2
    MaxJobs = 1
    Overhead = 1
    MaxLate = 1
    Schedules = {}
    Interval <- EveryUnit
    Retention <- PruneAtOnce
    Runners = {r1, r2}
    Enqueuers = {e1}
    DedupeRetries = 1
    FailAt <- MidRun
    MayWaitFree = FALSE
INVARIANT OneLivePerKey
PROPERTIES OnlyOwnerWrites JobsSettle
