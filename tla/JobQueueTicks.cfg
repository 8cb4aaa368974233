SPECIFICATION Spec
CONSTANTS
    None = None
    Jobs = {j1, j2}
    Keys = {k1}
    KeyOf <- Unkeyed
    MaxAttempts <- Attempts2
    BadPayload = {j2}
    Cap = 1
    BaseDelay = 1
    MaxDelay = 2
    MaxRetryAt = 1
    Visibility = 3
    FunctionMax = 2
    Budget = 1
    MaxJobs = 2
    Overhead = 2
    MaxLate = 0
    Schedules = {s1}
    Interval <- EveryUnit
    Retention <- Keep
    Runners = {r1, r2}
    Enqueuers = {}
    DedupeRetries = 1
    FailAt <- Everywhere
    MayWaitFree = TRUE
SYMMETRY RunnerSymmetry
INVARIANT ClaimExclusive
INVARIANT RetriesBounded
PROPERTY MissedSlotsSkipped
