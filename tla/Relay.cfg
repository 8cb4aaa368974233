SPECIFICATION FairSpec
CONSTANTS
    Receipts = {"r1", "r2", "ping"}
    Facts = {"run"}
    Ignorable = {"ping"}
    Outgrown = {"r2"}
    SubscribersOf <- MCSubscribersOf
    FanOut = "fanout"
    Channels = {"ops", "dev"}
    Matching <- MCMatching
    Workers = {w1, w2}
    HardLimit = 1
    DailyLimit = 1
    MaxPublish = 2
    MaxAttempts = 2
    Fragile = {"dev"}
    Workloads <- MCWorkloads
INVARIANT PublishedFannedOut
INVARIANT FanOutComplete
INVARIANT CeilingHolds
PROPERTY HandledOnce
PROPERTY Relayed
CHECK_DEADLOCK FALSE
