SPECIFICATION FairSpec
CONSTANTS
    Deliveries = {"d1"}
    ChannelOf <- MCChannelOf
    Workers = {w1, w2}
    Stale = 1
    MaxQueued = 1
    MaxAttempts = 3
    MaxDeferrals = 1
    Lock = 1
    Limit = 2
    Pause = 1
    Answers = {"sent", "exhausted", "rate_limited", "no_channel", "no_sender", "refused", "transient", "ambiguous"}
INVARIANT SendExclusive
INVARIANT PostedIsRecorded
PROPERTY SettledFinal
PROPERTY DeliveriesSettle
CHECK_DEADLOCK FALSE
