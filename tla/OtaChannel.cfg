SPECIFICATION FairSpec
CONSTANTS
    None = None
    Releases = {"a", "b", "c"}
    Republishes = {"b:a", "c:b", "c:a"}
    TimeOf <- MCTimeOf
    Supersedes <- MCSupersedes
    ContentOf <- MCContentOf
    DirectivesOf <- MCDirectivesOf
    Platforms = {"ios", "android"}
    Full = 3
    Policies = {"open", "strict", "loose"}
    Device = "ios"
    Workers = {w1, w2}
    Workloads <- MCWorkloads
INVARIANT RolloutBounded
INVARIANT ServedReady
PROPERTY HeadAdvances
PROPERTY PolicyGoverned
PROPERTY ForwardApproved
PROPERTY DeviceCatchesUp
CHECK_DEADLOCK FALSE
