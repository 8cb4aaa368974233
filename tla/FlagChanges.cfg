SPECIFICATION FairSpec
CONSTANTS
    Changesets = {"u1", "u2", "p1", "p2", "k", "n"}
    KindOf <- MCKindOf
    GateRequests = {"q1", "q2"}
    Gates = {"none", "weak", "strong"}
    FirstGate = {"none", "weak"}
    Workers = {w1, w2}
    Workloads <- MCWorkloads
INVARIANT EveryVersionExplained
INVARIANT AppliedGoverned
PROPERTY FateFinal
PROPERTY GateGoverned
PROPERTY ChangesetsEnd
CHECK_DEADLOCK FALSE
