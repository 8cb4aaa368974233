SPECIFICATION Spec
CONSTANTS
    Users <- MCUsers
    Roles <- MCRoles
    RolesOf <- MCRolesOf
    Requests = {"old", "new", "look"}
    KindOf <- MCKindOf
    SubjectOf <- MCSubjectOf
    Required <- MCRequired
    PreventSelf = {"old"}
    Proposers <- MCProposers
    Expiring = {"old"}
    Handled = {"app"}
    Workers = {w1, w2}
    MayCrash = TRUE
INVARIANT AppliedEarned
CHECK_DEADLOCK FALSE
SYMMETRY WorkerSymmetry
INVARIANT DecisionNoticed
INVARIANT ApprovedIsApplied
PROPERTY RequestsDecidedOnce
