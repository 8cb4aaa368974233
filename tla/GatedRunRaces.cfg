SPECIFICATION Spec
CONSTANTS
    Users <- MCUsers
    Roles <- MCRoles
    RolesOf <- MCRolesOf
    N = 3
    GateReq <- GateFirst
    PreventSelf = {0}
    CredentialGate <- CredentialLast
    UnknownExecutor = {}
    Granted = {2}
    Triggerer = "tom"
    Handlers = {h1, h2}
    Overlap = TRUE
    MayFail = TRUE
INVARIANTS ProgressEarned CredentialEarned DispatchedOnce
PROPERTIES RolloutSpec RotationUnlessOverwritten
CHECK_DEADLOCK FALSE
SYMMETRY HandlerSymmetry
