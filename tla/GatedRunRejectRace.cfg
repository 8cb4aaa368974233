SPECIFICATION Spec
CONSTANTS
    Users <- MCUsers
    Roles <- MCRoles
    RolesOf <- MCRolesOf
    N = 2
    GateReq <- OnePerson
    PreventSelf = {0}
    CredentialGate <- NoCredential
    UnknownExecutor = {}
    Granted = {}
    Triggerer = "tom"
    Handlers = {h1, h2}
    Overlap = TRUE
    MayFail = FALSE
PROPERTY FinishedIsFinal
CHECK_DEADLOCK FALSE
