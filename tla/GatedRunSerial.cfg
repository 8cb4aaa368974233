SPECIFICATION FairSpec
CONSTANTS
    Users <- MCUsers
    Roles <- MCRoles
    RolesOf <- MCRolesOf
    N = 5
    GateReq <- LongGates
    PreventSelf = {0}
    CredentialGate <- LongCredential
    UnknownExecutor = {4}
    Granted = {2}
    Triggerer = "tom"
    Handlers = {h1, h2, h3}
    Overlap = FALSE
    MayFail = TRUE
INVARIANT InFlightAnswerable
PROPERTY FinishedIsFinal
CHECK_DEADLOCK FALSE
PROPERTY Settles
