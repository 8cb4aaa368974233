SPECIFICATION FairSpec
CONSTANTS
    Users = {"ann", "bob", "cal", "dan"}
    Roles = {"dev", "qa", "sec"}
    RolesOf <- MCRolesOf
    MaxListed = 3
    MaxCount = 2
    NoSlot = NoSlot
INVARIANT MeetsContract
PROPERTY Decides
CHECK_DEADLOCK FALSE
