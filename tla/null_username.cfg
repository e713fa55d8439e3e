SPECIFICATION Spec
CONSTANTS
    Instances   = {i1}
    Requests    = {r1}
    Users       = {u1}
    Usernames   = {"ada"}
    Names       <- MCNames
    SeedList    <- MCSeedList
    SeedIsAdmin <- MCSeedIsAdmin
    SeedPerms   <- MCSeedPerms
    Catalog     = {"plans"}
    Legacy      = {}
    Workloads   <- Alone
    UserEdits   <- NullAndRole
    RoleEdits   <- NoRoleEdits
    MaxRoles    = 4
    MaxFails    = 0
    None        = None
INVARIANTS
    AdminHasUsername
