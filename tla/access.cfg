SPECIFICATION FairSpec
CONSTANTS
    Instances   = {i1, i2}
    Requests    = {r1, r2}
    Users       = {u1}
    Usernames   = {"ada"}
    Names       <- MCNames
    SeedList    <- MCSeedList
    SeedIsAdmin <- MCSeedIsAdmin
    SeedPerms   <- MCSeedPerms
    Catalog     = {"plans"}
    Legacy      = {"coupons"}
    Workloads   <- Mixed
    UserEdits   <- UserChanges
    RoleEdits   <- RoleChanged
    MaxRoles    = 5
    MaxFails    = 1
    None        = None
INVARIANTS
    TypeOK
    RoleOfUserExists
    AdminHasUsername
PROPERTIES
    SeedsRestored
    DefaultsSettle
\* A user who has been removed ends a workload without changes of roles.
CHECK_DEADLOCK FALSE
