SPECIFICATION Spec
CONSTANTS
    Users          = {u1}
    Subs           = {s1}
    OwnerOf       <- MCOwnerOf
    Requests       = {r1, r2}
    CreateStatuses = {"PACKED"}
    PatchStatuses  = {"packed"}
    PutStatuses    = {"PENDING", "DELIVERED"}
    MaxShips       = 2
    MaxFails       = 1
    None           = None
INVARIANTS
    EveryStatusAnnounced
    LastPushTrue
SYMMETRY SlotSymmetry
\* Shipments may all have been removed.
CHECK_DEADLOCK FALSE
