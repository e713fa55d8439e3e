SPECIFICATION Spec
CONSTANTS
    Boxes       = {b1, b2}
    People      = {u1}
    SeedSkus   <- MCSeedSkus
    SeedBoxes   = {b1, b2}
    OtherSku    = other
    Requests    = {r1, r2}
    Ops        <- AllOps
    Alone      <- MCAlone
    MaxProducts = 2
    MaxFiles    = 3
    MaxFails    = 1
    None        = None
INVARIANTS
    HeldFileExists
    NamedFileExists
    OneOrphanPerFailure
PROPERTIES
    SeedsAssigned
    ImplementsContract
SYMMETRY PlanSymmetry
\* A bounded workload comes to its end.
CHECK_DEADLOCK FALSE
