SPECIFICATION Spec
CONSTANTS
    Users     = {u1, u2}
    Plans     = {p1}
    PriceOf  <- MCPriceOf
    Requests  = {r1}
    Ops      <- AllOps
    Edits    <- AllEdits
    MaxSubs   = 2
    MaxStripe = 1
    MaxFails  = 1
    None      = None
INVARIANTS
    TypeOK
    AtMostOneCurrent
    SingleInitialShipment
PROPERTY
    ImplementsContract
\* A bounded workload comes to its end.
CHECK_DEADLOCK FALSE
