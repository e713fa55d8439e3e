SPECIFICATION FairSpec
CONSTANTS
    Users     = {u1, u2}
    Plans     = {p1}
    PriceOf  <- MCPriceOf
    Requests  = {r1}
    Ops      <- SubscriberOps
    Edits    <- NoEdits
    MaxSubs   = 2
    MaxStripe = 2
    MaxFails  = 2
    None      = None
INVARIANTS
    RowsAgreeWithStripe
PROPERTIES
    PauseSucceeds
    ShipmentRepaired
\* A bounded workload comes to its end.
CHECK_DEADLOCK FALSE
