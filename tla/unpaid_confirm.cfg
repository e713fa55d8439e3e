SPECIFICATION Spec
CONSTANTS
    Users     = {u1}
    Plans     = {p1}
    PriceOf  <- MCPriceOf
    Requests  = {r1}
    Ops      = {"checkout", "confirm"}
    Edits    <- NoEdits
    MaxSubs   = 1
    MaxStripe = 1
    MaxFails  = 1
    None      = None
INVARIANT
    ConfirmedIsPaid
\* A bounded workload comes to its end.
CHECK_DEADLOCK FALSE
