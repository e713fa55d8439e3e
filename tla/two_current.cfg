SPECIFICATION Spec
CONSTANTS
    Users     = {u1}
    Plans     = {p1}
    PriceOf  <- MCPriceOf
    Requests  = {r1, r2}
    Ops      = {"subscribe"}
    Edits    <- NoEdits
    MaxSubs   = 2
    MaxStripe = 0
    MaxFails  = 0
    None      = None
INVARIANT
    AtMostOneCurrent
\* A bounded workload comes to its end.
CHECK_DEADLOCK FALSE
