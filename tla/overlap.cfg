SPECIFICATION Spec
CONSTANTS
    Users     = {u1}
    Plans     = {p1, p2}
    PriceOf  <- MCPriceOf
    Requests  = {r1, r2}
    Ops      <- OverlapOps
    Edits    <- Activations
    MaxSubs   = 2
    MaxStripe = 1
    MaxFails  = 1
    None      = None
INVARIANTS
    ConfirmedWasPaid
    OnePaymentPerConfirm
    RowMatchesCharge
    ActiveHasShipment
SYMMETRY SlotSymmetry
\* A bounded workload comes to its end.
CHECK_DEADLOCK FALSE
