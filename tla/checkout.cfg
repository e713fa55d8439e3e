SPECIFICATION FairSpec
CONSTANTS
    Users        = {u1, u2, u3}
    Spellings    = {"+855", "0"}
    Normal      <- MCNormal
    Emails      <- MCEmails
    Placeholder <- MCPlaceholder
    AdminEmail   = "admin@"
    Given       <- MCGiven
    Handlers     = {h1, h2}
    Workloads   <- Mixed
    MaxFaults    = 1
    None         = None
    Plans        = {p1}
    PriceOf     <- MCPriceOf
    Slots        = {c1, c2}
    Retries      = 2
    MaxCustomers = 2
    MaxStripe    = 2
INVARIANTS
    PhoneOfOneSubscriber
    OneCustomerPerEmail
    CustomerOfOneUser
    OrphansAreFailures
    AnsweredFinal
PROPERTIES
    AdminSeeded
    CheckoutEnds
    ImplementsLifecycle
\* A bounded workload comes to its end.
CHECK_DEADLOCK FALSE
