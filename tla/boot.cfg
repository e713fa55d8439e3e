SPECIFICATION FairSpec
CONSTANTS
    Instances  = {"i1", "i2", "i3"}
    Migrating  = {"i1", "i2"}
    MaxFaults  = 2
    None       = None
    Names      = {"Wellness", "Gamer", "Other"}
    Presets   <- MCPresets
    Featured   = "Wellness"
    Unnamed    = Unnamed
    PlanIds    = {1, 2, 3, 4, 5}
    Defaults  <- MCDefaults
    Additions <- MCAdditions
    Changes   <- MCChanges
    Seeders    = {1, 2}
    Workloads <- Mixed
INVARIANTS
    TypeOK
    MigratedBeforeServing
    TwinsOverlapped
    ReadsAgree
PROPERTIES
    EventuallyReady
    ShutdownEnds
    SeedingDelivers
    SeedingCompletes
\* Every instance has exited in the end.
CHECK_DEADLOCK FALSE
