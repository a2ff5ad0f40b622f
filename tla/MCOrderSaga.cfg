SPECIFICATION SweptSpec
CONSTANTS
    w1 = w1
    w2 = w2
    p1 = p1
    NoOrder = NoOrder
    NoWarehouse = NoWarehouse
    Orders = {o1, o2}
    Workers = {k1, k2}
    Sweepers = {s1}
    Callers <- MCCallers
    Warehouses = {w1}
    Products = {p1}
    MaxSupply = 1
    MaxDeliveries = 1
    MaxFaults = 1
    Items <- MCItems
    Distance <- MCDistance
    InitialStock <- MCInitialStock
CHECK_DEADLOCK FALSE
INVARIANTS
    StatusMatchesLedger
    StatusMatchesCharge
    ChargedUnwindsAreMarked
PROPERTY
    LifecycleRefinement
    EveryOrderSettles
