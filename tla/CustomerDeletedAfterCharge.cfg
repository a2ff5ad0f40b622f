SPECIFICATION SagaSpec
CONSTANTS
    w1 = w1
    w2 = w2
    p1 = p1
    NoOrder = NoOrder
    NoWarehouse = NoWarehouse
    Orders = {o1}
    Workers = {k1}
    Sweepers = {}
    Callers <- MCCallers
    Warehouses = {w1}
    Products = {p1}
    MaxSupply = 1
    MaxDeliveries = 2
    MaxFaults = 1
    Items <- MCItems
    Distance <- MCDistance
    InitialStock <- MCInitialStock
INVARIANT DeclinedMeansNotCharged
CHECK_DEADLOCK FALSE
