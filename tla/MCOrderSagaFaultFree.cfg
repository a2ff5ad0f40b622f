SPECIFICATION FairSagaSpec
CONSTANTS
    w1 = w1
    w2 = w2
    p1 = p1
    NoOrder = NoOrder
    NoWarehouse = NoWarehouse
    Orders = {o1}
    Workers = {k1, k2}
    Sweepers = {s1, s2}
    Callers <- MCCallers
    Warehouses = {w1, w2}
    Products = {p1}
    MaxSupply = 1
    MaxDeliveries = 3
    MaxFaults = 0
    Items <- MCItems
    Distance <- MCDistance
    InitialStock <- MCInitialStock
CHECK_DEADLOCK FALSE
PROPERTY FailedOrdersReturnStock
