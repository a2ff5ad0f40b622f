SPECIFICATION InventoryFairSpec
CONSTANTS
    c1 = c1
    c2 = c2
    o1 = o1
    o2 = o2
    o3 = o3
    w1 = w1
    w2 = w2
    p1 = p1
    p2 = p2
    NoOrder = NoOrder
    NoWarehouse = NoWarehouse
    Callers = {c1, c2}
    Orders = {o1, o2, o3}
    Warehouses = {w1, w2}
    Products = {p1, p2}
    MaxSupply = 1
    Items <- MCItems
    Distance <- MCDistance
    InitialStock <- MCInitialStock
INVARIANTS
    InventoryTypeOK
    LedgerConsistent
    StockConserved
    AnswersMatchLedger
PROPERTIES
    NearestFirst
    LedgerRefinement
    CallsAreAnswered
