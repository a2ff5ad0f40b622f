SPECIFICATION FairOutboxSpec
CONSTANTS
    NoOrder = NoOrder
    o1 = o1
    o2 = o2
    r1 = r1
    r2 = r2
    Orders <- MCOrders
    Relays <- MCRelays
    MaxAttempts = 2
    MaxRelayFaults = 3
INVARIANTS
    OutboxTypeOK
    DispatchedMeansEnqueued
    GivenUpMeansExhausted
CHECK_DEADLOCK FALSE
PROPERTY EventsComeToRest
