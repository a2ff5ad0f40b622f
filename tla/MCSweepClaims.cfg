SPECIFICATION FairSweepSpec
CONSTANTS
    NoOrder = NoOrder
    poisoned = poisoned
    sound = sound
    p1 = p1
    p2 = p2
    Orders <- MCOrders
    Passes <- MCPasses
    Poisoned = {poisoned}
    StaleAfter = 5
    Lease = 2
    BatchSize = 1
    Interval = 1
    HandlerTime = 2
    DispatchTime = 1
    AttemptTime = 1
    MaxAttempts = 2
    Backoff <- MCBackoff
    BudgetFrom <- MCBudget
    Horizon = 6
    MaxFaults = 1
INVARIANTS
    NoClaimLingers
PROPERTIES
    ClaimsAreSpaced
    RetriesAreLeftAlone
    PoisonDoesNotStarve
