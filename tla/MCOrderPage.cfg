SPECIFICATION FairPageSpec
CONSTANTS
    r1 = r1
    r2 = r2
    r3 = r3
    r4 = r4
    k1 = k1
    k2 = k2
    k3 = k3
    k4 = k4
    b1 = b1
    b2 = b2
    p1 = p1
    NoRequest = NoRequest
    NoKey = NoKey
    Requests = {r1, r2, r3, r4}
    Pages = {p1}
    ApiRequests = {r3}
    FirstKey <- MCFirstKey
    UUIDs = {k1, k2, k3, k4}
    TypedKeys = {k1}
    Looks = 1
    Key <- MCKey
    Body <- MCBody
INVARIANTS
    AcceptanceTypeOK
    OneOrderPerKey
    AnswersAreTrue
    OnePurchaseOneOrder
    ReportsAreTrue
PROPERTIES
    EachReportIsNew
    RequestsAreAnswered
    SubmissionsEnd
CHECK_DEADLOCK FALSE
