SPECIFICATION PspSpec
CONSTANTS
    q1 = q1
    q2 = q2
    q3 = q3
    q4 = q4
    Keys = {"k1", "k2"}
    Requests = {q1, q2, q3, q4}
    KeyOf <- MCKeyOf
CHECK_DEADLOCK FALSE
PROPERTY GatewayRefinement
