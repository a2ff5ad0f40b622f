SPECIFICATION ScreenSpec
CONSTANTS
    stock = stock
    locations = locations
    w1 = w1
    w2 = w2
    s1 = s1
    row = row
    city = city
    c1 = c1
    c2 = c2
    c3 = c3
    Calls = {c1, c2, c3}
    NoCall = NoCall
    NoTab = NoTab
    NoWrite = NoWrite
    Collections = {stock, locations}
    Slow = {stock}
    Unique = {stock}
    Adding = {stock}
    Writes = {w1, w2, s1}
    Seeds = {s1}
    Into <- MCInto
    Name <- MCName
    Value <- MCValue
    MaxRemoves = 1
INVARIANTS
    ScreenTypeOK
    TopUpsCount
    ListsAreSnapshots
    ActiveTabIsListed
PROPERTIES
    SavesAreShown
CHECK_DEADLOCK FALSE
SYMMETRY CallSymmetry
