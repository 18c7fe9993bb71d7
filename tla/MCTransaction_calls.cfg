SPECIFICATION Spec
CONSTANTS
    a1 = a1  a2 = a2  a3 = a3
    Account = {a1, a2, a3}
    ClientNodes <- BothNodes
    GivenNodes <- OtherNodes
    Key = {op, k1}
    Operator = op
    SignsOnDemand = {TRUE, FALSE}
    MaxNodes = 2
    Caller = {c1, c2}
    MaxIds = 2
    MaxCalls = 4
    Null = Null
CHECK_DEADLOCK FALSE
SYMMETRY Callers
INVARIANTS KeysAligned RegisteredHaveSigned SentIsSigned RowsFollowNodes OneSignature
PROPERTIES LockedIdStays
