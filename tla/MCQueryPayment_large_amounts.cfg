SPECIFICATION Spec
CONSTANTS
    Call = {c1}
    Account = {"n1", "n2"}
    ClientNodes <- TwoNodes
    GivenNodes <- OtherNodes
    Costs = {9}
    Maxima = {7}
    Payments = {7}
    DefaultMax = 2
    MaxAttempts = 2
    Half = 8
    Null = Null
CHECK_DEADLOCK FALSE
INVARIANT ChargedWithinLimit
