SPECIFICATION FairSpec
CONSTANTS
    Call = {c1, c2}
    Account = {"n1", "n2"}
    ClientNodes <- TwoNodes
    GivenNodes <- OtherNodes
    Costs = {1, 5}
    Maxima = {3}
    Payments = {7}
    DefaultMax = 2
    MaxAttempts = 2
    Half = 16
    Null = Null
CHECK_DEADLOCK FALSE
INVARIANTS ChargedWithinLimit PaymentsFollowNodes
PROPERTIES PaysExactlyThis EveryExecutionEnds
