SPECIFICATION Spec
CONSTANTS
    Node = {n1, n2, n3}
    a1 = a1  a2 = a2  h1 = h1  h2 = h2
    Account = {a1, a2}
    Host = {h1, h2}
    Books <- ConsensusBooks
    IsMirror = FALSE
    SwitchesTransport = FALSE
    InitMinBackoff = 1
    InitMaxBackoff = 3
    MinBackoffs = {}
    MaxBackoffs = {}
    ReadmitPeriods = {}
    Epoch = 4
    Horizon = 7
    Never = 99
    NoKey = NoKey
SYMMETRY Objects
INVARIANTS MappedAreMembers SelectableAreHealthy
PROPERTIES LeaversAreClosed
