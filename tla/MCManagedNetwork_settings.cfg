SPECIFICATION FairSpec
CONSTANTS
    Node = {n1, n2}
    a1 = a1  a2 = a2  h1 = h1  h2 = h2
    Account = {a1}
    Host = {h1}
    Books <- SingleBook
    IsMirror = FALSE
    SwitchesTransport = TRUE
    InitMinBackoff = 1
    InitMaxBackoff = 2
    MinBackoffs = {2}
    MaxBackoffs = {1}
    ReadmitPeriods = {2}
    Epoch = 4
    Horizon = 6
    Never = 99
    NoKey = NoKey
INVARIANTS BackoffWithinConfigured
PROPERTIES NoEarlyReadmission EventuallyReadmitted
