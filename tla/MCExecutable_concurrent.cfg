SPECIFICATION ExecSpec
CONSTANTS
    a1 = a1  a2 = a2  h1 = h1  h2 = h2  r1 = r1  r2 = r2
    Account = {a1, a2}
    Host = {h1, h2}
    IsMirror = FALSE
    SwitchesTransport = FALSE
    InitMinBackoff = 1
    MinBackoffs = {}
    MaxBackoffs = {}
    ReadmitPeriods = {}
    Epoch = 4
    Never = 99
    NoKey = NoKey
    NoNode = NoNode
    Nobody = Nobody
    Node = {n1, n2}
    Request = {r1, r2}
    Transactions = {r1}
    ReceiptQueries = {r2}
    RecordQueries = {}
    OnDemand = {}
    Given <- TransactionThenReceipt
    MaxNodes = 0
    MaxAttempts = 2
    RequestTimeout = 2
    GrpcDeadline = 1
    MinDelay = 1
    MaxDelay = 1
    IsLocalNetwork = FALSE
    HasMirror = TRUE
    NodesMove = FALSE
    Books <- ChangingBooks
    Horizon = 6
    InitMaxBackoff = 2
SYMMETRY Objects
PROPERTIES WaitsDoNotPileUp GivesUpAfterTryingAll RetriesMoveOn
