SPECIFICATION FairSpec
CONSTANTS
    Chain = {t1, t2}
    Versions = 3
    Book <- ThreeBooks
    Maximum = 2
    MaxChanges = 2
    NoChain = NoChain
INVARIANTS OneUpdate UpdatesNeverStop AppliedWasServed ClosedStaysEmpty
PROPERTIES UpdatesGoOn UpdateEnds
