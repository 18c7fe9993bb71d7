SPECIFICATION FairSpec
CONSTANTS
    Chain = {t1, t2}
    Versions = 1
    Book <- OneBook
    Maximum = 0
    MaxChanges = 1
    NoChain = NoChain
PROPERTIES UpdateCompletes
