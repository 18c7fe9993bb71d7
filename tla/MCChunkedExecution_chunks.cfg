SPECIFICATION Spec
CONSTANTS
    Kinds = {"plain", "file", "topic"}
    Length = 3
    Sizes = {1, 2}
    Demands = {FALSE, TRUE}
    MaxChunks = 2
    MaxRetries = 2
    Caller = {c1, c2}
    MaxCalls = 3
    MaxBodies = 4
    MaxLapses = 1
    MaxDepth = 5
SYMMETRY Callers
CHECK_DEADLOCK FALSE
INVARIANTS FileHoldsContents PartsMakeMessage AppliedOnce RetriesBounded
