SPECIFICATION FairSpec
CONSTANTS
    whole = whole  left = left  right = right  cut = cut
    Message = {whole, left, right, cut}
    Topic <- BusyTopic
    Total <- Chunked
    Handle = {h1}
    Stream = {s1, s2, s3, s4}
    StartAt = 1
    Limit = 5
    HasEnd = FALSE
    MaxAttempts = 2
    None = None
CHECK_DEADLOCK FALSE
INVARIANTS OnlySplitMessagesLost NeverSilentlyDead
PROPERTIES FeedsInOrder EventuallyRead
