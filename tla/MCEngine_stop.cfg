SPECIFICATION FairSpec
CONSTANTS
    q = q
    w = w
    f = f
    c = c
    Sources = {q}
    Kind <- KindOf
    Sizes <- TwoChunks
    Cached = {}
    Truncatable = {}
    MaxErrors = 2
    MaxStreams = 2
PROPERTY StopCleansUp
CHECK_DEADLOCK FALSE
