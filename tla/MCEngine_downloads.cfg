SPECIFICATION FairSpec
CONSTANTS
    q = q
    w = w
    f = f
    c = c
    Sources = {q, w}
    Kind <- KindOf
    Sizes <- OneChunk
    Cached = {}
    Truncatable = {}
    MaxErrors = 2
    MaxStreams = 2
PROPERTIES
    QvodMovesOn
    StoppedEnds
    DownloadsEnd
CHECK_DEADLOCK FALSE
