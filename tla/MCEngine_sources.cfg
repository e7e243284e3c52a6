SPECIFICATION Spec
CONSTANTS
    q = q
    w = w
    f = f
    c = c
    Sources = {q, f, c}
    Kind <- KindOf
    Sizes <- TwoChunks
    Cached = {c}
    Truncatable = {f}
    MaxErrors = 2
    MaxStreams = 2
INVARIANTS
    TypeOK
    EndedIsOver
    PauseStopsQvod
    ProgressIsBuffered
    NewestRegistered
    PauseHolds
CHECK_DEADLOCK FALSE
