SPECIFICATION Spec
CONSTANTS
    Viewers = {v1}
    Callers = {}
    Commands = {}
    Kinds = {"http"}
    Size = 6
    Piece = 2
    Chunk = 2
    ChanCap = 1
    Headers <- WholeFile
    MaxPlays = 1
INVARIANT BodyComplete
CHECK_DEADLOCK FALSE
