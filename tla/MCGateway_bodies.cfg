SPECIFICATION FairSpec
CONSTANTS
    Viewers = {v1, v2}
    Callers = {r}
    Commands = {"play", "pause", "resume", "stop"}
    Kinds = {"qvod", "file"}
    Size = 5
    Piece = 4
    Chunk = 2
    ChanCap = 1
    Headers <- LastBytes
    MaxPlays = 2
INVARIANTS
    TypeOK
    MutexDiscipline
    AnswerStillTrue
    BodyInOrder
PROPERTIES
    CallersServed
    ViewersEnd
CHECK_DEADLOCK FALSE
