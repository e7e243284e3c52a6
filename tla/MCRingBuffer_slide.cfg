\* The file is larger than the buffer: the window slides both ways.
SPECIFICATION Spec
CONSTANTS
    Cap = 4
    Total = 8
    MaxWrite = 3
    PlayPositions = {0, 3}
INVARIANTS
    TypeOK
    WindowHoldsFileBytes
    ReadAfterWrite
    RangesAddUp
    MergeLoopAgrees
