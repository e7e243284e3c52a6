\* The file is larger than the buffer: what read() then returns.
SPECIFICATION Spec
CONSTANTS
    Cap = 3
    Total = 6
    MaxWrite = 2
    PlayPositions = {0}
INVARIANT ReadReturnsFileBytes
