SPECIFICATION Spec
CONSTANTS
    NumTensors = 6
    NumChunks = 8
    Last <- MCLast
    Prefetch <- MCPrefetch
    Cells <- MCCells
    Writes <- MCWrites
    Payload <- MCPayload
    IoDepth = 2
    MaxIoDepth = 2
    Faults = {}
INVARIANTS
    NoWorkAfterClose
