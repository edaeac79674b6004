SPECIFICATION FairSpec
CONSTANTS
    NumTensors = 6
    NumChunks = 8
    Last <- MCLast
    Prefetch <- MCPrefetch
    Cells <- MCCells
    Writes <- MCWrites
    Payload <- MCPayload
    IoDepth = 3
    MaxIoDepth = 3
    Faults = {"open", "submit", "short", "error"}
INVARIANTS
    IndInv
    TensorIntact
    WindowExclusive
    NoInternalError
    ReleasedWhenQuiet
PROPERTIES
    ImplementsStream
    CallsAnswered
