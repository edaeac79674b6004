SPECIFICATION FairSpec
CONSTANTS
    Ranks = {0, 1}
    NumTensors = 4
    NumChunks = 6
    Last <- MCLast
    Prefetch <- MCPrefetch
    Cells <- MCCells
    Writes <- MCWrites
    Payload <- MCPayload
    Owner <- MCOwner
    IoDepth = 2
    EarlyClose = FALSE
INVARIANTS
    TensorIntact
    BoundedLead
PROPERTIES
    GetAnswered
    CloseReturns
