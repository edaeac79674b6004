SPECIFICATION ReaderSpec
CONSTANTS
    Jobs = 3
    Depth = 2
    Entries = 2
    Faults = {"read"}
INVARIANTS
    BuffersOutliveReads
