SPECIFICATION QueuesSpec
CONSTANTS
    Setups <- MCSetups
    Tasks = 7
    Capacity = 3
    Outstanding = 3
    Jobs = 5
    Depth = 3
    Entries = 4
    Faults = {"eintr", "enter", "read"}
INVARIANTS
    TaskConserved
    PoolConserved
    AllJobsRead
PROPERTIES
    ImplementsPool
    CallsReturn
    ReaderReturns
