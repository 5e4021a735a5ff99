\* setValue of every size, with a GATT read on the host task.
CONSTANTS
    app = app
    host = host
    Null = Null
    Tasks <- MCTasks
    Host = host
    Kinds <- SetOnly
    Sizes <- AllSizes
    HardMax = 512
    MaxLenArg = 3
    InitLen = 1
    MaxOps = 2
    NBlocks = 3
    AllocMayFail = FALSE
SPECIFICATION Spec
INVARIANT SetValueAtomic
