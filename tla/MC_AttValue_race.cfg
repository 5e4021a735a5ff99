\* Both tasks writing, GATT reads, realloc free to fail: what holds under every interleaving.
CONSTANTS
    app = app
    host = host
    Null = Null
    Tasks <- MCTasks
    Host = host
    Kinds <- BothKinds
    Sizes <- AllSizes
    HardMax = 512
    MaxLenArg = 3
    InitLen = 1
    MaxOps = 2
    NBlocks = 3
    AllocMayFail = TRUE
SPECIFICATION Spec
INVARIANT TypeOK
