\* Both tasks writing and the host reading: an access between a realloc that
\* moved the buffer and the commit that publishes the new pointer.
CONSTANTS
    app = app
    host = host
    Null = Null
    Tasks <- MCTasks
    Host = host
    Kinds <- BothKinds
    Sizes <- FitSizes
    HardMax = 512
    MaxLenArg = 3
    InitLen = 1
    MaxOps = 2
    NBlocks = 3
    AllocMayFail = FALSE
SPECIFICATION Spec
INVARIANT NoUseAfterFree
