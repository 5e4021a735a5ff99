\* One application task calling setValue / append with empty, fitting and
\* oversized values, GATT reads, realloc always succeeding.
CONSTANTS
    app = app
    host = host
    Null = Null
    Tasks <- AppOnly
    Host = host
    Kinds <- BothKinds
    Sizes <- AllSizes
    HardMax = 512
    MaxLenArg = 3
    InitLen = 1
    MaxOps = 4
    NBlocks = 4
    AllocMayFail = FALSE
SPECIFICATION Spec
INVARIANT NoOverflow
