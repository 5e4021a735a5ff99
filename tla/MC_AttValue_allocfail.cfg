\* realloc failing inside append, then another call on the same attribute.
CONSTANTS
    app = app
    host = host
    Null = Null
    Tasks <- AppOnly
    Host = host
    Kinds <- BothKinds
    Sizes <- FitSizes
    HardMax = 512
    MaxLenArg = 3
    InitLen = 1
    MaxOps = 3
    NBlocks = 3
    AllocMayFail = TRUE
SPECIFICATION Spec
INVARIANT NoOverflow
