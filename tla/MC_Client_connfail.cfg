CONSTANTS
    h1 = h1
    h2 = h2
    NONE = NONE
    Handles <- MCHandles
    Reasons = {"ESTAB", "OTHER"}
    MaxCalls = 3
    MaxSvcs = 1
    SelfDeletes <- NoSelfDelete
SPECIFICATION Spec
CHECK_DEADLOCK FALSE
INVARIANT ConnectFailureLeavesNoConnection
