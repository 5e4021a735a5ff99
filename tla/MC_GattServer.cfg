CONSTANTS
    s1 = s1
    s2 = s2
    c1 = c1
    c2 = c2
    h1 = h1
    h2 = h2
    NONE = NONE
    Svcs <- OneSvc
    Chrs <- OneChr
    SvcOf <- C1InS1
    ConnIds <- MCConnIds
    MaxConn = 2
    MaxQueued = 2
    AdvOnDisconnect = TRUE
SYMMETRY MCSymmetry
SPECIFICATION Spec
INVARIANT TypeOK
INVARIANT PeerTableMatchesConns
PROPERTY ResetOnlyWhenIdle
 
