\* ep-engine TAP iterator and ON_DISCONNECT callback, without reservations.
CONSTANTS
    c1 = c1
    c2 = c2
    h1 = h1
    h2 = h2
    h0 = h0
    b1 = b1
    b2 = b2
    NoName = NoName
    Conns <- MCConns
    Handles <- MCHandles
    Names <- MCNames
    NoHandle = NoHandle
    NoConn = NoConn
    MaxReserved = 1
    MaxClients = 3
    AutoCreate = TRUE
    EngineReservesCookies = FALSE
    EngineWantsDisconnects = TRUE
    TapIteratorDisabled = FALSE
    AdminUser = NoName
    DefaultBucketName = b1
    AuthPhaseDisabled = TRUE
    DefaultEngine = NoHandle
    SelfDelete = TRUE
SPECIFICATION Spec
INVARIANTS
    RefcountCovers
    NoDanglingHandle
