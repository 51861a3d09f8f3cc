\* default_engine buckets: no reservations, no ON_DISCONNECT callback,
\* no TAP iterator; no connection deletes the bucket it is attached to.
CONSTANTS
    c1 = c1
    c2 = c2
    h1 = h1
    h2 = h2
    h0 = h0
    b1 = b1
    b2 = b2
    NoName = NoName
    Conns <- MCConns
    Handles <- MCHandles
    Names <- MCNamesAdmin
    NoHandle = NoHandle
    NoConn = NoConn
    MaxReserved = 1
    MaxClients = 3
    AutoCreate = TRUE
    EngineReservesCookies = FALSE
    EngineWantsDisconnects = FALSE
    TapIteratorDisabled = TRUE
    AdminUser = b2
    DefaultBucketName = NoName
    AuthPhaseDisabled = FALSE
    DefaultEngine = NoHandle
    SelfDelete = FALSE
SPECIFICATION Spec
INVARIANTS
    TypeOK
    RefcountCovers
    NoDanglingHandle
    ClientsMatchCallers
    NoCallIntoDestroyedEngine
    ShutdownQuiesced
    BucketIsolation
PROPERTIES
    DeleteEventuallyCompletes
    HandleEventuallyFreed
    GlobalShutdownCompletes
    ImplementsBucketRegistry
