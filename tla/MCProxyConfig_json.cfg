\* The JSON path (MOXI_USE_LIBVBUCKET): bucket lists of ketama and vbucket
\* buckets that parse or fail, or none; the ketama parse checked on the
\* server arrays of MCProxyConfig (a down node whose address does not
\* parse, an all-down array, a malformed healthy node), up to two entries.
\* After the last configuration the listener waits for the next one
\* from the cluster manager, so a final state is not a deadlock.
CONSTANTS
    p1 = p1
    p2 = p2
    pnull = pnull
    s1 = s1
    s2 = s2
    k0 = k0
    k1 = k1
    h1 = h1
    h2 = h2
    Pools <- MCPools
    NullPool <- pnull
    DefaultPool <- p1
    Servers <- MCServersJson
    NoServers = NoServers
    KsSettings = {k0, k1}
    KsOff <- k0
    Stopped = Stopped
    DefaultKs <- k0
    NThreads = 3
    Build = "json"
    Docs <- MCDocsJson
    MaxConfigVer = 3
SPECIFICATION Spec
CHECK_DEADLOCK FALSE
INVARIANTS
    PtdNeverTorn
    NoConfigAssertFailure
    KetamaKeepsHealthyNodes
PROPERTIES
    PtdCatchesUp
    ImplementsProxyPools
