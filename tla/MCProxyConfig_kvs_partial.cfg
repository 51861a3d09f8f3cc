\* The key/value path: an unparsable pool after valid ones fails the
\* document halfway.
\* After the last configuration the listener waits for the next one
\* from the cluster manager, so a final state is not a deadlock.
CONSTANTS
    p1 = p1
    p2 = p2
    pnull = pnull
    s1 = s1
    s2 = s2
    k0 = k0
    k1 = k1
    h1 = h1
    h2 = h2
    Pools <- MCPools
    NullPool <- pnull
    DefaultPool <- p1
    Servers = {s1, s2}
    NoServers = NoServers
    KsSettings = {k0, k1}
    KsOff <- k0
    Stopped = Stopped
    DefaultKs <- k0
    NThreads = 3
    Build = "kvs"
    Docs <- MCDocsAll
    MaxConfigVer = 3
SPECIFICATION Spec
CHECK_DEADLOCK FALSE
PROPERTIES
    ImplementsProxyPools
