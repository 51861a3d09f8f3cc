\* get_stats and reset_stats against a changing proxy list, with one
\* work_send to a worker that may fail and the allocation failures.  Once its requests are spent the conflate thread
\* waits for the next one, so a final state is not a deadlock.
CONSTANTS
    p1 = p1
    p2 = p2
    pnull = pnull
    h1 = h1
    k0 = k0
    Pools <- MCPools
    NullPool <- pnull
    DefaultPool <- p1
    Servers <- MCServersStats
    NoServers = NoServers
    KsSettings = {k0}
    KsOff <- k0
    Stopped = Stopped
    DefaultKs <- k0
    NThreads = 3
    Build = "json"
    Docs <- MCDocsStats
    MaxConfigVer = 2
    MaxRequests = 2
    MaxResets = 1
    MaxSendFails = 1
SPECIFICATION StatsSpec
CHECK_DEADLOCK FALSE
INVARIANTS
    StatsTypeOK
    GatherComplete
