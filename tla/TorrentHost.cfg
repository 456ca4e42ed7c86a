SPECIFICATION FairSpec
CONSTANTS
    h1 = h1
    h2 = h2
    h3 = h3
    c1 = c1
    c2 = c2
    None = None
    Host <- MCHosts
    Caller <- MCCallers
INVARIANTS TypeOK NoOrphan OneDaemon WaitsAreLive
PROPERTIES MirrorFresh CallsSettle RestartEnds
CHECK_DEADLOCK FALSE
