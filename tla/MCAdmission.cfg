CONSTANTS
    c1 = c1
    c2 = c2
    c3 = c3
    c4 = c4
    Conns <- MCConns
    Protocols = {"postgres", "mysql"}
    MaxConnections = 3
    PoolSize = 1
    MaxRate = 2
SPECIFICATION FairSpec
INVARIANTS
    TypeOK
    GuardsConserved
    ActiveIsCounted
    NoIdleSlot
    LeaseCoversUpstream
PROPERTIES
    CleanDrain
    SignalledExits
    WaitEnds
    PoolIsQuota
    InboundIsQuota
