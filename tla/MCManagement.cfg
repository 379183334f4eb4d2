\* No I/O fault; crashes and restarts at every step.
CONSTANTS
    c1 = c1
    c2 = c2
    c3 = c3
    s1 = s1
    s2 = s2
    ssh = ssh
    kubernetes = kubernetes
    hostA = hostA
    Nil = Nil
    MaxConnections = 2
    MaxSessions = 1
    Ids <- MCIds
    SessionIds <- MCSessionIds
    Protocols <- MCProtocols
    Supported <- MCSupported
    Probeless <- MCProbeless
    Targets <- MCTargets
    InitialFiles <- MCInitialFiles
    Faults = {}
SPECIFICATION FairSpec
INVARIANTS TypeOK UniqueIds Durable
PROPERTIES KeepsRegistry RequestsFinish
