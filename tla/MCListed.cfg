\* One session at a time is listed.
CONSTANTS
    c1 = c1
    c2 = c2
    c3 = c3
    s1 = s1
    s2 = s2
    ssh = ssh
    kubernetes = kubernetes
    hostA = hostA
    Nil = Nil
    MaxConnections = 2
    MaxSessions = 1
    Ids <- TwoIds
    SessionIds <- MCSessionIds
    Protocols <- MCProtocols
    Supported <- MCSupported
    Probeless <- MCProbeless
    Targets <- MCTargets
    InitialFiles <- OneStored
    Faults = {}
SPECIFICATION Spec
INVARIANTS ConnectIsListed
