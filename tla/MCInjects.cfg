\* A delete between the lookup of a client and its copy.
CONSTANTS
    c1 = c1
    c2 = c2
    s1 = s1
    s2 = s2
    ssh = ssh
    hostA = hostA
    t1 = t1
    Nil = Nil
    MaxConnections = 2
    MaxSessions = 1
    Ids <- TwoIds
    SessionIds <- MCSessionIds
    Protocols <- OneProtocol
    Supported <- OneProtocol
    Probeless = {}
    Targets <- OneHost
    InitialFiles <- FullStore
    Threads <- OneThread
    Faults = {}
SPECIFICATION GSpec
INVARIANTS InjectsSelected
