\* One client thread beside the IPC thread; adds, deletes and swaps.
CONSTANTS
    c1 = c1
    c2 = c2
    s1 = s1
    s2 = s2
    ssh = ssh
    hostA = hostA
    t1 = t1
    Nil = Nil
    MaxConnections = 2
    MaxSessions = 1
    Ids <- TwoIds
    SessionIds <- OneSessionId
    Protocols <- OneProtocol
    Supported <- OneProtocol
    Probeless = {}
    Targets <- OneHost
    InitialFiles <- OneStored
    Threads <- OneThread
    Faults = {}
SPECIFICATION GFairSpec
INVARIANTS StaleCopyNeedsCompaction ParametersDurable
PROPERTIES RefusedViewerWasUnstored ViewersKeepRegistry ViewersProgress
