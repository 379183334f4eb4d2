\* Reads and saves of the store and /dev/urandom may fail, besides the crashes.
CONSTANTS
    kubernetes = kubernetes
    c1 = c1
    c2 = c2
    c3 = c3
    s1 = s1
    s2 = s2
    ssh = ssh
    hostA = hostA
    Nil = Nil
    MaxConnections = 2
    MaxSessions = 1
    Ids <- TwoIds
    SessionIds <- OneSessionId
    Protocols <- OneProtocol
    Supported <- OneProtocol
    Probeless = {}
    Targets <- MCTargets
    InitialFiles <- OneStored
    Faults = {"read", "save", "random"}
SPECIFICATION Spec
PROPERTIES StoreChangesWhole
