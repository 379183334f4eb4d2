\* Requests, issues, pruning and cleanup interleaved.
CONSTANTS
    v1 = v1
    v2 = v2
    alice = alice
    desk1 = desk1
    desk2 = desk2
    w1 = w1
    w2 = w2
    w3 = w3
    Nil = Nil
    Values <- MCValues
    Users <- MCUsers
    Connections <- MCConnections
    Clients <- MCClients
    Ttl = 2
    MaxTime = 4
SPECIFICATION Spec
SYMMETRY Symmetry
INVARIANTS SingleUse GrantAsIssued RefusedForAReason ListedAsTold
CHECK_DEADLOCK FALSE
