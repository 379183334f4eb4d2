\* Two connections, and two requests under way.
CONSTANTS
    c1 = c1
    c2 = c2
    Nil = Nil
    Conns <- TwoConns
    MaxSessions = 2
    MaxCalls = 2
    MaxMoves = 4
SPECIFICATION FairSpec
INVARIANTS TypeOK ViewerShowsWanted
PROPERTIES ConnectOpensItsOwn CallsEnd
CHECK_DEADLOCK FALSE
