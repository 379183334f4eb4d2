\* A disconnect that is answered when another session is shown.
CONSTANTS
    c1 = c1
    c2 = c2
    Nil = Nil
    Conns <- TwoConns
    MaxSessions = 2
    MaxCalls = 2
    MaxMoves = 4
SPECIFICATION Spec
PROPERTIES DisconnectClosesItsOwn
CHECK_DEADLOCK FALSE
