\* A form that is open while the list changes.
CONSTANTS
    c1 = c1
    c2 = c2
    Nil = Nil
    Conns <- TwoConns
    MaxSessions = 2
    MaxCalls = 2
    MaxMoves = 4
SPECIFICATION Spec
PROPERTIES SaveUpdatesShown
CHECK_DEADLOCK FALSE
