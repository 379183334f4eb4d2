\* Two runs of the command and an HTTP request.
CONSTANTS
    r1 = r1
    r2 = r2
    p1 = p1
    Nil = Nil
    Runs <- TwoRuns
    Posts <- OnePost
    Patience = 2
    NoMemory = TRUE
    PumpFails = TRUE
SPECIFICATION Spec
INVARIANTS FrameIsLive
PROPERTIES PostsAnswered RunsEnd
CHECK_DEADLOCK FALSE
