\* A handler that finds no memory for its answer.
CONSTANTS
    r1 = r1
    r2 = r2
    p1 = p1
    Nil = Nil
    Runs <- TwoRuns
    Posts <- OnePost
    Patience = 2
    NoMemory = TRUE
    PumpFails = FALSE
SPECIFICATION Spec
PROPERTIES CallsProcessed
CHECK_DEADLOCK FALSE
