\* Every kind of frame; set-up steps fail; the buffer cuts the output.
CONSTANTS
    Instructions = {"input", "connect"}
    Odd = {"ping", "close", "bad", "other"}
    BufCap = 2
    PairCap = 2
    DownCap = 2
    MaxFrames = 2
    MaxOut = 4
    SetupFails = TRUE
SPECIFICATION Spec
INVARIANTS InputInOrder OutputIntact LastWords RefusedKeepsTicket NothingLeaks
PROPERTIES TunnelEnds BothSidesEnd InputDelivered
CHECK_DEADLOCK FALSE
