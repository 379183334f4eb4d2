\* The browser's client sends input only, as guacamole-common-js does.
CONSTANTS
    Instructions = {"input"}
    Odd = {"ping"}
    BufCap = 2
    PairCap = 2
    DownCap = 2
    MaxFrames = 1
    MaxOut = 2
    SetupFails = FALSE
SPECIFICATION Spec
PROPERTIES HandshakeServed
CHECK_DEADLOCK FALSE
