\* A socket path that is longer than sun_path.
CONSTANTS
    viewer = viewer
    browser = browser
    Last = 2
    UnixClients <- MCUnix
    Browsers <- MCBrowsers
    MaxBytes = 1
    MaxSignals <- MCSignals
    Faults = TRUE
    PathFits = FALSE
SPECIFICATION Spec
INVARIANTS StartsAfterCrash
CHECK_DEADLOCK FALSE
