\* Signals on any thread, crashes, failing calls, overlapping processes.
CONSTANTS
    viewer = viewer
    browser = browser
    Last = 2
    UnixClients <- MCUnix
    Browsers <- MCBrowsers
    MaxBytes = 1
    MaxSignals <- MCSignals
    Faults = TRUE
    PathFits = TRUE
SPECIFICATION Spec
INVARIANTS NeverDrains Reachable StartsAfterCrash
PROPERTIES SignalEnds ClientsSettled
CHECK_DEADLOCK FALSE
