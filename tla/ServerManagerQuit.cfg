SPECIFICATION Spec
CONSTANTS
    None = None
    MaxRequests = 2
    MaxFaults = 2
    MaxLauncherFaults = 1
INVARIANT
    QuitStopsServer
CHECK_DEADLOCK FALSE
