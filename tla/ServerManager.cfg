SPECIFICATION Spec
CONSTANTS
    None = None
    MaxRequests = 2
    MaxFaults = 2
    MaxLauncherFaults = 1
INVARIANTS
    TypeOK
    LeaseCoversConsumers
    OneServer
    StoppedMeansGone
    RunningIsWatched
CHECK_DEADLOCK FALSE
