SPECIFICATION Spec
CONSTANTS
    MaxSessions = 2
    MaxAudio = 1
INVARIANTS
    TypeOK
    MicrophoneFollowsSession
    HeldWhileRecording
PROPERTIES
    CommitsAreComplete
    StopEnds
CHECK_DEADLOCK FALSE
