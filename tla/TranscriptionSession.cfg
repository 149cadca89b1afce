SPECIFICATION Spec
CONSTANTS
    Messages = {"audio", "badAudio", "badJson", "stop", "ignored", "nonObject"}
    MaxAudio = 2
    MaxInterim = 3
INVARIANTS
    TypeOK
    FinalCoversAllAudio
    HoldsWhatItUses
PROPERTIES
    FollowsProtocol
    SessionEnds
CHECK_DEADLOCK FALSE
