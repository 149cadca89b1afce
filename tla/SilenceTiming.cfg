SPECIFICATION Spec
CONSTANTS
    Never = Never
    SilenceTimeout = 5
    PollPeriod = 1
    MaxInference = 3
    Horizon = 12
INVARIANT
    SpeechIsNotSilence
CHECK_DEADLOCK FALSE
