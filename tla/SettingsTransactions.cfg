SPECIFICATION Spec
CONSTANTS
    Keys = {"whisper_model", "partial_emission_interval"}
    ReloadKeys = {"whisper_model"}
    Values = {"a", "b"}
    Default = "a"
    Patches = {p1, p2}
INVARIANT
    ChangesSurvive
CHECK_DEADLOCK FALSE
