SPECIFICATION Spec
CONSTANTS
    None = None
    Tasks = {t1, t2}
    Sessions = {s1}
    Configs = {small, medium}
    InitialConfig = small
    MaxGen = 2
    MaxCancels = 1
INVARIANTS
    TypeOK
    LeasedModelStaysLoaded
    ActivatedShutDownOnce
    StatusTellsAdmission
    ShutdownJoinsUnloads
PROPERTIES
    ShutdownTerminates
    PreparationEnds
    RetiredModelsUnload
CHECK_DEADLOCK FALSE
