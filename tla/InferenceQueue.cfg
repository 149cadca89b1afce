SPECIFICATION Spec
CONSTANTS
    x1 = x1
    x2 = x2
    o1 = o1
    o2 = o2
    Calls = {x1, x2, o1, o2}
    Exclusive = {x1, x2}
    Workers <- TwoWorkers
    MaxCalls = 5
    MaxCancels = 2
INVARIANTS
    WorkersRespected
PROPERTIES
    SubmitsToLiveExecutor
    CallsEnd
CHECK_DEADLOCK FALSE
