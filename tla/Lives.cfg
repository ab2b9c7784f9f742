SPECIFICATION Spec
CONSTANTS
    w1 = w1
    w2 = w2
    s1 = s1
    s2 = s2
    t1 = t1
    r1 = r1
    r2 = r2
    r3 = r3
    NoRequest = NoRequest
    WorkerIds = {w1, w2}
    Capacity = 1
    Submitters = {s1, s2}
    Stoppers = {t1}
    Requests = {r1, r2, r3}
    Outcomes = {"healthy"}
    MaxStarts = 2
    Recording = TRUE
    EngineCount = 2
    ResultCapacity = 1
    Targets = {"x", "y"}
    NoTarget = "none"
    MaxLives = 2
INVARIANTS
    EngineTypeOK
    StopWaits
    OneFate
    DropsNeedBacklog
    QuietAfterStop
    RunningHasLoop
PROPERTIES
    ImplementsPool
    StopReturns
    SubmitReturns
    SchedulerStops
    AllChecked
    StopEndsLoops
CHECK_DEADLOCK FALSE
