SPECIFICATION LiveSpec
CONSTANTS
    c1 = c1
    c2 = c2
    b1 = b1
    b2 = b2
    w1 = w1
    t1 = t1
    NoRequest = NoRequest
    WorkerIds = {w1}
    Capacity = 1
    Submitters = {"loop"}
    Stoppers = {t1}
    Requests = {b1}
    Outcomes = {"error"}
    MaxStarts = 1
    Recording = FALSE
    Configs = {c1}
    Thresholds = {2}
    MaxCount = 2
    MaxFaults = 1
    MaxSchedStarts = 2
    Changing = {b1}
    EnvActs = {"add", "delete", "edit", "checks", "uncheck", "stop", "cancel"}
INVARIANTS
    NoOrphanState
    StoppedSchedulerIsQuiet
PROPERTY
    SchedulerStopReturns
CHECK_DEADLOCK FALSE
