SPECIFICATION Spec
CONSTANTS
    c1 = c1
    c2 = c2
    b1 = b1
    b2 = b2
    w1 = w1
    t1 = t1
    NoRequest = NoRequest
    WorkerIds = {w1}
    Capacity = 1
    Submitters = {"loop"}
    Stoppers = {}
    Requests = {b1}
    Outcomes = {"healthy", "error"}
    MaxStarts = 1
    Recording = FALSE
    Configs = {c1}
    Thresholds = {2}
    MaxCount = 2
    MaxFaults = 0
    MaxSchedStarts = 1
    Changing = {b1}
    EnvActs = {"add", "delete", "edit", "checks", "uncheck", "reach", "stop", "cancel"}
PROPERTY
    HealthyUntilThreshold
