SPECIFICATION Spec
CONSTANTS
    c1 = c1
    c2 = c2
    Configs = {c1}
    MaxBackends = 2
    IPs = {1, 2}
    Names = {"n"}
    Zones = {"z"}
    TTLs = {1, 2}
    Weights = {0, 1, 2}
    Callers = {"k"}
    Fallback = "z"
    FaultPoints = {}
    MaxFaults = 0
    MaxRestarts = 0
    ClientActs = {}
    ConfigInputs <- Weighted
    BackendInputs <- TwoBackends
    ProviderInputs = {}
    Probed = {"healthy", "unhealthy"}
PROPERTY
    WeightedOneRecord
