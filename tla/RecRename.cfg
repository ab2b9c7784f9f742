SPECIFICATION LiveSpec
CONSTANTS
    c1 = c1
    c2 = c2
    Configs = {c1}
    MaxBackends = 2
    IPs = {1, 2}
    Names = {"n", "m"}
    Zones = {"z"}
    TTLs = {1, 2}
    Weights = {0, 1, 2}
    Callers = {}
    Fallback = "z"
    FaultPoints = {}
    MaxFaults = 0
    MaxRestarts = 0
    ClientActs = {"rename"}
    ConfigInputs <- TwoNames
    BackendInputs <- TwoBackends
    ProviderInputs = {}
    Probed = {"healthy", "unhealthy"}
PROPERTY
    Converges
