SPECIFICATION LiveSpec
CONSTANTS
    c1 = c1
    c2 = c2
    Configs = {c1, c2}
    MaxBackends = 2
    IPs = {1}
    Names = {"n", "m"}
    Zones = {"z"}
    TTLs = {1, 2}
    Weights = {1, 2}
    Callers = {}
    Fallback = "z"
    FaultPoints = {}
    MaxFaults = 0
    MaxRestarts = 1
    ClientActs = {}
    ConfigInputs <- TwoNames
    BackendInputs <- EitherConfig
    ProviderInputs = {}
    Probed = {"healthy", "unhealthy"}
INVARIANT
    TypeOK
PROPERTY
    Converges
