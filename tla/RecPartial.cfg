SPECIFICATION Spec
CONSTANTS
    c1 = c1
    c2 = c2
    Configs = {c1}
    MaxBackends = 2
    IPs = {1, 2}
    Names = {"n"}
    Zones = {"z"}
    TTLs = {1, 2}
    Weights = {0, 1, 2}
    Callers = {}
    Fallback = "z"
    FaultPoints = {"upsert_write"}
    MaxFaults = 1
    MaxRestarts = 0
    ClientActs = {}
    ConfigInputs <- Weighted
    BackendInputs <- TwoBackends
    ProviderInputs = {}
    Probed = {"healthy", "unhealthy"}
INVARIANT
    SuppressedOnlyWhenActive
