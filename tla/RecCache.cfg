SPECIFICATION LiveSpec
CONSTANTS
    c1 = c1
    c2 = c2
    Configs = {c1}
    MaxBackends = 2
    IPs = {1, 2}
    Names = {"n"}
    Zones = {"z"}
    TTLs = {1, 2}
    Weights = {0, 1, 2}
    Callers = {}
    Fallback = "none"
    FaultPoints = {"store", "upsert_list"}
    MaxFaults = 1
    MaxRestarts = 0
    ClientActs = {}
    ConfigInputs <- BothMethods
    BackendInputs <- WithDisabled
    ProviderInputs <- OwnZone
    Probed = {"healthy", "unhealthy"}
INVARIANTS
    CacheTruth
    SuppressedOnlyWhenActive
PROPERTIES
    Converges
    WeightedOneRecord
