SPECIFICATION Spec
CONSTANTS
    p1 = p1
    p2 = p2
    Subjects = {"u"}
    RoleNames = {"admin", "viewer"}
    OtherNames = {"other"}
    DefaultRole = "viewer"
    ConfigIds = {"c"}
    HTTPRequests = {p1, p2}
    NameSets <- RoleSets
    MaxCalls = 2
    MaxStoreErrors = 1
    Editors = {p1, p2}
    OwnerIds = {"c", "d", "e"}
    HostIds = {"b", "b2"}
    Values = {1, 2}
    Databases <- StartDatabases
    MaxEdits = 2
    MaxEditErrors = 1
    Watched = {"x"}
    Recorders = {1, 2}
    LastBucket = 2
    MaxRecords = 2
    MaxWriteErrors = 1
    Clients = {1, 2}
    Limit = 2
    Window = 2
    LastInstant = 4
    CounterBits = 3
    ServerIds = {1, 2}
    Pools <- SmallPools
    SMThresholds <- ThresholdValues
    MaxResults = 6
INVARIANTS
    AccessTypeOK
    LoginSyncsRoles
    UpdateReplacesRoles
    EditTypeOK
    TrailTrue
    TrailComplete
    HistTypeOK
    Conservation
    RateExact
    FairShare
PROPERTIES
    OnlyProvidedFields
    ImplementsHysteresis
    FlushedInTime
    Forgotten
CHECK_DEADLOCK FALSE
