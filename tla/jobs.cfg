SPECIFICATION Spec
CONSTANTS
    InitialBackoff = 1
    MaximumBackoff = 1
    AttemptLimit = 1
    ConnectBudget = 1
    DiscoveryBudget = 1
    RequestBudget = 1
    MaximumLease = 2
    NoHost = NoHost
    NoSid = NoSid
    ReadBudget = 1
    MutationBudget = 1
    PollInterval = 0
    RateLimit = 0
    Rooms = {r1}
    NoRoom = NoRoom
    JobIds = {1, 2, 3, 4}
    GenerationIds = {1, 2, 3, 4}
    RequestIds = {1, 2, 3, 4}
    UserKinds = {"refresh", "mutation"}
    Topologies = {{r1}}
    Hosts = {NoHost}
    Sids = {}
    Leases = {2}
    RadioReports = {TRUE, FALSE}
    Sleeps = FALSE
VIEW View
INVARIANTS
    TypeOK
    JobRecordsHeld
    NoOrphanGeneration
    MutationUnderOwnTopology
PROPERTIES
    PreemptionIsNotFailure
