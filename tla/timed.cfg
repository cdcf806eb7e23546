SPECIFICATION FairSpec
CONSTANTS
    InitialBackoff = 1
    MaximumBackoff = 5
    AttemptLimit = 5
    DiscoveryBudget = 2
    DiscoveryIds = {1, 2}
    RequestBudget = 2
    NoHost = "no host"
    NoSid = "no sid"
    Hosts = {"h1", "h2"}
    Sids = {"s1"}
    RequestIds = {1, 2, 3, 4}
    MaximumLease = 6
    Grants = {0, 1, 2, 6, 7}
    Deadline = 4
    Timeout = 2
    ConnectTimeout = 2
    MaxRead = 4
    RequestSize = 2
    BodySize = 2
    Tracks = {"t1", "t2"}
    Urls = {"a"}
    Retry = 1
    Wrap = 4
    MaxChanges = 2
INVARIANTS
    BelievedLeaseBacked
    RequestIsBounded
    CoverIsOfTheTrack
PROPERTIES
    ReconcileExactlyWhenOwed
    SessionBackoffGrows
    NothingHangs
    RenewedInTime
