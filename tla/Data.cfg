SPECIFICATION MCSpec
CONSTANTS
    Batches <- MCBatches
    Kind <- MCKind
    Bad = {"bad"}
    Late = {"late"}
    Short = {}
    Mishaps = {"crash", "timeout", "engine", "sink"}
    MaxMishaps = 2
    Items = {"i"}
    MaxDays = 2
    GlobalDays = 2
    BatchSize = 2
    Horizon = 3
    MaxData = 2
    MaxChanges = 2
    MaxFailures = 1
    Spans = {"a", "b", "c", "d"}
    TraceOf <- MCTrace
    Start <- MCStart
    End <- MCEnd
    Roots = {"a", "b"}
    Errors = {"c"}
    Now = 3
    MaxLive = 1
    MaxFaults = 2
    Clients = {"c1", "c2"}
    Servers = {"s1", "s2", "s3"}
    Peer <- MCPeer
    Parent <- MCParent
    At <- MCAt
    Service <- MCService
    LastMinute = 3
    Capacity = 2
    MaxEdgeFaults = 1
    Edges = {"e1", "e2", "e3", "e4"}
    BucketOf <- MCBucket
    PortOf <- MCPort
    ReasonOf <- MCReason
    CallsOf <- MCCalls
    FailsOf <- MCFails
    BucketsPerMinute = 2
    Lag = 2
    LastBucket = 8
    MaxStops = 1
    Vacant = Vacant
    w1 = w1  w2 = w2  r1 = r1  r2 = r2  ep = ep
    Editors = {w1, w2}
    Lookups = {r1, r2}
    Instances = {ep}
    MaxRevisions = 2
    MaxVersions = 2
    MaxSightings = 2
    MaxNameFaults = 1
INVARIANTS BatchesAreStored  ReplayIsExact NamesAreKept ReadsAgree
 
CHECK_DEADLOCK FALSE
