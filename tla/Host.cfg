SPECIFICATION MCSpec
CONSTANTS
    Nothing = Nothing
    Polls = 2
    k1 = k1
    k2 = k2
    t1 = t1
    p1 = p1
    p2 = p2
    Conns = {k1, k2}
    Threads = {t1}
    MapMaxEntries = 2
    MaxOps = 3
    MaxCycles = 2
    Bucket = 2
    NoConn = NoConn
    Tick = 2
    PerTick = 1
    Burst = 2
    DegradeWindow = 2
    Ttl = 2
    Pids = {p1, p2}
    MaxPids = 1
    Minute = 4
    Points = 2
    Base = 2
    MaxWait = 5
    Horizon = 12
    Samples = 7
    Unset = Unset
    Inodes = {1, 2}
    MaxLength = 5
    MaxStarts = 1
    Followers = {1, 2, 3}
    MaxLines = 2
    Unknown = Unknown
    MaxJobs = 2
    MaxRuns = 2
    Absent = Absent
    Requests <- HostRequests
    Config <- HostConfig
    MaxItems = 3
    Vacant = Vacant
INVARIANTS   LimitsHold LinesAreFollowed UpgradeTells AnsweredIsKept
CHECK_DEADLOCK FALSE
