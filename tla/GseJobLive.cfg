SPECIFICATION FairSpec
CONSTANTS
    a1 = a1
    c1 = c1
    c2 = c2
    j1 = j1
    j2 = j2
    NoConn = NoConn
    Agents = {a1}
    Conns = {c1}
    Jobs = {j1}
    UpgradeJobs = {}
    Dialer <- MCDialer
    Target <- MCTarget
    ProbeThreshold = 1
    MaxConcurrent = 1
    Faults = {"crash", "drop", "silence", "misprobe"}
PROPERTIES
    ConnectedAgentRegainsSession
    DeadAgentLeavesOnline
    OfflineAgentsJobsEnd
    SubmissionIsAnswered
