SPECIFICATION FairSpec
CONSTANTS
    log = log
    otlp = otlp
    Changes <- MCChanges
    Items = {log, otlp}
    Otlp = otlp
    Capacity = 1
    BatchMax = 1
    FailLimit = 1
    MaxConns = 2
    MaxSpecs = 2
    MaxBatches = 2
    MaxFaults = 1
    Faults = {"move", "busy", "unregistered", "lostanswer"}
INVARIANTS BatchesAreKept
PROPERTIES QueueIsKept CollectorsFollowSpec BatchesSettle
CHECK_DEADLOCK FALSE
