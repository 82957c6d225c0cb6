SPECIFICATION FairSpec
CONSTANTS
    a = a
    b = b
    NoFile = NoFile
    Jobs = {j1, j2}
    Uploads = {u}
    Sources <- MCSources
    Uploaded <- MCUploaded
    MaxChunks = 2
    Faults = {"edit", "slow", "linkdrop", "srvcrash", "delete", "disk"}
    MaxFaults = 1
INVARIANTS FilesAreWhole
PROPERTIES PlacedStays TransferLifecycle 
CHECK_DEADLOCK FALSE
