SPECIFICATION UpgradeSpec

CONSTANTS
    MaxJobs = 2
    MaxRuns = 2
    Absent = Absent

INVARIANT BadBinaryIsRolledBack

CHECK_DEADLOCK FALSE
