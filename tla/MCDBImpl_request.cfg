SPECIFICATION Spec
CONSTANTS
    Threads = {t1, t2}
    NULL = NULL
    ClientOps = {"write", "compact"}
    MaxBatch = 1
    SyncChoices = {FALSE}
    MaxCalls = 2
    SmallGroup = 1
    LargeGroup = 3
    WriteBuffer = 0
    NumLevels = 2
    MaxMemCompactLevel = 0
    LevelLimit <- MCLevelLimit
    SlowdownTrigger = 2
    StopTrigger = 2
    Seeks = FALSE
    Failures = {"build"}
INVARIANT RequestStillThere
