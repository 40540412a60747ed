SPECIFICATION FairSpec
CONSTANTS
    Threads = {t1, t2}
    NULL = NULL
    ClientOps = {"write", "compact"}
    MaxBatch = 1
    SyncChoices = {FALSE}
    MaxCalls = 2
    SmallGroup = 1
    LargeGroup = 3
    WriteBuffer = 0
    NumLevels = 3
    MaxMemCompactLevel = 1
    LevelLimit <- MCLevelLimit
    SlowdownTrigger = 2
    StopTrigger = 2
    Seeks = TRUE
    Failures = {}
INVARIANTS SleepersHaveWaker OneBackgroundCall
PROPERTIES CallsReturn
