SPECIFICATION FairSpec
CONSTANTS
    Threads = {t1, t2, t3}
    NULL = NULL
    ClientOps = {"write", "flush"}
    MaxBatch = 2
    SyncChoices = {TRUE, FALSE}
    MaxCalls = 1
    SmallGroup = 1
    LargeGroup = 3
    WriteBuffer = 0
    NumLevels = 2
    MaxMemCompactLevel = 0
    LevelLimit <- MCLevelLimit
    SlowdownTrigger = 2
    StopTrigger = 2
    Seeks = FALSE
    Failures = {"newlog", "sync", "build", "manifest", "merge"}
INVARIANTS FrontIsAwake AckedVisible LeaderIsFront SequencesUnique
PROPERTIES CallsReturn SnapshotsStable
