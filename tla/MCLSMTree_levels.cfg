SPECIFICATION Spec
CONSTANTS
    NULL = NULL
    MaxKey = 3
    MaxSequence = 5
    NumLevels = 3
    MaxMemCompactLevel = 2
    SnapshotIds = {s1}
    Setups <- Apart
CHECK_DEADLOCK FALSE
INVARIANT AbortsOnlyInGap NewerFirst
PROPERTY ImplementsStore
