SPECIFICATION Spec
CONSTANTS
    NULL = NULL
    MaxKey = 1
    MaxSequence = 4
    NumLevels = 3
    MaxMemCompactLevel = 2
    SnapshotIds = {s1}
    Setups <- CutBetween
CHECK_DEADLOCK FALSE
INVARIANT NewerFirst
