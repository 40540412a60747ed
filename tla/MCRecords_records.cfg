SPECIFICATION Spec
CONSTANTS
    kBlockSize = 10
    Edits <- SomeEdits
    Updates <- SomeUpdates
    kNumLevels = 7
    MaxRecords = 3
    Faults = {"tear", "trailer", "damage"}
    DamagedBytes = {0, 4}
    checksum = TRUE
CHECK_DEADLOCK FALSE
INVARIANTS ReadsBack TornTail DamageContained CommitsWhole
