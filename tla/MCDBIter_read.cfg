SPECIFICATION Spec
CONSTANTS
    MaxByte = 9
    kMaxSequenceNumber = 50
    block_size = 18
    block_restart_interval = 2
    kFilterBase = 40
    bits_per_key = 3
    UsesFilter = TRUE
    UserKeys <- Keys3
    Histories <- SomeHistories
    MaxWrites = 1
    MaxAppends = 30
    Failing = 1
CHECK_DEADLOCK FALSE
INVARIANTS GetExact FailureNoticed
PROPERTIES WalksSnapshot LoopsAdvance
