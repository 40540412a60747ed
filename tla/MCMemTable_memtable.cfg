SPECIFICATION Spec
CONSTANTS
    Keys = {1, 2}
    kMaxHeight = 2
    MaxSequence = 3
    Readers = {r1}
    EntryBytes <- Sizes
    NodeBytes = 6
    kBlockSize = 32
    Align = 4
    PointerSize = 4
CHECK_DEADLOCK FALSE
INVARIANTS LinksExact SearchExact MemorySound
