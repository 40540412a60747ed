SPECIFICATION Spec
CONSTANTS
    FILE_RECORDS = 8
    TREE_HEIGHT = 3
    KSIZE = 1
    VSIZE = 2
    Bytes = {0, 1}
    Memtables <- SmallMemtables
    Uninitialized <- Garbage
    Cmac <- HashOf
    CmacOfPair <- HashOfPair
CHECK_DEADLOCK FALSE
INVARIANTS StaysInside TreeExact ProofLeads FileVerifies
