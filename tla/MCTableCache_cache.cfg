SPECIFICATION Spec
CONSTANTS
    Threads = {t1, t2}
    Files = {1, 2, 3}
    TableHash <- TableHash3
    BlockHash <- BlockHash4
    TableCapacity = 1
    BlockCapacity = 1
    MinLength = 1
    MaxOpenFiles = 1
    MaxOpens = 3
    MaxCalls = 2
    Failures = {"table", "block"}
SYMMETRY Symmetric
CHECK_DEADLOCK FALSE
INVARIANTS RefsExact CachedIsFound DescriptorsExact GoneIsForgotten
