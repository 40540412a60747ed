SPECIFICATION Spec
CONSTANTS
    Entries <- NewerBelow
    Numbers = {2, 3, 4}
    MaxTables = 2
    MaxRuns = 2
CHECK_DEADLOCK FALSE
INVARIANTS
    IntactStay
    DescriptorExact
    
