SPECIFICATION Spec
CONSTANTS
    MaxNodes = 3
    MaxCopies = 2
    MaxHandles = 4
    Threshold = 2
INVARIANTS
    TypeOK
    ReachableIntact
    NoDangling
    PassFindsAll
