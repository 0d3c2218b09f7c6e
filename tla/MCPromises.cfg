SPECIFICATION Spec
CONSTANTS
    MaxPromises = 3
    MaxOps = 6
INVARIANTS
    TypeOK
    NoReactionTwice
    ReactionsInOrder
    AllCountsEntries
    RejectionsReported
PROPERTIES
    NoFalseReport
