SPECIFICATION FairSpec
CONSTANTS
    Keys = {k1, k2}
    MaxTokens = 3
    MaxPosts = 3
INVARIANTS
    TypeOK
    Pinned
    NoLeakedPin
    FifoExactlyOnce
    NoLostWakeup
    SessionIsolation
PROPERTIES
    EventuallyTaken
