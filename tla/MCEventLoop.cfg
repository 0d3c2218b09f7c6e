SPECIFICATION FairSpec
CONSTANTS
    Programs <- MCPrograms
    MaxDelay = 2
    MaxOps = 3
    MaxTurn = 1
INVARIANTS
    TypeOK
    ClearedStaysDead
    RefsAreKept
    NoEarlyExit
PROPERTIES
    OvertakenOnce
    TimerFires
    ImmediateRuns
    UnrefLetsGo
