SPECIFICATION FairSpec
CONSTANTS
    Programs <- MCPrograms
    Signals = FALSE
    Timers = TRUE
INVARIANTS
    TypeOK
    NoBlindWait
PROPERTIES
    WakesForEvents
