SPECIFICATION FairSpec
CONSTANTS
    Procs = {p1, p2, p3}
    Nobody = Nobody
    Seats = 2
    Exits = TRUE
    Mortal = {p1, p2}
INVARIANTS
    TypeOK
    SharedOnlyAfterExit
PROPERTIES
    LeaseIsKept
    EveryoneBuilds
