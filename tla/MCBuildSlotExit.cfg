SPECIFICATION Spec
CONSTANTS
    Procs = {p1, p2, p3}
    Nobody = Nobody
    Seats = 1
    Exits = TRUE
    Mortal = {}
INVARIANTS
    OneBuildPerSeat
