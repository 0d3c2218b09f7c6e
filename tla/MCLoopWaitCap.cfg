SPECIFICATION FairSpec
CONSTANTS
    Programs = {{"ffi"}}
    Signals = TRUE
    Timers = TRUE
INVARIANTS
    SignalsCapWaits
