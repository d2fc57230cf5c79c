SPECIFICATION Spec
CONSTANTS
    Devices = {d1, d2}
    Sizes = {2, 3}
    More = 1
    InSize = 2
    OutSize = 1
    None = none
INVARIANTS
    PendingIsServed
    DriverRestored
    NobodyStuck
PROPERTIES
    StopWindsDown
    ProgramEnds
CHECK_DEADLOCK FALSE
