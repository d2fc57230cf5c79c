SPECIFICATION Spec
CONSTANTS
    Waits = {w1, w2}
    Events <- ArrivedOrLeft
    Present = {0, 1, 2}
    Stops = {"idle", "suspended"}
INVARIANTS
    ResumedOnceInFrame
    ReturnsWhatWasSeen
PROPERTIES
    SeenReturns
    StopEndsWait
CHECK_DEADLOCK FALSE
