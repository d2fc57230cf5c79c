SPECIFICATION SafeSpec
CONSTANTS
    Tasks = {t1}
    Devices = {d1}
    Triplet <- Different
    AnyTriplet = any
    Filters = {}
    Stops <- WhileItWaits
    MaxHeld = 2
    MaxLeaked = 0
INVARIANT PostedOnce
CHECK_DEADLOCK FALSE
