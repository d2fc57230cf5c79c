SPECIFICATION Spec
CONSTANTS
    Tasks = {t1, t2}
    Devices = {d1, d2}
    Triplet <- Different
    AnyTriplet = any
    Filters <- OneOfThem
    Stops <- OneIsStopped
    MaxHeld = 2
    MaxLeaked = 0
INVARIANTS
    WaitersAreServed
    StoredAreConnected
    RefsCover
PROPERTIES
    StopEndsWaiting
    ShutdownEndsAccepts
    ImplementsMailbox
CHECK_DEADLOCK FALSE
