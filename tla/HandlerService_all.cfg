SPECIFICATION Spec
CONSTANTS
    Callers = {c1, c2}
    Kinds = {"refcounted", "trivial"}
    CounterMod = 4
INVARIANTS
    ReferencedHandlerRuns
    RefCountExact
    LiveContext
PROPERTIES
    StartStarts
    ShutdownCompletes
CHECK_DEADLOCK FALSE
