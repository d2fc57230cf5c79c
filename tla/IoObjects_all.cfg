SPECIFICATION Spec
CONSTANTS
    Owners = {service, other}
    Service = service
    Refs = {a1, a2, r1, r2}
    Adapters = {a1, a2}
    Blocks = {b1, b2}
    Resources = {m1, m2}
    HandlerTypes = {"refcounted", "custom"}
    None = none
    MaxAdrift = 1
    Sequences = {s1}
    Kinds = {"control", "bulk"}
    Addresses = {1, 129}
    Timeouts = {5}
    TimeoutMod = 4
SYMMETRY Symmetry
INVARIANTS
    CountExact
    StorageOwned
    GoesToItsEndpoint
