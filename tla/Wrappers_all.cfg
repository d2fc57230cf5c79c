SPECIFICATION Spec
CONSTANTS
    Handles = {h1, h2}
    Ifaces = {i1}
    Protocols = {"exception", "optional", "expected", "results"}
    Null = null
    MaxLocals = 3
SYMMETRY Symmetry
INVARIANTS
    OneOwner
    ObjectOrError
PROPERTY
    TerminatesOnFailureOnly
