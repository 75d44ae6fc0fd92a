SPECIFICATION Spec
CONSTANTS
    Requests = {r1, r2}
    First = First
    Purgers = {p1, p2}
    CopiesNothing = TRUE
    Reconciles = TRUE
    None = None
SYMMETRY Symmetry
CONSTRAINT TornOnce
INVARIANTS
    RestorableIsWhole
PROPERTIES
    NothingBuried
    DesignationSeen
    KeepsItsVersions
