SPECIFICATION Spec
CONSTANTS
    Requests = {r1, r2, r3, r4}
    Inputs = {i1, i2}
    None = None
SYMMETRY Symmetry
INVARIANTS
    Recoverable
    AnsweredIsReleased
PROPERTIES
    OncePublished
    TombstoneStands
CHECK_DEADLOCK FALSE
