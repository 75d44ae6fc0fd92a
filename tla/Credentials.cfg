SPECIFICATION Spec
CONSTANTS
    Requests = {r1, r2, r3}
    Consents = {g1, g2}
    Devices = {d1}
    Registered = TRUE
    None = None
SYMMETRY Symmetry
INVARIANTS
    TypeOK
    OneLivePair
    NoNewcomers
PROPERTIES
    SpentStaysSpent
CHECK_DEADLOCK FALSE
