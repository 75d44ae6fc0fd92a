SPECIFICATION Spec
CONSTANTS
    Requests = {r1, r2}
    Keys = {k1, k2}
    Workers = {w1, w2}
    MaxAttempts = 2
    MayStall = TRUE
    None = None
SYMMETRY Symmetry
INVARIANTS
    CompletedTogether
    JobKeepsOperation
PROPERTIES
    JobAsPromised
CHECK_DEADLOCK FALSE
