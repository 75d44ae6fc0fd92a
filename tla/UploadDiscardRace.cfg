SPECIFICATION Spec
CONSTANTS
    Requests = {r1, r2}
    Files = {f1, f2}
    Kinds = {"website"}
    Backends = {"s3"}
    MaxFiles = 2
    MayStall = FALSE
    Reconciler = FALSE
    None = None
    Torn = Torn
SYMMETRY Symmetry
PROPERTIES
    PublishedTreeKept
CHECK_DEADLOCK FALSE
