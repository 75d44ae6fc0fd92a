SPECIFICATION Spec
CONSTANTS
    Requests = {r1, r2}
    Files = {f1, f2}
    Kinds = {"package"}
    Backends = {"s3"}
    MaxFiles = 2
    MayStall = FALSE
    Reconciler = TRUE
    None = None
    Torn = Torn
SYMMETRY Symmetry
PROPERTIES
    OpenUploadSpared
CHECK_DEADLOCK FALSE
