SPECIFICATION Spec
CONSTANTS
    Requests = {r1, r2, r3}
    Files = {f1, f2}
    Kinds = {"package"}
    Backends = {"local"}
    MaxFiles = 2
    MayStall = FALSE
    Reconciler = TRUE
    None = None
    Torn = Torn
SYMMETRY Symmetry
INVARIANTS
    LeaseExclusive
    PublishedNeverAltered
    ReceiptsBackedByBytes
    PublishedInFull
PROPERTIES
    UploadsAsPromised
CHECK_DEADLOCK FALSE
