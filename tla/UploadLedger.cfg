SPECIFICATION FairSpec
CONSTANTS
    Requests = {r1, r2}
    Files = {f1, f2}
    Kinds = {"website", "package"}
    Backends = {"s3"}
    MaxFiles = 1
    MayStall = TRUE
    Reconciler = FALSE
    None = None
    Torn = Torn
INVARIANTS
    ReceiptsWithinLimit
PROPERTIES
    ReceiptsOnlyOwn
    SessionEnds
    PublishedSettles
CHECK_DEADLOCK FALSE
