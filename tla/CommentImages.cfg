SPECIFICATION Spec
CONSTANTS
    Images = {i1, i2}
    Messages = {m1, m2}
    Sweepers = {s1, s2}
    MaxPending = 1
    None = None
INVARIANTS ReadyIsStored BytesOnRecord PendingWithinLimit
PROPERTIES PicturesAsPromised Collected
CHECK_DEADLOCK FALSE
