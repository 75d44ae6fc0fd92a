SPECIFICATION FairSpec
CONSTANTS
    Requests = {r1}
    Keys = {k1}
    Workers = {w1, w2}
    MaxAttempts = 2
    MayStall = TRUE
    None = None
PROPERTIES
    JobEnds
CHECK_DEADLOCK FALSE
