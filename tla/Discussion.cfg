SPECIFICATION Spec
CONSTANTS
    Requests = {r1, r2}
    Keys = {k1, k2, mine}
    Mine = {mine}
    Threads = {t1}
    All = All
    MaxClock = 4
    None = None
SYMMETRY Symmetry
INVARIANTS PostedOnce HiddenWasRead
PROPERTIES UnfollowStands MentionedOnce UnreadAsPromised
CHECK_DEADLOCK FALSE
