SPECIFICATION Spec
CONSTANTS
    Versions = {v1, v2}
    MaxChanges = 3
    None = None
SYMMETRY Symmetry
INVARIANTS KeyNoWider CommentersRead ReceiptsAsVerified
PROPERTIES FreshKeyOpens StopEndsAll
CHECK_DEADLOCK FALSE
