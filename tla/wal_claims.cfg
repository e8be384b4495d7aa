SPECIFICATION Spec
CONSTANTS
    Writers = {w1, w2}
    Cut = Cut
    Edge = Edge
    None = None
    Configs <- Claims
    MaxRecords = 3
    MaxErrors = 1
\* Each of these is violated; keep one line to see how.
INVARIANT AckedIsDurable
INVARIANT StartsAfterCrash
INVARIANT AckedIsReplayed
CHECK_DEADLOCK FALSE
