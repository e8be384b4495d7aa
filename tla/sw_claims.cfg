SPECIFICATION FairSpec
CONSTANTS
    Writers = {w1, w2}
    Torn = Torn
    None = None
    Retryable = TRUE
    From <- FromStart
    MaxRecords = 2
    MaxErrors = 0
    MaxCrashes = 1
\* Each of these is violated; keep one line to see how.
INVARIANT SeenIsDurable
INVARIANT RecoveredIsDurable
PROPERTY CancelEnds
CHECK_DEADLOCK FALSE
