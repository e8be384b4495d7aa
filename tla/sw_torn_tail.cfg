SPECIFICATION Spec
CONSTANTS
    Writers = {w1, w2}
    Torn = Torn
    None = None
    Retryable = TRUE
    From <- NoSubscription
    MaxRecords = 2
    MaxErrors = 0
    MaxCrashes = 1
SYMMETRY Symmetric
INVARIANTS AckedIsReadable
CHECK_DEADLOCK FALSE
