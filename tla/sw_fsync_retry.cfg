SPECIFICATION Spec
CONSTANTS
    Writers = {w1, w2}
    Torn = Torn
    None = None
    Retryable = FALSE
    From <- NoSubscription
    MaxRecords = 2
    MaxErrors = 1
    MaxCrashes = 0
SYMMETRY Symmetric
INVARIANTS AckedIsDurable
CHECK_DEADLOCK FALSE
