SPECIFICATION FairSpec
CONSTANTS
    Writers = {w1, w2}
    Torn = Torn
    None = None
    Retryable = TRUE
    From <- FromStart
    MaxRecords = 3
    MaxErrors = 1
    MaxCrashes = 2
INVARIANTS TypeOK AckedIsDurable OffsetsAreStable
PROPERTIES AppendReturns SyncedIsDelivered
CHECK_DEADLOCK FALSE
