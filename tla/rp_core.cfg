SPECIFICATION ReplayFairSpec
CONSTANTS
    Cap = 4
    NoMessage = NoMessage
    Ours = Ours
    Other = Other
    MaxCount = 1
    ScanSize = 3
    ScanLimit = 4
    MaxMessages = 7
INVARIANTS ReplayIsTheSession
PROPERTIES ReplayEnds
CHECK_DEADLOCK FALSE
