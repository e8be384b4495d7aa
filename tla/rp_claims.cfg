SPECIFICATION ReplayFairSpec
CONSTANTS
    Cap = 4
    NoMessage = NoMessage
    Ours = Ours
    Other = Other
    MaxCount = 1
    ScanSize = 3
    ScanLimit = 4
    MaxMessages = 7
\* Each of these is violated; keep one line to see how.
INVARIANT ReplayReturnsAll
INVARIANT NothingTwice
CHECK_DEADLOCK FALSE
