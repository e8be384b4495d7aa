SPECIFICATION FairRestartSpec
CONSTANTS
    Keys = {k1}
    Workers = {w1, w2}
    TaskTypes = {"t"}
    Specs <- TwoTries
    None = None
    Handlers = {h1}
    Sweeper = Sweeper
    TopicCap = 100
    MaxBatch = 1
    MaxCalls = 3
    MaxTime = 0
    MaxErrors = 0
    MaxCrashes = 1
\* Each of these is violated; keep one line to see how.
INVARIANT AttemptNamesOneWorker
PROPERTY FailureIsDecided
CHECK_DEADLOCK FALSE
