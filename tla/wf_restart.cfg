SPECIFICATION RestartSpec
CONSTANTS
    Keys = {k1}
    Workers = {w1}
    TaskTypes = {"t"}
    Specs <- TwoTries
    None = None
    Handlers = {h1, h2}
    Sweeper = Sweeper
    TopicCap = 100
    MaxBatch = 1
    MaxCalls = 4
    MaxTime = 1
    MaxErrors = 0
    MaxCrashes = 1
SYMMETRY Symmetric
INVARIANTS PendingIsQueued CaughtUpKnowsAll
CHECK_DEADLOCK FALSE
