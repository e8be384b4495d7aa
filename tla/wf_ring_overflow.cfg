SPECIFICATION RestartSpec
CONSTANTS
    Keys = {k1}
    Workers = {w1}
    TaskTypes = {"t"}
    Specs <- TwoTries
    None = None
    Handlers = {h1}
    Sweeper = Sweeper
    TopicCap = 2
    MaxBatch = 1
    MaxCalls = 3
    MaxTime = 0
    MaxErrors = 0
    MaxCrashes = 1
INVARIANTS CaughtUpKnowsAll
CHECK_DEADLOCK FALSE
