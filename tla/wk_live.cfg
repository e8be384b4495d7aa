SPECIFICATION FairWorkerSpec
CONSTANTS
    Keys = {k1}
    w1 = w1
    w2 = w2
    Workers = {w1, w2}
    TaskTypes = {"t"}
    Specs <- OneOrTwoTries
    None = None
    Handlers = {h1, h2}
    Sweeper = Sweeper
    TopicCap = 100
    MaxBatch = 1
    MaxCalls = 1
    MaxTime = 1
    MaxErrors = 0
    Budgets <- Stories
PROPERTIES ExecutionEnds
CHECK_DEADLOCK FALSE
