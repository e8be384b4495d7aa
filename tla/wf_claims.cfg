SPECIFICATION Spec
CONSTANTS
    Keys = {k1}
    Workers = {w1}
    TaskTypes = {"t"}
    Specs <- TwoTries
    None = None
    Handlers = {h1, h2}
    Sweeper = Sweeper
    TopicCap = 100
    MaxBatch = 1
    MaxCalls = 4
    MaxTime = 1
    MaxErrors = 0
\* Each of these is violated; keep one line to see how.
INVARIANT AcceptedIsRecorded
INVARIANT FenceReleased
INVARIANT AcceptedSurvivesReplay
INVARIANT BlocksOnlyWithoutWork
PROPERTY RedeliveryIsNoOp
CHECK_DEADLOCK FALSE
