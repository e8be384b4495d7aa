SPECIFICATION Spec
CONSTANTS
    Keys = {k1, k2}
    Workers = {w1, w2}
    TaskTypes = {"t"}
    Specs <- TwoTries
    None = None
    Handlers = {h1, h2}
    Sweeper = Sweeper
    TopicCap = 100
    MaxBatch = 2
    MaxCalls = 4
    MaxTime = 1
    MaxErrors = 1
SYMMETRY Symmetric
INVARIANTS TypeOK AtMostOneAccepted AttemptNamesOneWorker StateBackedByLog PendingIsQueued ReservedHasOwner IndexesAgree
PROPERTIES TerminalIsFinal
CHECK_DEADLOCK FALSE
