SPECIFICATION Spec
CONSTANTS
    Nodes = {n1, n2}
    None = None
    Window = 1
    MaxRecords = 2
    MaxMoves = 1
    MaxFaults = 1
SYMMETRY Symmetric
\* Each of these is violated; keep one line to see how.
INVARIANT CommittedIsReplicated
INVARIANT AckedIsInFiles
CHECK_DEADLOCK FALSE
