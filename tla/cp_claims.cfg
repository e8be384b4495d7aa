SPECIFICATION Spec
CONSTANTS
    a1 = a1
    a2 = a2
    Agents = {a1, a2}
    Sessions = {s1}
    Streams = {t1, t2}
    InboxSize = 1
    PollBatch = 2
    Cap = 3
    MaxOffset = 2
    NoMessage = NoMessage
    Configs <- CoreConfigs
\* Each of these is violated; keep one line to see how.
INVARIANT HandoffReachesRouter
INVARIANT WaitsForPickup
INVARIANT RebuildIsComplete
INVARIANT RebuildIsTheSame
CHECK_DEADLOCK FALSE
