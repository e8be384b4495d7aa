SPECIFICATION FairSpec
CONSTANTS
    a1 = a1
    a2 = a2
    Agents = {a1, a2}
    Sessions = {s1}
    Streams = {t1, t2}
    InboxSize = 1
    PollBatch = 2
    Cap = 3
    MaxOffset = 2
    NoMessage = NoMessage
    Configs <- CoreConfigs
INVARIANTS TypeOK RebuiltFromLog HandoffsAccounted RetriesBounded
PROPERTIES HandoffIsReceived
CHECK_DEADLOCK FALSE
