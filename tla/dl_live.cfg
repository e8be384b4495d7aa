SPECIFICATION FairSpec
CONSTANTS
    p1 = p1
    p2 = p2
    c1 = c1
    c2 = c2
    Publishers = {p1, p2}
    Consumers = {c1, c2}
    Groups = {g1}
    Partitions = 2
    Cap = 2
    NoMessage = NoMessage
    None = None
    BatchSize = 2
    FetchMax = 2
    MaxSaveErrors = 1
    Configs <- LiveConfigs
PROPERTIES PublishedIsCommitted
CHECK_DEADLOCK FALSE
