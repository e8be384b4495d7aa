SPECIFICATION FairSpec
CONSTANTS
    n1 = n1
    n2 = n2
    n3 = n3
    Nodes = {n1, n2, n3}
    NodeOrder <- Order
    None = None
    Configs <- ClaimConfigs
\* Each of these is violated; keep one line to see how.
PROPERTY ShardCountIsSet
PROPERTY OnlyDeadLeadersMove
PROPERTY EveryoneRegisters
PROPERTY RoutesSettle
CHECK_DEADLOCK FALSE
