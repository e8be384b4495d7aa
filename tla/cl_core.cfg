SPECIFICATION FairSpec
CONSTANTS
    n1 = n1
    n2 = n2
    n3 = n3
    Nodes = {n1, n2, n3}
    NodeOrder <- Order
    None = None
    Configs <- CoreConfigs
INVARIANTS FsmIsLog
PROPERTIES ImplementsAssignment RoutesSettle
CHECK_DEADLOCK FALSE
