SPECIFICATION FairSpec
CONSTANTS
    Writers = {w1, w2, w3}
    Cut = Cut
    Edge = Edge
    None = None
    Configs <- Deployments
    MaxRecords = 4
    MaxErrors = 1
INVARIANTS AckedIsDurable ReplayComplete
PROPERTIES AppendReturns
CHECK_DEADLOCK FALSE
