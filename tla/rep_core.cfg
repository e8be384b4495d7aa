SPECIFICATION FairSpec
CONSTANTS
    Nodes = {n1, n2}
    None = None
    Window = 2
    MaxRecords = 2
    MaxMoves = 1
    MaxFaults = 1
INVARIANTS TypeOK MarkIsHeld FollowersArePrefixes
PROPERTIES FollowersCatchUp
CHECK_DEADLOCK FALSE
