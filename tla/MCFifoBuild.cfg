SPECIFICATION FairSpec
CONSTANTS
    Depth = 1
    Dirs <- OneDir
    Readers <- OneDir
    Writers = {vim1, vim2}
    Inodes <- FourInodes
    MaxStops = 2
INVARIANTS
    TypeOK
    WaitingIsReachable
    FifoMeansWaiting
    OnlyFreshSignals
PROPERTIES
    SelfHeals
CHECK_DEADLOCK FALSE
