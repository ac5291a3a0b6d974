SPECIFICATION FairSpec
CONSTANTS
    Depth = 2
    Dirs <- TwoDirs
    Readers <- OneDir
    Writers = {vim1, vim2}
    Inodes <- FiveInodes
    MaxStops = 0
PROPERTIES
    SentIsBuilt
CHECK_DEADLOCK FALSE
