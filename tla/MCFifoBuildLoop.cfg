SPECIFICATION Spec
CONSTANTS
    Depth = 1
    Dirs <- OneDir
    Readers <- OneDir
    Writers = {vim1}
    Inodes <- FourInodes
    MaxStops = 0
INVARIANTS
    LoopGoesOn
