SPECIFICATION Spec
CONSTANTS
    Files = {f, g}
    NoFile = NoFile
    MaxRuns = 3
    MaxEdits = 1
INVARIANTS
    TmpMeansCut
    BinArchiveFresh
PROPERTY
    TreesSafe
CHECK_DEADLOCK FALSE
