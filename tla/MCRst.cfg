SPECIFICATION Spec
CONSTANTS
    Chars = {a, b}
    MaxWidth = 3
    MaxLines = 6
INVARIANTS
    TypeOK
    NearestParent
    TitlesDisjoint
    IsolatedFound
    StylesMakeLevels
SYMMETRY CharSymmetry
CHECK_DEADLOCK FALSE
