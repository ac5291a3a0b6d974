SPECIFICATION Spec
SYMMETRY Symmetric
CONSTANTS
    Wins = {w1, w2}
    Bufs = {b1, b2}
    Closed = Closed
    ForeignIds <- MCForeign
    FirstId <- MCFirstId
    HighlightItems <- MCItems
    LongLines = "longlines"
    GlobalEnabled = TRUE
    TextWidths <- MCWidths
    Commands <- MCCommands
    Setups <- MCSetups
INVARIANTS
    TypeOK
    GroupsOwnMatches
    IdsReused
    NoLeakedMatches
    CurrentWindowFresh
PROPERTIES
    ForeignKept
