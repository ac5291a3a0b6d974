SPECIFICATION HSpec
SYMMETRY Symmetric
CONSTANTS
    Wins = {w1, w2}
    Bufs = {b1, b2}
    Closed = Closed
    ForeignIds = {}
    FirstId <- MCFirstId
    HighlightItems <- MCItems
    LongLines = "longlines"
    GlobalEnabled = FALSE
    TextWidths <- MCWidths
    Commands <- MCCommands
    Setups <- MCSetups
PROPERTY CommandsAtomic
