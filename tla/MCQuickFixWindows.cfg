SPECIFICATION Spec
CONSTANT MaxWins = 3
INVARIANTS
    TypeOK
    ToggleTwice
    LocToggleFlips
    AskingIsHarmless
    PreferredExists
    LayoutKeepsPlace
