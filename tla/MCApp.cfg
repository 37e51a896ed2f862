CONSTANTS
    Rows = 3
    Cols = 3
    NumPenguins = 2
    Boards <- OneDeal
    MaxPlies = 3
    Buffer = 2
    MaxSent = 1
    MaxUndo = 1
SPECIFICATION AppFairSpec
INVARIANTS OffersServerMoves StatesInOrder VerdictFitsGame ScreenMatchesConnection
PROPERTIES StartsAreAskedFor ImplementsServerRules ScreenCatchesUp
CHECK_DEADLOCK FALSE
