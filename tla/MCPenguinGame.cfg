CONSTANTS
    Rows = 3
    Cols = 3
    NumPenguins = 2
    SearchDepth = 3
    Boards <- CornerDeals
SPECIFICATION Spec
INVARIANTS
    TypeOK
    ScoreConservation
    ActivePlayerHasMove
    PenguinsOnTheirTiles
    StuckMeansOut
    FinishedIsSettled
    PruningLosesNothing
    SureWinIsTaken
PROPERTIES
    OnlyIsolatedIceSinks
    OpponentIsNotSkipped
    HarvestOneTile
    NothingComesBack
    ImplementsTurnGame
CHECK_DEADLOCK FALSE
