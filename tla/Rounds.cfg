SPECIFICATION RoundsSpec
CONSTANTS
    Teams = {a, b, c}
    NumRounds = 2
    NumThreads = 2
    Desired = 2
    TeamsLimit <- Cut
    EloUnit = 2
    Gains = {1}
    MaxFailures = 2
    MaxUploads = 1
    InitBinaries <- NobodyIn
INVARIANTS
    EngineConsistent
    ResultsAccountForGames
    RoundsAreWhole
PROPERTY
    BooksAreKept
SYMMETRY Symmetry
CHECK_DEADLOCK FALSE
