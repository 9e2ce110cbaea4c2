SPECIFICATION FairSpec
CONSTANTS
    PerSide = 1
    NumStars = 4
    MaxTurns = 2
    LineLimit = 1
    Practice = TRUE
    PipeSize = 2
    Kinds = {"fly", "huge", "odd", "junk", "done"}
    MaxAhead = 1
    MaxOrders = 1
INVARIANTS
    MatchConsistent
    AnswersStayInStep
    EndIsClean
PROPERTY
    MatchEnds
CHECK_DEADLOCK FALSE
