SPECIFICATION Spec
CONSTANTS
    PerSide = 1
    NumStars = 4
    MaxTurns = 2
    LineLimit = 2
    Practice = TRUE
    PipeSize = 2
    Kinds = {"fly", "done"}
    MaxAhead = 1
    MaxOrders = 2
INVARIANT
    AnswersInTime
CHECK_DEADLOCK FALSE
