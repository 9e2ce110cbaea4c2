SPECIFICATION Spec
CONSTANTS
    PerSide = 1
    NumStars = 4
    TurnsPerProduction = 2
    MaxOutgoing = 2
    MaxTurns = 5
    Distance <- DuelDistance
    Richness <- DuelRichness
    Placements <- DuelPlacements
    OrderSizes = {3, 6}
INVARIANTS
    TypeOK
    PendingIsExact
    FlightsApart
    FlightsOnCourse
PROPERTY
    ShipsAreAccountedFor
CHECK_DEADLOCK FALSE
