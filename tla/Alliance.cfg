SPECIFICATION Spec
CONSTANTS
    PerSide = 2
    NumStars = 5
    TurnsPerProduction = 5
    MaxOutgoing = 3
    MaxTurns = 1
    Distance <- AlliedDistance
    Richness <- AlliedRichness
    Placements <- AlliedPlacements
    OrderSizes = {9, 10}
INVARIANTS
    TalliesAgree
    OnlyNeutralStarsCrash
    LinksJoinAllies
PROPERTY
    ImplementsConquest
CHECK_DEADLOCK FALSE
