SPECIFICATION FairSpec
CONSTANTS
    Teams = {a, b}
    NumRounds = 2
    NumThreads = 2
    Desired = 2
    TeamsLimit <- NoLimit
    EloUnit = 2
    Gains = {1}
    MaxFailures = 1
    MaxUploads = 2
    InitBinaries <- NobodyIn
INVARIANT
    BinariesAreFrozen
PROPERTY
    StartedRoundsEnd
CHECK_DEADLOCK FALSE
