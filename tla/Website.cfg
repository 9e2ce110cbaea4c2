SPECIFICATION WebsiteSpec
CONSTANTS
    Pages = {one, two}
    Contents = {good, bad}
    Good = {good}
    Null = Null
    MaxRows = 2
    MaxMishaps = 2
    Teams = {a, b}
    NumRounds = 2
    MaxUploads = 1
    MaxGames = 1
    StartElo = 3000
    Gains = {1}
    NoElo <- NoRating
    Unknown <- UnknownRating
    MaxFailures = 1
INVARIANT
    UploadsAreKept
PROPERTIES
    VerdictsAreFair
    ScoreboardIsTrue
    WebsiteGoesOn
CHECK_DEADLOCK FALSE
