SPECIFICATION ServiceSpec
CONSTANTS
    Conns = {c1, c2}
    Tick = 3
    Period = 2
    Null = Null
    IntMax = 7
    MaxKey = 3
    MaxNow = 7
    Punctual = FALSE
    Requests <- AllRequests
    MaxRequests = 3
    Later = TRUE
    concurrency_ = 3
    Clients = 3
    OwnerStops = TRUE
    Crashes = 1
INVARIANTS
    ServerConsistent
    NobodyIsForgotten
PROPERTIES
    KeepsDeadlines
    ConnectionIsSafe
    ServiceGoesOn
CHECK_DEADLOCK FALSE
