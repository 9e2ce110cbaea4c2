SPECIFICATION Spec
CONSTANTS
    left = left
    right = right
    W = 2
    ByteCount = 4
    Stations <- Boards
    Keys <- TypedKeys
    Approved <- ApprovedKeys
    Newline = 2
    D = 2
    MaxTyped = 3
    Prompted = TRUE
    TakesTurns = TRUE
    Addresses <- Room
    IntMin <- LeastNumber
    Numbers <- TypedNumbers
    Lines <- TypedLines
    Chars <- TypedChars
    MaxSize = 3
    MaxId = 3
INVARIANTS
    ProgramsConsistent
PROPERTIES
    InstructionsAreExact
    ConversationInStep
    StoreSpec
    ProgramsGoOn
CHECK_DEADLOCK FALSE
