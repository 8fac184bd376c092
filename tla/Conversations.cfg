SPECIFICATION ConversationsSpec
CONSTANTS
    h1 = h1
    h2 = h2
    Handlers <- mcHandlers
    Words <- mcWords
    Asks <- mcAsks
    Prompts <- mcPrompts
    Size <- mcSize
    Room = 2
    Limit = 2
    MaxTotal = 3
    MaxMade = 3
INVARIANTS
    HistoryHolds
    PagesOfTheSearch
    PromptWaits
SYMMETRY Symmetry
CHECK_DEADLOCK FALSE
