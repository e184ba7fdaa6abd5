SPECIFICATION MCFair
CONSTANTS
    a = a
    b = b
    Null = Null
    None = None
    Channels <- OneChannel
    Implicit = {}
    FirstInstructs <- StreamFirst
    NextInstructs <- StreamNext
    Actions = {"send", "hint", "close", "mismatch"}
    FilterResults = {"send", "drop", "error"}
    AsyncFilters = TRUE
    GoneLink = TRUE
    Debug = FALSE
    QueueMax = 1
    RetryMax = 1
    LogMax = 2
    BodyMax = 1
    CreditMax = 1
CHECK_DEADLOCK FALSE
INVARIANTS
    ResponsesInOrder
    WaitsAreWoken
    SubscriptionsKept
PROPERTIES
    CatchesUpAll
