SPECIFICATION Spec
CONSTANTS
    None = None
    Sockets = 2
    WorkerCount = 2
    ConnMax = 1
    ArriveMax = 3
    Handles = {1, 2, 3}
    Kind <- KindOf
    Filter <- PrefixOf
    Arrivals <- SomePackets
    HANDLES_MAX = 2
    HandleBound = 1
    PacketMax = 2
    MessageMax = 1
    Names = {"a", "d"}
    Candidates <- TwoNames
    Readers = {1, 2}
    Versions = {1, 2}
    WriteMax = 2
    LookupMax = 1
    Threads = {1, 2}
    Clients = {1, 2}
    Hosts = {"a", "b", "toolong"}
    TooLong = "toolong"
    QueriesMax = 1
    QueryMax = 4
    QueueBound = 2
    ValueMax = 3
    Senders = {1, 2}
    Bound = 1
    SendMax = 2
    Drops = TRUE
    Selects = TRUE
    Slots = {1, 2}
    RegMax = 3
    InMax = 3
    OutMax = 3
    Hwm = 1
CHECK_DEADLOCK FALSE
INVARIANTS
    HandlesServed
    QueriesAnswered
    SignalsKept
