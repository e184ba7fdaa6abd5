SPECIFICATION FairSpec
CONSTANTS
    None = None
    Gone = Gone
    Channels <- TwoChannels
    Implicit <- ImplicitA
    SubMax = 2
    Debug = TRUE
    Grips <- AllGrips
    PublishActions = {"send", "close"}
    FilterResults = {"send", "mismatch"}
    ReqMax = 3
    FrameMax = 1
    PublishMax = 2
    LossMax = 1
CHECK_DEADLOCK FALSE
INVARIANTS
    CancelOnlyAfterLoss
    HandlerKeeps
PROPERTIES
    BothEnd
