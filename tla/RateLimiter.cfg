SPECIFICATION FairSpec
CONSTANTS
    None = None
    Keys = {1, 2}
    Rate = 60
    Hwm = 6
    BatchWait = TRUE
    Weights = {0, 1, 3, 5}
    AddMax = 4
CHECK_DEADLOCK FALSE
INVARIANTS
    WorkHasTimer
    RateIsKept
PROPERTIES
    WorkGetsDone
