SPECIFICATION Spec
CONSTANTS
    ReqMax = 1
    DataMax = 2
    ChunkMax = 1
    WireMax = 3
    RbufMax = 4
    Versions = {"11"}
CHECK_DEADLOCK FALSE
INVARIANTS
    WholeBody
