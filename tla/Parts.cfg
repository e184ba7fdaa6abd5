SPECIFICATION Spec
CONSTANTS
    None = None
CHECK_DEADLOCK FALSE
INVARIANTS
    NoLostWakeup
    TimersOnTime
    ContentKept
    BodiesWhole
    SpecsMatch
    AnswersOwn
    PacketsRead
    CompressedIntact
    HopsAgree
