SPECIFICATION Spec
CONSTANTS
    Sessions = {s1, s2, s3}
    Keys <- TwoKeys
    TimeoutOf <- Timeouts
    None = None
INVARIANTS
    QuietIsPolled
PROPERTIES
    ResetIsHonoured
    ImplementsPolls
