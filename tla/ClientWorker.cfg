SPECIFICATION Spec
CONSTANTS
  Workers = {1, 2}
  ReqMax = 1
  StreamMax = 2
  HandleBound = 1
  ReqIds = {r1}
  StreamIds = {s1}
  RequestMax = 2
  DirectMax = 2
  StopMax = 1
  None = None
CHECK_DEADLOCK FALSE
INVARIANTS
    SessionsFound
PROPERTIES
    WorkersProgress
