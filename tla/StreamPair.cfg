SPECIFICATION FairSpec
CONSTANTS
  BufSize = 1
  TmpSize = 1
  QueueMax = 1
  SessionMax = 1
  ExpandMax = 1
  LossMax = 1
  HandoffMax = 1
  FaultMax = 1
  ReqBodies = {0, 2}
  RespBodies = {2}
  RedirectsMax = 1
INVARIANTS
    RequestArrives
PROPERTIES
    RequestsEnd
