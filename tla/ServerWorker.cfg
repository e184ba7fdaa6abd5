SPECIFICATION MCSpec
CONSTANTS
  ReqMax = 2
  StreamMax = 1
  Batches = 2
  IdsMax = 2
  HandleBound = 1
  Addrs = {a1}
  SeqLimit = 2
  AcceptMax = 2
  IdMax = 2
  SendMax = 1
  ReplyMax = 1
  StopMax = 1
  ReplyTypes = {"data", "end", "cancel", "handoffStart"}
INVARIANTS
    OwnResources
    SeqInOrder
    CancelsSent
PROPERTIES
    StopCompletes
    KeepAlivesReach
