SPECIFICATION Spec
CONSTANTS
  BufSize = 2
  TmpSize = 2
  ExpandMax = 0
  MessagesMax = 2
  QueueMax = 1
  ControlMax = 2
  CloseSizes = {2}
CONSTANT
  Scripts <- SomeScripts
INVARIANTS
    MessagesInOrder
    NoFailure
PROPERTIES
    CloseCompletes
