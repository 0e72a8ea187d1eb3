SPECIFICATION Spec
CONSTANTS
  Worker = {w1}
  NSlot = 2
  MaxEvent = 1
  Size = 2
  MaxId = 3
  MaxPkt = 2
  MaxCmd = 2
  MaxPipe = 1
  Kind <- MCKind
INVARIANTS StreamIsWhole NothingLost WriteArmed ClosedIffTold DescriptorsOwned
CHECK_DEADLOCK FALSE
