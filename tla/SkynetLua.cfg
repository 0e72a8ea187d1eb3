SPECIFICATION Spec
CONSTANTS
  Co = {c1, c2, c3}
  Peer = {p1}
  None = None
  BREAK = BREAK
  MaxSession = 3
  MaxRequest = 1
  MaxError = 1
  MaxDepth = 2
INVARIANTS NobodyForgotten ResumedOnce RequestsAreAnswered Drained WaitersAreServed
PROPERTY ImplementsLock
SYMMETRY CoSymmetry
CHECK_DEADLOCK FALSE
