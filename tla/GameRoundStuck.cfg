SPECIFICATION Spec
CONSTANTS
  NPlayer = 3
  Card = {1, 2, 3, 4, 5}
  Copies = 4
  DealCount = 4
  Stacks <- MCStacks
  MaxRound = 2
  MaxErr = 2
INVARIANT AlwaysTimed
CHECK_DEADLOCK FALSE
