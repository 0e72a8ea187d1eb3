CONSTANTS
  Timer = {a, b}
  Delay = {1, 2, 3, 5, 9, 15}
  TIME_NEAR = 2
  TIME_LEVEL = 2
  MaxDiff = 2
  MaxTicks = 40
SPECIFICATION Spec
INVARIANTS FiresOnTime SameTickInOrder
PROPERTY EveryTimerFires
CHECK_DEADLOCK FALSE
