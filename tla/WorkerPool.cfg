CONSTANTS
  Worker = {w1, w2}
  Free = Free
  Services = 2
  MaxWork = 3
SPECIFICATION Spec
INVARIANTS SleepIsExact NobodyWaitsAfterQuit
PROPERTIES WorkIsTaken ShutdownCompletes
