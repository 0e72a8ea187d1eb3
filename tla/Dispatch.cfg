CONSTANTS
  w1 = w1
  w2 = w2
  h1 = h1
  h2 = h2
  h3 = h3
  t1 = t1
  Worker = {w1, w2}
  Outside = {t1}
  Handle = {h1, h2, h3}
  Started = {h1, h2}
  None = None
  Weight <- MCWeight
  MonitorExit = h1
  MaxSend = 2
  MaxKill = 1
SPECIFICATION FairSpec
INVARIANTS ScheduledOnce RefCounted InitBeforeDispatch FreedQueueIsDead
PROPERTY EventuallyDrained
CHECK_DEADLOCK FALSE
