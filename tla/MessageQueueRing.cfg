CONSTANTS
  Message = {m1, m2}
  Nothing = Nothing
  DEFAULT_QUEUE_SIZE = 2
  MQ_OVERLOAD = 1
  MaxMessages = 6
SPECIFICATION RingSpec
INVARIANT ThresholdTracksPeak
PROPERTY ImplementsFIFO
