SPECIFICATION Spec
CONSTANTS
  Bytes = {0, 1}
  MaxRun = 2
  BufferSize = 8
  MaxBody = 6
  MaxSends = 2
INVARIANT SentIsDelivered
CHECK_DEADLOCK FALSE
