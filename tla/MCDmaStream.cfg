\* Both programs.  The programs end.
SPECIFICATION Spec
CONSTANTS
  Programs = {"continuous", "all"}
  NumBuffers = 2
  QueueSize = 2
  ActionLoops = 1
  Numbers = 4
CHECK_DEADLOCK FALSE
INVARIANTS StreamTypeOK DeliveredInOrder
PROPERTY BufferCollected
