SPECIFICATION Spec
CONSTANTS
  QueueSize = 3
  MaxRemovals = 3
  Signals = FALSE
  CopyFaults = TRUE
  ThreadFaults = FALSE
INVARIANT NeverCallsNull
CHECK_DEADLOCK FALSE
