SPECIFICATION Spec
CONSTANTS
  NumBoards = 1
  NumBuffers = 2
  QueueSize = 2
  Blocks = {FALSE}
  IsrRemoves = FALSE
  Faults = {}
INVARIANT NewThreadCollects
CHECK_DEADLOCK FALSE
