SPECIFICATION Spec
CONSTANTS
  NumBoards = 2
  NumBuffers = 2
  QueueSize = 2
  Blocks = {FALSE}
  IsrRemoves = FALSE
  Faults = {"alloc", "thread", "signal", "io"}
INVARIANTS TypeOK FreshFromAll ReadsInOrder
PROPERTY NotFullMeansNoneFull
CONSTRAINTS OneNotZeroed ZeroedWhenDone
CHECK_DEADLOCK FALSE
