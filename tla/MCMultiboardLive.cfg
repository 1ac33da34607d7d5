SPECIFICATION FairSpec
CONSTANTS
  NumBoards = 2
  NumBuffers = 1
  QueueSize = 2
  Blocks = {FALSE, TRUE}
  IsrRemoves = TRUE
  Faults = {"start"}
INVARIANT GoneAfterRemove
PROPERTIES RemoveReturns IsrIsCalled InstallUnblocks
CONSTRAINT OneNotZeroed
CHECK_DEADLOCK FALSE
