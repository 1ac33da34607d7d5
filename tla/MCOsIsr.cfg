SPECIFICATION FairSpec
CONSTANTS
  QueueSize = 3
  MaxRemovals = 3
  Signals = TRUE
  CopyFaults = TRUE
  ThreadFaults = TRUE
INVARIANTS TypeOK NoCallAfterRemove FetchFindsEntry RemovalDropsAtMostOne
PROPERTIES RemoveReturns InterruptReachesIsr
CHECK_DEADLOCK FALSE
