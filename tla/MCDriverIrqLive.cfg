\* One process, both function blocks in the lower status word: liveness.
SPECIFICATION FairSpec
CONSTANTS
  p1 = p1
  p2 = p2
  Procs = {p1}
  NumFB = 2
  LowBits = 2
  QueueSize = 2
  MissedLimit = 0
  MissedBound = 4
  CopyFaults = FALSE
  Entry <- MCEntry
  Sources <- MCSources
  ZeroEntry <- MCZeroEntry
PROPERTY EveryInterruptServed
