\* Two function blocks, one in each status word, and two processes.
SPECIFICATION Spec
CONSTANTS
  p1 = p1
  p2 = p2
  Procs = {p1, p2}
  NumFB = 2
  LowBits = 1
  QueueSize = 2
  MissedLimit = 1
  MissedBound = 5
  CopyFaults = TRUE
  Entry <- MCEntry
  Sources <- MCSources
  ZeroEntry <- MCZeroEntry
SYMMETRY MCSymmetry
INVARIANTS
  DriverTypeOK
  SingleUser
  QuietUntilOpened
  RingSound
  NoStrandedInterrupt
  MissedBounded
  OverflowResetIsOwn
PROPERTY DriverIsFifo
