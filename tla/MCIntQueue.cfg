SPECIFICATION QueueSpec
CONSTANTS
  e0 = e0
  e1 = e1
  e2 = e2
  QueueSize = 3
  Entry <- MCEntry
  ZeroEntry = e0
  MissedBound = 2
INVARIANTS QueueTypeOK RingConsistent
PROPERTY RingIsFifo
