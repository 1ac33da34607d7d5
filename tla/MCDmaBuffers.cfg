\* Loading, one file at a time, and DMA with one initialising thread.
SPECIFICATION Spec
CONSTANTS
  p1 = p1
  p2 = p2
  p3 = p3
  main = main
  other = other
  NoPiece = NoPiece
  Threads = {main, other}
  Initialisers = {main}
  NumBuffers = 2
  NumRegions = 2
  Piece = {p1, p2, p3}
  Bars <- MCBars
  Faults <- MCFaults
INVARIANTS DriverTypeOK HandlerHasRegisters NothingLeft EngineSafe
PROPERTY DmaIsTable
