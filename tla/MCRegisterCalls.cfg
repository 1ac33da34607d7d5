CONSTANTS
  main = main
  isr = isr
  Callers = {main, isr}
  Images <- MCImages
  Length <- MCLength
  MaxCalls = 2
  MaxEvents = 1
SPECIFICATION Spec
INVARIANT RegistersTypeOK
INVARIANT DriverAccepts
INVARIANT GettersAgree
INVARIANT UnitsAgree
PROPERTY ChannelsApart
PROPERTY NoStaleEnable
CONSTRAINT EventsOnSmall
SYMMETRY Symmetric
CHECK_DEADLOCK FALSE
