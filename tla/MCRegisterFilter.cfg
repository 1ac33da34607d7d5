CONSTANTS
  main = main
  isr = isr
  Callers = {main}
  Images <- MCImages
  Length <- MCLength
  MaxCalls = 1
  MaxEvents = 0
SPECIFICATION Spec
PROPERTY AskingChangesNothing
CHECK_DEADLOCK FALSE
