SPECIFICATION Spec
CONSTANTS
  BufferSize = 2
  Triggers = {"LEVEL", "EDGE"}
  Expected = {0, 3}
  ReceiveRoom = 2
  SendRoom = 1
  MaxSent = 4
  MaxSignals = 0
  SystemFailures = FALSE
PROPERTIES
  DeadlineBoundsCall
CHECK_DEADLOCK FALSE
