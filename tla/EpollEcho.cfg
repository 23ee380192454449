SPECIFICATION ReadingPeerSpec
CONSTANTS
  BufferSize = 3
  Triggers = {"LEVEL", "EDGE"}
  Expected = {0, 4}
  ReceiveRoom = 3
  SendRoom = 2
  MaxSent = 5
  MaxSignals = 1
  SystemFailures = TRUE
INVARIANTS
  TypeOK
  EchoInOrder
  StatusIsTrue
  NoLostWakeup
  CallerStateRestored
PROPERTIES
  ReadingPeerGetsReturn
CHECK_DEADLOCK FALSE
