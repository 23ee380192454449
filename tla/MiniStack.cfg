SPECIFICATION Spec
CONSTANTS
  SeqMod = 8
  AddressBits = 2
  TimeMax = 40
  MaxPayload = 4
  ChunkPayload = 2
  MaxFaultActions = 4
  Payload <- PayloadBytes
  SenderInitialSeq = 6
  Destination = 3
  Scenarios <- AllScenarios
  StackBytes = {1}
  FaultActions = {"DELIVER", "DROP", "DELAY", "REORDER"}
  Delays = {2, 9, 39}
  InitialRtos = {2, 20}
  Attempts = {1, 2, 3}
  LongestScript = 4
INVARIANTS
  AcknowledgedMeansReceived
  OwnFramesAccepted
  QueueNeverFills
  NothingDueInThePast
  ExhaustionNeedsFaults
  ReturnsCleanly
PROPERTIES
  ImplementsTransfer
  Terminates
CHECK_DEADLOCK FALSE
