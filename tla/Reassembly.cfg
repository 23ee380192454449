SPECIFICATION Spec
CONSTANTS
  SeqMod = 6
  Capacity = 4
  InitialSeq = 4
  Byte = {0, 1}
  MaxLen = 3
  MaxRead = 3
INVARIANTS
  OutputMatchesWindow
  AcceptedCountsPresent
PROPERTIES
  NoByteRewritten
  ImplementsReceivedStream
CHECK_DEADLOCK TRUE
