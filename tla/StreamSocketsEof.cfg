SPECIFICATION Spec
CONSTANTS
  HeaderSize = 2
  ServerCapacity = 2
  Lengths = {0, 2, 3}
  ClientCapacities = {1, 2}
  Room = 2
  SystemFailures = TRUE
INVARIANTS
  EofMeansNothingReceived
CHECK_DEADLOCK FALSE
