SPECIFICATION BothSpec
CONSTANTS
  Quarter = 4
  MaxWire = 5
  MaxText = 3
  MaxHops = 2
  Messages <- ShortMessages
  OutCapacities = {2, 4}
INVARIANTS
  ResultsFit
  DecodesTheName
  NamesAgree
CHECK_DEADLOCK FALSE
