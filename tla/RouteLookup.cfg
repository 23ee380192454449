SPECIFICATION LookupSpec
CONSTANTS
  AddressBits = 2
  Tables <- SmallTables
INVARIANTS
  ResultIsContract
CHECK_DEADLOCK FALSE
