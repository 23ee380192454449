SPECIFICATION Spec
CONSTANTS
  Messages <- SomeMessages
  Here <- Host1
  There <- Host2
  Mac <- Card
  MaxHops = 2
  Deltas = {1, 16, 256, 4096, 61440, 65280, 65520, 65534}
INVARIANTS
  LessonsAgree
  ParsedLengthIsDecisive
  DamageSeen
  AnswersAgree
CHECK_DEADLOCK FALSE
