SPECIFICATION SomeSpec
CONSTANTS
  MaxHeaders = 3
  MaxHeaderBytes = 17
  MaxBody = 2
  Streams <- SomeStreams
  Capacities <- SomeCapacities
  Room = 2
  SystemFailures = {TRUE, FALSE}
INVARIANTS
  FragmentationInvisible
  OnlyRequestsAnswered
  FailuresExplained
  DeadlineIsFinal
PROPERTIES
  BothReturn
CHECK_DEADLOCK FALSE
