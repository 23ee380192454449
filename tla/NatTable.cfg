SPECIFICATION Spec
CONSTANTS
  Zero = Zero
  Us = Us
  HostA = HostA
  HostB = HostB
  RemoteR = RemoteR
  RemoteS = RemoteS
  Ip <- Addresses
  ZeroIp <- Zero
  PublicIp <- Us
  FirstPort = 2
  PortMax = 3
  Capacity = 3
  Requests <- SmallRequests
  Replies <- SmallReplies
  Time = {0, 1}
  Idle = {0, 1}
  Free = Free
INVARIANTS
  OnlyBadTuplesMalformed
  ReplyReachesSender
PROPERTIES
  MappingsAreStable
  ImplementsTranslator
