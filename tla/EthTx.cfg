CONSTANTS
  Locked = {"tcpip"}
  Unlocked = {"lwip_rx"}
  Frames = {"f1", "f2"}
  NumBD = 2
SPECIFICATION FairSpec
CHECK_DEADLOCK FALSE
INVARIANTS
  TypeOK
  WaiterHasWaker
PROPERTIES
  IsChannel
  SendReturns
