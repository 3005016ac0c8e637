CONSTANTS
  Locked = {"tcpip"}
  Unlocked = {"lwip_rx"}
  Frames = {"f1", "f2"}
  NumBD = 2
SPECIFICATION Spec
CHECK_DEADLOCK FALSE
INVARIANT CoreLocked
