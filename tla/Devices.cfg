CONSTANTS
  Writers = {"main", "tcpip"}
  MaxBytes = 2
  Era = 5
  Zos = 2
  LastTime = 4
SPECIFICATION Spec
INVARIANTS
  WaitIsAnswered
  DiffIsJump
PROPERTIES
  IsSyncWrite
