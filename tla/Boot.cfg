SPECIFICATION Spec
INVARIANTS
  ClockedAccess
  GroupsIntact
  SafeRerouting
  CoreClockKept
  ClocksAsConfigured
  InOrder
