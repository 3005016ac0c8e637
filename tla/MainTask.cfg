SPECIFICATION Spec
CONSTANTS
  a1 = a1
  a2 = a2
  NoAddr = NoAddr
  LeasesExpire = TRUE
  Addrs = {a1, a2}
  Diffs <- MCDiffs
  Polls <- MCPolls
INVARIANTS
  TypeOK
  Heartbeat
  CountsToThree
  AnnounceIsFresh
  BoundFlagSound
\* The firmware stops for good when `catch unreachable' is reached.
CHECK_DEADLOCK FALSE
