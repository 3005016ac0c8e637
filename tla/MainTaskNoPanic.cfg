SPECIFICATION Spec
CONSTANTS
  a1 = a1
  a2 = a2
  NoAddr = NoAddr
  LeasesExpire = TRUE
  Addrs = {a1, a2}
  Diffs <- MCDiffs
  Polls <- MCPolls
INVARIANT
  NoPanic
CHECK_DEADLOCK FALSE
