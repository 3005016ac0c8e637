SPECIFICATION AnsweredSpec
CONSTANTS
  a1 = a1
  a2 = a2
  NoAddr = NoAddr
  LeasesExpire = FALSE
  Addrs = {a1}
  Diffs = {2, 5}
  Polls = {16}
PROPERTIES
  AddrChangesHandled
  QueriesForever
  EventsConsumed
\* The firmware stops for good when `catch unreachable' is reached.
CHECK_DEADLOCK FALSE
