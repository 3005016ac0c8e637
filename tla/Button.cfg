SPECIFICATION FairSpec
CONSTANTS
  Buttons = {sw2, sw3}
  NoButton = NoButton
  QueueLen = 2
INVARIANTS
  TypeOK
  AgreesWhenQuiet
PROPERTIES
  Debounced
  Settles
CHECK_DEADLOCK FALSE
