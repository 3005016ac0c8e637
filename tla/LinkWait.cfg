CONSTANTS
  Speeds = {"10M", "100M"}
  QueueLen = 1
  Prompt = TRUE
SPECIFICATION FairSpec
INVARIANTS
  TypeOK
  CallbackHasQueue
PROPERTIES
  KeepsPromise
  WaitEnds
  Settles
