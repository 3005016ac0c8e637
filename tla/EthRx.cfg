SPECIFICATION FairSpec
CONSTANTS
  NumBD = 3
  NumBuf = 4
INVARIANTS
  TypeOK
  BuffersConserved
  NeverDeaf
  NoLostWakeup
PROPERTY
  FramesTaken
CHECK_DEADLOCK FALSE
