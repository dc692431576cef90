SPECIFICATION Spec
CONSTANTS
  NDesc = 3
  SemMax = 2
  MboxSize = 2
  SegSizes <- UpToTwoSegments
  Transmits = TRUE
  MaxFrame = 6
INVARIANTS
  TypeOK
  NoLostWakeup
  DeafOnlyByLockOrSegments
  InOrder
  RingWindow
PROPERTIES
  RefusedOnlyByAnother
  EventuallyDrained
CHECK_DEADLOCK FALSE
