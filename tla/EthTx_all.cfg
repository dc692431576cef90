SPECIFICATION Spec
CONSTANTS
  NDesc = 2
  Sizes <- OneOrTwo
  BootFrames = 1
INVARIANTS
  TypeOK
  ExclusiveUnlessRefused
  SentAsMeant
PROPERTIES
  OkMeansSent
  NothingStranded
CHECK_DEADLOCK FALSE
