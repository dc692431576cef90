SPECIFICATION Spec
CONSTANTS
  Threads <- BothTasks
  NumSocks = 2
  IdMod = 2
  PidMod = 4
  MaxUnits = 0
  BrokerCloses = FALSE
  Segmented = FALSE
  BrokerMute = FALSE
  Refusals <- AlwaysAccepted
  ConnectFails = FALSE
  UnwrittenDue <- NeverDue
  Timely = TRUE
INVARIANT
  StepsInOrder
CHECK_DEADLOCK FALSE
