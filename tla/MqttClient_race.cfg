SPECIFICATION Spec
CONSTANTS
  Threads <- BothTasks
  NumSocks = 2
  IdMod = 1
  PidMod = 1
  MaxUnits = 0
  BrokerCloses = FALSE
  Segmented = FALSE
  BrokerMute = FALSE
  Refusals <- AlwaysAccepted
  ConnectFails = FALSE
  UnwrittenDue <- EitherWay
  Timely = TRUE
INVARIANTS
  SenderSilent
  ConnectingOwned
CHECK_DEADLOCK FALSE
