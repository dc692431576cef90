SPECIFICATION Spec
CONSTANTS
  Threads <- BothTasks
  NumSocks = 1
  IdMod = 3
  PidMod = 4
  MaxUnits = 2
  BrokerCloses = FALSE
  Segmented = TRUE
  BrokerMute = TRUE
  Refusals <- AlwaysAccepted
  ConnectFails = FALSE
  UnwrittenDue <- NeverDue
  Timely = TRUE
PROPERTY
  AlwaysServesAgain
CHECK_DEADLOCK FALSE
