SPECIFICATION Spec
CONSTANTS
  Threads <- BothTasks
  NumSocks = 2
  IdMod = 2
  PidMod = 4
  MaxUnits = 2
  BrokerCloses = TRUE
  Segmented = TRUE
  BrokerMute = TRUE
  Refusals <- AnyAnswer
  ConnectFails = TRUE
  UnwrittenDue <- NeverDue
  Timely = FALSE
INVARIANTS
  TypeOK
  ServesSubscription
  NoSocketLeak
  NeverGarbled
PROPERTY
  PingLosesOnlyToPublish
CHECK_DEADLOCK FALSE
