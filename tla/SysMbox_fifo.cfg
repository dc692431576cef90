CONSTANTS
  Posters = {"p1"}
  Fetchers = {"f1", "f2"}
  Cap = 2
  Initial = {0}
  TickMod = 3
  MaxPended = 1
  Isr = TRUE
  Prio <- MCPrio
  Waits <- MCWaits
SPECIFICATION Spec
INVARIANTS TypeOK NoSleeperBesideWork
PROPERTY ImplementsMailbox
CHECK_DEADLOCK FALSE
