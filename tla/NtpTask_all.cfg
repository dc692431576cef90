SPECIFICATION Spec
CONSTANTS
  NumNetbufs = 2
  MaxWire = 2
  Times <- EveryDay
INVARIANTS
  NetbufsAccounted
  DateRight
CHECK_DEADLOCK FALSE
