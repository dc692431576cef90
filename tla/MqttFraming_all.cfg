SPECIFICATION Spec
CONSTANTS
  Base = 2
  MaxLenBytes = 2
  Power <- MCPower
  Packet <- SomePackets
  MaxPackets = 3
  BufLen = 6
  Modes <- MCModes
INVARIANTS
  TypeOK
  RightUntilFailure
PROPERTIES
  DeliversAll
  DeliversInOrder
  GivesUpOnlyOnErrorOrShortBody
CHECK_DEADLOCK FALSE
