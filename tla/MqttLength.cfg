SPECIFICATION Spec
CONSTANTS
  Base = 8
  MaxLenBytes = 4
  Lengths <- EveryLength
  Fields <- SomeFields
  Power <- MCPower
INVARIANTS
  TypeOK
  RoundTrip
  LoopIsEncode
  ValueInRange
  LenCoversPacket
CHECK_DEADLOCK FALSE
