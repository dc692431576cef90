SPECIFICATION Spec
CONSTANTS
  QueueLen = 2
  Transfers <- MCTransfers
  MaxReadings = 4
INVARIANTS TypeOK DeceivedByTwoSlips
PROPERTIES FreshGetsOut NeverGoesBack SensorKeepsSampling
