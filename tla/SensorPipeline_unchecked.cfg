SPECIFICATION Spec
CONSTANTS
  QueueLen = 2
  Transfers <- MCTransfers
  MaxReadings = 4
INVARIANT OnlyCheckedPublished
