SPECIFICATION Spec
CONSTANTS
  RingSize = 3
  DrainBatch = 2
  BackoffStart = 1
  BackoffCap = 2
  MaxEvents = 5
  MaxFaults = 2
INVARIANT LossesAreCounted
CHECK_DEADLOCK FALSE
