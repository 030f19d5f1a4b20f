SPECIFICATION Spec
CONSTANTS
  RingSize = 3
  DrainBatch = 2
  BackoffStart = 1
  BackoffCap = 2
  MaxEvents = 6
  MaxFaults = 3
INVARIANTS
  EveryEventAccounted
  OnlyOutagesLose
PROPERTIES
  ImplementsLossyFifo
  StopTerminates
  RingDrains
CHECK_DEADLOCK FALSE
