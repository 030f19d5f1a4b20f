SPECIFICATION Spec
CONSTANTS
  c1 = c1
  c2 = c2
  Clients = {c1}
  NoWindow = NoWindow
  NoClient = NoClient
  WindowLen = 1
  IdleGrace = 1
  Levels = {0, 2}
  Modes = {FALSE}
  BatchSize = 2
  SweepInterval = 1
  SweepLate = 1
  MaxEvents = 3
  MaxTime = 4
  MaxCrashes = 1
INVARIANT JudgedByOwnEvents
CHECK_DEADLOCK FALSE
