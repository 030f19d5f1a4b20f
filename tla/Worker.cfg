SPECIFICATION Spec
VIEW View
SYMMETRY Symmetry
CONSTANTS
  c1 = c1
  c2 = c2
  Clients = {c1, c2}
  NoWindow = NoWindow
  NoClient = NoClient
  WindowLen = 1
  IdleGrace = 1
  Levels = {0, 2}
  Modes = {TRUE, FALSE}
  BatchSize = 2
  SweepInterval = 1
  SweepLate = 1
  MaxEvents = 3
  MaxTime = 4
  MaxCrashes = 1
INVARIANTS
  CountedOnce
  OnlyCrashesLose
  AtMostOneStray
  ScoredInTime
  RowsExplainVerdicts
  IncidentsFollowVerdicts
  OnlyCrashesOrphan
PROPERTY ImplementsWindowLog
CHECK_DEADLOCK FALSE
