SPECIFICATION Spec
CONSTANTS
  NoWindow = NoWindow
  Benign = benign
  Clients = {c1, c2}
  Attacks = {flood, scan}
  Origins = {7}
  Speeds = {1}
  Verdicts <- SomeVerdicts
  WindowLen = 2
  IdleGrace = 1
  SweepLate = 1
  WaitMargin = 3
  MaxEvents = 3
  MaxSpan = 3
INVARIANT
  AxesLineUp
CHECK_DEADLOCK FALSE
