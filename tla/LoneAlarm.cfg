SPECIFICATION Spec
VIEW View
SYMMETRY Symmetry
CONSTANTS
  c1 = c1
  c2 = c2
  c3 = c3
  c4 = c4
  Clients = {c1, c2, c3, c4}
  Features = {"msg_rate"}
  NoWindow = NoWindow
  NoStart = NoStart
  WindowLen = 2
  IdleGrace = 1
  SweepLate = 1
  FleetWindow = 2
  MinFleetSize = 4
  Percent = 20
  MaxTime = 6
  MaxUp = 4
  MaxDown = 1
INVARIANT
  AlarmHasCompany
CHECK_DEADLOCK FALSE
