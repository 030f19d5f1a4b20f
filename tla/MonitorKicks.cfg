SPECIFICATION VSpec
CONSTANTS
  c1 = c1
  c2 = c2
  Clients = {c1}
  Absent = Absent
  Gone = Gone
  DecayGap = 1
  DecayRenew = 2
  MaxTracked = 1
  Modes = {"monitor"}
  KeepAlives = {0}
  Talkers = {}
  Rates = {1}
  Writes = {1, 2, 3, 4}
  Second = 1
  VerdictTTL = 2
  RefreshPeriod = 0
  StatsPeriod = 0
  BackoffStart = 1
  BackoffCap = 2
  TickEvery = 1
  StartTime = 1
  MaxTime = 4
INVARIANT MonitorNeverKicks
CHECK_DEADLOCK FALSE
