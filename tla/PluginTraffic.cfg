SPECIFICATION TSpec
VIEW View
CONSTANTS
  c1 = c1
  Clients = {c1}
  Absent = Absent
  Gone = Gone
  DecayGap = 20
  DecayRenew = 40
  MaxTracked = 1
  Modes = {"enforce"}
  KeepAlives = {0, 1}
  Talkers = {c1}
  Rates = {1, 2}
  Writes = {1, 2}
  Second = 1
  VerdictTTL = 40
  RefreshPeriod = 1
  StatsPeriod = 3
  BackoffStart = 1
  BackoffCap = 2
  TickEvery = 1
  StartTime = 2
  MaxTime = 6
INVARIANTS
  BurstBound
  ThrottledNotStarved
  SilenceIsReported
