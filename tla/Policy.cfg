SPECIFICATION Spec
VIEW View
CONSTANTS
  c1 = c1
  Clients = {c1}
  Trusts = {20, 27, 47, 60, 75, 82, 90, 95}
  Baselines = {4}
  Watch = 30
  Throttle = 50
  Quarantine = 70
  Kick = 85
  KickSingle = 95
  Margin = 5
  DeescalateWindows = 3
INVARIANTS
  LearnersAreNotEnforced
  CalmClientIsCleared
PROPERTIES
  DeescalationIsEarned
  KickIsEarned
