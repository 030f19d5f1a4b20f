SPECIFICATION FairSpec
CONSTANTS
  Weights <- ShippedWeights
  Clients = {c1}
  Users = {u1}
  Default = Default
  None = None
  Torn = Torn
  Mixed = Mixed
  Trainers = {t1, t2}
  PerClientModes = {FALSE}
  AdaptiveModes = {TRUE}
  Scores = {0, 100}
  MinTrainingSamples = 1
  MaxRows = 2
  MaxTrainings = 2
  MaxRestarts = 1
INVARIANTS
  ColdOnlyWhileTorn
  AnnouncedIsRecorded
  ColdStartIsNotDiluted
PROPERTIES
  NeverUnlearned
  HotReload
