SPECIFICATION Spec
VIEW View
SYMMETRY Symmetry
CONSTANTS
  Symbols = {PUB, SUB}
  None = None
  Torn = Torn
  Times = {0, 2}
  Modes = {TRUE, FALSE}
  LearningMaxEvents = 3
  LearningMaxTime = 2
  AlphaInverse = 2
  SnapshotCap = 1
  Features = 1
  TopTransitions = 2
  MaxHeard = 4
  MaxExports = 1000
  MaxCrashes = 1000
INVARIANTS
  ContractFollowsEvents
  LearnedIsJudgedOnce
  FingerprintIsCoherent
  FileFollowsDatabase
PROPERTIES
  ExportFailsOnlyOnNovelty
