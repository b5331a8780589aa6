SPECIFICATION System
CONSTANTS
  j1 = j1
  w1 = w1
  w2 = w2
  JobIds = {j1}
  WorkerIds = {w1}
  NoWorker = NoWorker
  Types <- AllTypes
  MaxTasks = 1
  MaxVersions = 1
  MaxAttempts = 2
  Faults = FALSE
  Grace = 1
  MaxLate = 0
INVARIANTS
  SurvivesRestarts
CHECK_DEADLOCK FALSE
