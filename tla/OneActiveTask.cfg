SPECIFICATION Spec
CONSTANTS
  j1 = j1
  w1 = w1
  JobIds = {j1}
  WorkerIds = {w1}
  NoWorker = NoWorker
  Types <- AllTypes
  MaxTasks = 2
  MaxVersions = 2
  MaxAttempts = 1
  Faults = FALSE
INVARIANTS
  OneActiveTask
CHECK_DEADLOCK FALSE
