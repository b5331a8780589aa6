SPECIFICATION FairSystem
CONSTANTS
  j1 = j1
  w1 = w1
  w2 = w2
  JobIds = {j1}
  WorkerIds <- MCWorkers
  NoWorker = NoWorker
  Types <- AllTypes
  MaxTasks = 1
  MaxVersions = 1
  MaxAttempts = 2
  Faults = FALSE
  Grace = 2
  MaxLate = 1
INVARIANTS
  WorkersTypeOK
  SuccessIsEarned
  OnlyCancelledByUser
PROPERTIES
  StopsWhenCancelled
  EveryTaskEnds
CONSTRAINT NoBackground
CHECK_DEADLOCK FALSE
