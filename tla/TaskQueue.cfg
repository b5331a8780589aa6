SPECIFICATION FairQueueSpec
CONSTANTS
  j1 = j1
  w1 = w1
  w2 = w2
  JobIds = {j1}
  WorkerIds <- MCWorkers
  NoWorker = NoWorker
  Types = {"RECONSTRUCT"}
  MaxTasks = 3
  MaxVersions = 1
  MaxAttempts = 2
  Faults = TRUE
INVARIANTS
  QueueTypeOK
  DeliveryBound
PROPERTIES
  LeaseProtectsHolder
  ImplementsLifecycle
  NothingStarves
CHECK_DEADLOCK FALSE
