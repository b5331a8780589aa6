SPECIFICATION FairSpec
CONSTANTS
  j1 = j1
  w1 = w1
  JobIds = {j1}
  WorkerIds = {w1}
  NoWorker = NoWorker
  Types <- AllTypes
  MaxTasks = 2
  MaxVersions = 2
  MaxAttempts = 2
  Faults = TRUE
INVARIANTS
  CurrentTaskIsOurs
  ArtifactsAreTheActiveAttempts
  StateMatchesTask
  CancelReachesTask
PROPERTIES
  JobLearnsOutcome
  EarlierAttemptsKept
  AcceptedWhenEarned
CHECK_DEADLOCK FALSE
