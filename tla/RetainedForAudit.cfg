SPECIFICATION ArtifactsSpec
CONSTANTS
  j1 = j1
  w1 = w1
  w2 = w2
  v1 = v1
  v2 = v2
  e1 = e1
  e2 = e2
  b1 = b1
  b2 = b2
  JobIds = {j1}
  WorkerIds = {w1}
  NoWorker = NoWorker
  Types <- AllTypes
  MaxTasks = 3
  MaxVersions = 1
  MaxAttempts = 1
  Faults = FALSE
  Interrupts = FALSE
  Views <- TwoViews
  Edits <- TwoEdits
  Backgrounds <- TwoUploads
  NoFile = NoFile
  ColmapData = ColmapData
SYMMETRY Symmetry
INVARIANTS
  RetainedForAudit
CHECK_DEADLOCK FALSE
