SPECIFICATION Spec
CONSTANTS
  r1 = r1
  r2 = r2
  Nothing = Nothing
  Requests <- MCRequests
  DefaultProfile = "balanced"
  MaxFiles = 2
  Faults = TRUE
  Registrations <- MCRegistrations
  MaxDeliveries = 2
  FrameCounts = {50, 3000}
  Durations = {0, 2000}
INVARIANTS
  TypeOK
  NothingLeft
  OnlyCheckedIsTaken
  BestIsChosen
  TrainsOnEnough
  QualityOfModel
  PassesArePlanned
CHECK_DEADLOCK FALSE
