SPECIFICATION FairSpec
CONSTANTS
  Buffer = 2
  MaxVersion = 4
  Fetches = {f1, f2}
INVARIANTS
  TypeOK
  StreamSuffices
PROPERTIES
  DashboardCatchesUp
