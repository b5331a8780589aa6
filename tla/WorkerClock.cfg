SPECIFICATION Spec
CONSTANTS
  Interval = 5
  Timeout = 10
  Latency = 2
  Grace = 30
  Lease = 45
  StopTime = 11
  Poll = 2
  OnlineFor = 20
  HealthyFor = 30
INVARIANTS
  TypeOK
  OverlapIsBounded
  OneMissIsNoLoss
  IdleWorkerIsOnline
  IdleWorkerIsHealthy
