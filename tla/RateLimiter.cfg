CONSTANTS
  Keys = {k1}
  Cost = 2
  Full = 4
  TTL = 4
  SweepDelay = 1
  MaxTime = 12
  MaxChecking = 2
SPECIFICATION Spec
INVARIANTS TypeOK RateBound IdleBucketsGo
PROPERTIES RefinesBucket
CHECK_DEADLOCK FALSE
