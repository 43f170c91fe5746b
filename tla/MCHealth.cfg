SPECIFICATION HealthFairSpec
CONSTANTS
  a = a
  b = b
  Targets <- MCTargets
  Concurrency = 2
  Count = 2
  Threshold = 1
INVARIANTS HealthTypeOK ReturnIsComplete HealthIsFresh InterruptIsNoError
PROPERTIES PoolReturns InterruptEnds
CHECK_DEADLOCK FALSE
