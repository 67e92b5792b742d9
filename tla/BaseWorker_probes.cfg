\* One poll at a time, no rate limit: does a half-open circuit ever decide?
SPECIFICATION Spec
CONSTANTS
  Polls = {p1}
  BatchSize = 1
  RateLimitEnabled = FALSE
  InitialConcurrency = 1
  MinConcurrency = 1
  MaxConcurrency = 1
  FailureThreshold = 1
  ProbeCount = 1
  GainEvery = 2
  RateLimitSpike = 3
INVARIANTS ProbesDecide
CHECK_DEADLOCK FALSE
