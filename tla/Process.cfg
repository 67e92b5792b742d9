\* One worker with two polls that may overlap, wakeups, drain and stop; two regions, first boots and later ones, with and
\* without missed renewals, one fault.
SPECIFICATION ProcessSpec
CONSTANTS
  Polls = {p1, p2}
  BatchSize = 1
  RateLimitEnabled = TRUE
  InitialConcurrency = 2
  MinConcurrency = 1
  MaxConcurrency = 2
  FailureThreshold = 2
  ProbeCount = 2
  GainEvery = 2
  RateLimitSpike = 2
  Regions = {eu, us}
  NoRegion = NoRegion
  eu = eu
  us = us
  Ticks = {t1, t2, t3}
  t1 = t1
  t2 = t2
  t3 = t3
  RegionOf <- MCRegionOf
  MaxFaults = 1
INVARIANTS ProcessTypeOK LoopAlive SinglePrimary
PROPERTIES StopReturns EpochFencesHolders FailsOver
CHECK_DEADLOCK FALSE
