\* Two jobs on two shards and two workers that poll both, batches of two, one fault; crashed workers are restarted.
SPECIFICATION FairSpec
CONSTANTS
  j1 = j1
  j2 = j2
  w1 = w1
  w2 = w2
  Jobs = {j1, j2}
  Workers = {w1, w2}
  NoWorker = NoWorker
  HashOf <- SplitHash
  WorkerIndex <- SharedIndex
  TotalShards = 2
  TotalWorkers = 1
  MaxAttempts = 2
  BatchSize = 2
  MaxFaults = 1
INVARIANTS NoDoubleClaim RetryBudget
PROPERTIES ImplementsJobLease EveryJobSettles
CHECK_DEADLOCK FALSE
