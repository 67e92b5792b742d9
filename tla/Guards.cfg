\* Two workers and a bucket of two tokens over five seconds; three executions of one operation; three conflicts with a limit
\* of two; two processes with a limit of two and one reconnect; three requests about one account over three ticks, one wrong
\* code allowed; two deploys of four migrations.
SPECIFICATION GuardsSpec
CONSTANTS
  Workers = {w1, w2}
  capacity = 2
  refill_rate = 1
  ThrottleLimit = 1
  ThrottlePause = 2
  MaxNow = 5
  Attempts = {a1, a2, a3}
  Conflicts = {x1, x2, x3}
  CONFLICT_LIMIT = 2
  Processes = {p1, p2}
  max = 2
  MaxRetries = 1
  CredentialRequests = {q1, q2, q3}
  CredentialMaxNow = 3
  MaxAttempts = 1
  Deploys = {d1, d2}
  FileCount = 4
  Silent = {2}
  Tailed = {4}
  StandsFor <- RepeatsFirst
INVARIANTS GuardsTypeOK GrantsBounded ExactlyOnce EveryWindowEnds RefreshAfterChange ExitZeroIsComplete
CHECK_DEADLOCK FALSE
