\* Three requests with one key; three requests at a limit of ten, of which 0, 5 or 8 slots are lost already; two reconnects
\* before the circuit opens; four logins with a limit of two; one authenticated request over three half seconds; two
\* requests over a TTL of two ticks; three requests with a global limit of two and one booking at a time.
SPECIFICATION ServiceSpec
CONSTANTS
  Requests = {r1, r2, r3}
  Free = Free
  maxConcurrentRequests = 10
  EarlierLeaks = {0, 5, 8}
  RedisClients = 3
  MAX_RECONNECT_ATTEMPTS = 2
  Cooldown = 4
  MaxDelay = 2
  ConnectTimeout = 1
  Workers = {w1}
  staleAfter = 1
  Logins = {l1, l2, l3, l4}
  MAX_FAILED_LOGINS = 2
  TokenRequests = {q1}
  MaxNow = 3
  MaxRevocations = 1
  StatusRequests = {q1, q2}
  UserActiveTTL = 2
  Arrivals = {q1, q2, q3}
  Nobody = Nobody
  MAX_CONCURRENT_GLOBAL = 2
  MAX_CONCURRENT_BOOKING = 1
  DB_HEALTH_TTL = 1
INVARIANTS ServiceTypeOK ReplaysAreHonest OneAtATime SlotsCounted PoolOutlivesClients StormBounded ReadyIsTrue LockIsEarned RevokedIsRejected
PROPERTIES ShutdownEnds ActiveFlagIsFresh
CHECK_DEADLOCK FALSE
