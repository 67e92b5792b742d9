\* Two events of one aggregate, two relays with batches of two and one fault; three pool clients and three faults; two
\* calls on one connection; three callers of an API with thresholds of three failures and two successes.
SPECIFICATION RuntimeSpec
CONSTANTS
  Events = {e1, e2}
  Relays = {r1, r2}
  BatchSize = 2
  MaxAttempts = 2
  MaxOutboxFaults = 1
  Clients = {c1, c2, c3}
  None = None
  MaxLinkFaults = 3
  Calls = {q1, q2}
  Connections = {c1}
  MAX_RETRIES = 3
  Callers = {u1, u2, u3}
  failureThreshold = 3
  successThreshold = 2
INVARIANTS RuntimeTypeOK FirstClaimsInOrder OneConnection ClientsComeBackClean RetryIsSafe
PROPERTIES EveryEventSettles Reconnects CallsReturn CircuitRecovers
CHECK_DEADLOCK FALSE
