\* Three requests, a global limit of two and one booking at a time: are the limits kept?
SPECIFICATION Spec
CONSTANTS
  Arrivals = {q1, q2, q3}
  Nobody = Nobody
  MAX_CONCURRENT_GLOBAL = 2
  MAX_CONCURRENT_BOOKING = 1
  DB_HEALTH_TTL = 1
INVARIANT LoadBounded
CHECK_DEADLOCK FALSE
