\* Two processes of the cluster, a limit of two requests, one reconnect before the client gives up.
SPECIFICATION Spec
CONSTANTS
  Processes = {p1, p2}
  max = 2
  MaxRetries = 1
INVARIANT OneBudget
CHECK_DEADLOCK FALSE
