\* A request and its concurrent duplicate, nothing fails: is it executed once?
SPECIFICATION Spec
CONSTANTS
  r1 = r1
  r2 = r2
  Requests = {r1, r2}
  Free = Free
INVARIANTS ExecutedOnce
CHECK_DEADLOCK FALSE
