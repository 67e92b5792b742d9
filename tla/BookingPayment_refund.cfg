\* Is a paid booking that is cancelled refunded?
SPECIFICATION Spec
CONSTANTS
  c1 = c1
  c2 = c2
  c3 = c3
  Cancels = {c1, c2}
INVARIANTS PaidCancelIsRefunded
CHECK_DEADLOCK FALSE
