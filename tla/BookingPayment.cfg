\* Three cancellations of one booking against every order of payment events, with and
\* without the triggers of migration 130 and the status cancellation_pending.
SPECIFICATION Spec
CONSTANTS
  c1 = c1
  c2 = c2
  c3 = c3
  Cancels = {c1, c2, c3}
SYMMETRY CancelSymmetry
INVARIANTS OneRefund PlacesReleasedOnce TablesAgree
PROPERTIES PaymentMovesForward
CHECK_DEADLOCK FALSE
