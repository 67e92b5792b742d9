---------------------------- MODULE MCBookingPayment ----------------------------
(* Three interchangeable requests to cancel. *)
EXTENDS BookingPayment, TLC

CONSTANTS c1, c2, c3

CancelSymmetry == Permutations(Cancels)

================================================================================
