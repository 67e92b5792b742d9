-------------------------- MODULE BookingPaymentProofs --------------------------
(***************************************************************************)
(* Proofs about BookingPayment, for any number of requests to cancel.      *)
(***************************************************************************)
EXTENDS BookingPayment, TLAPS

\* Only the request whose claim moved the booking out of confirmed asks for a refund,
\* and it asks once.
ClaimIsExclusive ==
  /\ \A c, d \in Cancels : cancel[c] = "refund" /\ cancel[d] = "refund" => c = d
  /\ refunds > 0 => \A c \in Cancels : cancel[c] # "refund"
  /\ booking \in {"pending", "confirmed"} =>
       refunds = 0 /\ \A c \in Cancels : cancel[c] # "refund"

\* The triggers leave no way to write refunded: a captured payment pins the booking to
\* paid, and a refunded payment wants it refunded first.
NoRefundedPayment == triggers => payment # "refunded"

RefundInv == TypeOK /\ ClaimIsExclusive /\ OneRefund

LEMMA ProcessSteps ==
  ASSUME NEW e \in Events, Process(e)
  PROVE  applyCaptured \/ applyFailed \/ applyRefund
BY DEF Process, Events

\* The state of a booking that was just created is well typed.
LEMMA InitTyped == Init => TypeOK
<1> SUFFICES ASSUME Init PROVE TypeOK
  OBVIOUS
<1>1. /\ cancel \in [Cancels -> {"idle", "claim", "cancel", "refund", "answered", "failed"}]
      /\ wantsRefund \in [Cancels -> BOOLEAN]
  BY DEF Init
<1>2. current_bookings \in 0 .. (GroupSize + OtherBookings) /\ refunds \in Nat
  BY DEF Init, GroupSize, OtherBookings
<1>3. QED
  BY <1>1, <1>2, Zenon DEF Init, TypeOK

\* Type correctness of the two tables, the provider and the requests.
THEOREM TypeCorrect == Spec => []TypeOK
<1>1. Init => TypeOK
  BY InitTyped
<1>2. TypeOK /\ [Next]_vars => TypeOK'
  <2> SUFFICES ASSUME TypeOK, [Next]_vars PROVE TypeOK'
    OBVIOUS
  <2> USE DEF TypeOK, schema, tables, provider, cancelling, webhooks
  <2>1. CASE createOrder
    BY <2>1 DEF createOrder
  <2>2. CASE OrderCreated
    BY <2>2 DEF OrderCreated
  <2>3. CASE CustomerPays
    BY <2>3 DEF CustomerPays
  <2>4. CASE verifyPayment
    BY <2>4 DEF verifyPayment
  <2>5. ASSUME NEW e \in Events, Deliver(e) PROVE TypeOK'
    BY <2>5 DEF Deliver
  <2>6. ASSUME NEW e \in Events, Enqueue(e) \/ CrashIngest(e) \/ GiveUp(e) PROVE TypeOK'
    BY <2>6 DEF Enqueue, enqueueWebhookEvent, CrashIngest, GiveUp
  <2>7. ASSUME NEW e \in Events, Process(e) PROVE TypeOK'
    <3>1. /\ booking' \in {booking, "confirmed"}
          /\ paymentStatus' \in {paymentStatus, "paid", "refunded"}
          /\ payment' \in {payment, "captured", "failed", "refunded"}
      BY <2>7, ProcessSteps DEF applyCaptured, applyFailed, applyRefund
    <3>2. QED
      BY <2>7, <3>1 DEF Process
  <2>8. ASSUME NEW c \in Cancels, ReadBooking(c) PROVE TypeOK'
    BY <2>8 DEF ReadBooking, Goto
  <2>9. ASSUME NEW c \in Cancels, ClaimCancellation(c) PROVE TypeOK'
    BY <2>9 DEF ClaimCancellation, Goto
  <2>10. ASSUME NEW c \in Cancels, initiateRefund(c) PROVE TypeOK'
    BY <2>10 DEF initiateRefund, Goto
  <2>11. ASSUME NEW c \in Cancels, cancelBooking(c) PROVE TypeOK'
    BY <2>11 DEF cancelBooking, Goto, GroupSize, OtherBookings
  <2>12. ASSUME NEW c \in Cancels, CancelFails(c) PROVE TypeOK'
    BY <2>12 DEF CancelFails, Goto
  <2>13. CASE UNCHANGED vars
    BY <2>13 DEF vars
  <2>14. QED
    BY <2>1, <2>2, <2>3, <2>4, <2>5, <2>6, <2>7, <2>8, <2>9, <2>10, <2>11, <2>12, <2>13
    DEF Next
<1>3. QED
  BY <1>1, <1>2, PTL DEF Spec

--------------------------------------------------------------------------------

\* One refund, whatever the number of requests and whichever of them die: the claim
\* moves the booking to a status that no step leads back from.
THEOREM RefundsAreSingle == Spec => []OneRefund
<1>1. Init => RefundInv
  BY InitTyped DEF Init, RefundInv, ClaimIsExclusive, OneRefund
<1>2. RefundInv /\ TypeOK' /\ [Next]_vars => RefundInv'
  <2> SUFFICES ASSUME RefundInv, TypeOK', [Next]_vars
               PROVE ClaimIsExclusive' /\ OneRefund'
    BY DEF RefundInv
  <2> USE DEF RefundInv, ClaimIsExclusive, OneRefund
  <2>1. ASSUME UNCHANGED <<refunds, cancel>>,
               booking' \in {"pending", "confirmed"} => booking \in {"pending", "confirmed"}
        PROVE ClaimIsExclusive' /\ OneRefund'
    BY <2>1
  <2>2. CASE createOrder \/ OrderCreated \/ CustomerPays \/ verifyPayment
    BY <2>1, <2>2 DEF createOrder, OrderCreated, CustomerPays, verifyPayment, tables,
       provider, cancelling
  <2>3. ASSUME NEW e \in Events, Deliver(e) \/ Enqueue(e) \/ CrashIngest(e) \/ GiveUp(e)
        PROVE ClaimIsExclusive' /\ OneRefund'
    BY <2>1, <2>3 DEF Deliver, Enqueue, enqueueWebhookEvent, CrashIngest, GiveUp, tables, provider, cancelling
  <2>4. ASSUME NEW e \in Events, Process(e) PROVE ClaimIsExclusive' /\ OneRefund'
    <3>1. booking' = booking \/ booking = "pending"
      BY <2>4, ProcessSteps DEF applyCaptured, applyFailed, applyRefund
    <3>2. QED
      BY <2>1, <2>4, <3>1 DEF Process, provider, cancelling
  <2>5. ASSUME NEW c \in Cancels, ReadBooking(c) \/ cancelBooking(c) \/ CancelFails(c)
        PROVE ClaimIsExclusive' /\ OneRefund'
    <3>1. \A d \in Cancels : cancel'[d] = "refund" => cancel[d] = "refund"
      BY <2>5 DEF ReadBooking, cancelBooking, CancelFails, Goto, TypeOK
    <3>2. refunds' = refunds /\ booking' \in {booking, "cancelled"}
      BY <2>5 DEF ReadBooking, cancelBooking, CancelFails, tables, provider
    <3>3. QED
      BY <3>1, <3>2
  <2>6. ASSUME NEW c \in Cancels, ClaimCancellation(c)
        PROVE ClaimIsExclusive' /\ OneRefund'
    <3>1. refunds' = refunds
      BY <2>6 DEF ClaimCancellation, provider
    <3>2. CASE Claimable /\ admitsPending
      <4>1. booking = "confirmed" /\ booking' = "cancellation_pending"
        BY <2>6, <3>2 DEF ClaimCancellation, Claimable
      <4>2. \A d \in Cancels : cancel'[d] = "refund" => d = c
        BY <2>6, <4>1, <3>2 DEF ClaimCancellation, Goto, TypeOK
      <4>3. QED
        BY <3>1, <4>1, <4>2
    <3>3. CASE ~(Claimable /\ admitsPending)
      <4>1. booking' = booking
        BY <2>6, <3>3 DEF ClaimCancellation
      <4>2. \A d \in Cancels : cancel'[d] = "refund" => cancel[d] = "refund"
        BY <2>6, <3>3 DEF ClaimCancellation, Goto, TypeOK
      <4>3. QED
        BY <3>1, <4>1, <4>2
    <3>4. QED
      BY <3>2, <3>3
  <2>7. ASSUME NEW c \in Cancels, initiateRefund(c) PROVE ClaimIsExclusive' /\ OneRefund'
    <3>1. /\ cancel[c] = "refund"
          /\ refunds = 0
          /\ refunds' \in {0, 1}
          /\ booking' = booking
          /\ booking \notin {"pending", "confirmed"}
      BY <2>7 DEF initiateRefund, tables, TypeOK
    <3>2. \A d \in Cancels : cancel'[d] # "refund"
      BY <2>7, <3>1 DEF initiateRefund, Goto, TypeOK
    <3>3. QED
      BY <3>1, <3>2
  <2>8. CASE UNCHANGED vars
    BY <2>1, <2>8 DEF vars, tables, provider, cancelling
  <2>9. QED
    BY <2>2, <2>3, <2>4, <2>5, <2>6, <2>7, <2>8 DEF Next
<1>3. RefundInv => OneRefund
  BY DEF RefundInv
<1>4. QED
  BY <1>1, <1>2, <1>3, TypeCorrect, PTL DEF Spec

--------------------------------------------------------------------------------

\* The places go back exactly when the booking becomes cancelled, however many requests
\* found it open before they had the lock.
THEOREM PlacesGoBackOnce == Spec => []PlacesReleasedOnce
<1> USE DEF PlacesReleasedOnce, GroupSize, OtherBookings
<1>1. Init => PlacesReleasedOnce
  BY DEF Init
<1>2. PlacesReleasedOnce /\ [Next]_vars => PlacesReleasedOnce'
  <2> SUFFICES ASSUME PlacesReleasedOnce, [Next]_vars PROVE PlacesReleasedOnce'
    OBVIOUS
  <2>1. ASSUME UNCHANGED current_bookings,
               booking' = booking \/ (booking # "cancelled" /\ booking' # "cancelled")
        PROVE PlacesReleasedOnce'
    BY <2>1
  <2>2. CASE createOrder \/ OrderCreated \/ CustomerPays \/ verifyPayment
    BY <2>1, <2>2 DEF createOrder, OrderCreated, CustomerPays, verifyPayment, tables
  <2>3. ASSUME NEW e \in Events, Deliver(e) \/ Enqueue(e) \/ CrashIngest(e) \/ GiveUp(e)
        PROVE PlacesReleasedOnce'
    BY <2>1, <2>3 DEF Deliver, Enqueue, enqueueWebhookEvent, CrashIngest, GiveUp, tables
  <2>4. ASSUME NEW e \in Events, Process(e) PROVE PlacesReleasedOnce'
    <3>1. booking' = booking \/ (booking = "pending" /\ booking' = "confirmed")
      BY <2>4, ProcessSteps DEF applyCaptured, applyFailed, applyRefund
    <3>2. QED
      BY <2>1, <2>4, <3>1 DEF Process
  <2>5. ASSUME NEW c \in Cancels, ReadBooking(c) \/ initiateRefund(c) \/ CancelFails(c)
        PROVE PlacesReleasedOnce'
    BY <2>1, <2>5 DEF ReadBooking, initiateRefund, CancelFails, tables
  <2>6. ASSUME NEW c \in Cancels, ClaimCancellation(c) PROVE PlacesReleasedOnce'
    BY <2>1, <2>6 DEF ClaimCancellation, Claimable
  <2>7. ASSUME NEW c \in Cancels, cancelBooking(c) PROVE PlacesReleasedOnce'
    BY <2>7 DEF cancelBooking, StillOpen
  <2>8. CASE UNCHANGED vars
    BY <2>1, <2>8 DEF vars, tables
  <2>9. QED
    BY <2>2, <2>3, <2>4, <2>5, <2>6, <2>7, <2>8 DEF Next
<1>3. QED
  BY <1>1, <1>2, PTL DEF Spec

--------------------------------------------------------------------------------

\* With the triggers installed the two tables agree after every transaction, in
\* whatever order events, verification and cancellations write them.
THEOREM TriggersKeepAgreement == Spec => []TablesAgree
<1> DEFINE AgreeInv == TablesAgree /\ NoRefundedPayment
<1> USE DEF TablesAgree, NoRefundedPayment
<1>1. Init => AgreeInv
  BY DEF Init
<1>2. AgreeInv /\ [Next]_vars => AgreeInv'
  <2> SUFFICES ASSUME AgreeInv, [Next]_vars PROVE AgreeInv'
    OBVIOUS
  <2>1. ASSUME UNCHANGED <<triggers, payment, paymentStatus>> PROVE AgreeInv'
    BY <2>1
  <2>2. CASE createOrder \/ OrderCreated \/ CustomerPays
    BY <2>1, <2>2 DEF createOrder, OrderCreated, CustomerPays, schema, tables
  <2>3. CASE verifyPayment
    BY <2>3 DEF verifyPayment
  <2>4. ASSUME NEW e \in Events, Deliver(e) \/ Enqueue(e) \/ CrashIngest(e) \/ GiveUp(e)
        PROVE AgreeInv'
    BY <2>1, <2>4 DEF Deliver, Enqueue, enqueueWebhookEvent, CrashIngest, GiveUp, schema, tables
  <2>5. ASSUME NEW e \in Events, Process(e) PROVE AgreeInv'
    <3>1. triggers' = triggers
      BY <2>5 DEF Process, schema
    <3>2. CASE applyCaptured
      BY <3>1, <3>2 DEF applyCaptured, Captures, PaymentAllowed
    <3>3. CASE applyFailed
      BY <3>1, <3>3 DEF applyFailed
    <3>4. CASE applyRefund
      BY <3>1, <3>4 DEF applyRefund, PaymentAllowed, BookingAllowed
    <3>5. QED
      BY <2>5, <3>2, <3>3, <3>4, ProcessSteps
  <2>6. ASSUME NEW c \in Cancels,
               \/ ReadBooking(c) \/ ClaimCancellation(c) \/ initiateRefund(c)
               \/ cancelBooking(c) \/ CancelFails(c)
        PROVE AgreeInv'
    BY <2>1, <2>6 DEF ReadBooking, ClaimCancellation, initiateRefund, cancelBooking,
       CancelFails, schema, tables
  <2>7. CASE UNCHANGED vars
    BY <2>1, <2>7 DEF vars, schema, tables
  <2>8. QED
    BY <2>2, <2>3, <2>4, <2>5, <2>6, <2>7 DEF Next
<1>3. QED
  BY <1>1, <1>2, PTL DEF Spec

\* No order of events moves a payment back.
THEOREM PaymentsMoveForward == Spec => PaymentMovesForward
<1> DEFINE Forward ==
      <<payment, payment'>> \in {<<"created", "captured">>, <<"created", "failed">>,
                                 <<"captured", "refunded">>}
<1>1. [Next]_vars => [payment' # payment => Forward]_vars
  <2> SUFFICES ASSUME Next PROVE payment' = payment \/ Forward
    OBVIOUS
  <2>1. CASE createOrder \/ OrderCreated \/ CustomerPays
    BY <2>1 DEF createOrder, OrderCreated, CustomerPays, tables
  <2>2. CASE verifyPayment
    BY <2>2 DEF verifyPayment
  <2>3. ASSUME NEW e \in Events, Deliver(e) \/ Enqueue(e) \/ CrashIngest(e) \/ GiveUp(e)
        PROVE payment' = payment
    BY <2>3 DEF Deliver, Enqueue, enqueueWebhookEvent, CrashIngest, GiveUp, tables
  <2>4. ASSUME NEW e \in Events, Process(e) PROVE payment' = payment \/ Forward
    BY <2>4, ProcessSteps DEF applyCaptured, applyFailed, applyRefund, Captures
  <2>5. ASSUME NEW c \in Cancels,
               \/ ReadBooking(c) \/ ClaimCancellation(c) \/ initiateRefund(c)
               \/ cancelBooking(c) \/ CancelFails(c)
        PROVE payment' = payment
    BY <2>5 DEF ReadBooking, ClaimCancellation, initiateRefund, cancelBooking,
       CancelFails, tables
  <2>6. QED
    BY <2>1, <2>2, <2>3, <2>4, <2>5 DEF Next
<1>2. QED
  BY <1>1, PTL DEF Spec, PaymentMovesForward

================================================================================
