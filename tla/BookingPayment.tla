----------------------------- MODULE BookingPayment -----------------------------
(***************************************************************************)
(* One booking, its payment and its place on the trip                      *)
(* (planbuddy_v9/controllers: paymentController, bookingController,        *)
(* DbService cancelBooking, razorpayWebhookController), under the checks   *)
(* and triggers of the migrations.                                         *)
(*                                                                         *)
(* External, and modelled from how the controllers use them: Razorpay, the *)
(* customer, RefundService, processPaymentTransaction, the queue and the   *)
(* worker that applies webhook events.                                     *)
(***************************************************************************)
EXTENDS Integers

CONSTANTS Cancels        \* requests to cancel the booking, each with a key of its own

\* What Razorpay tells: payment.captured or .authorized, payment.failed,
\* refund.processed or .paid.
Events == {"captured", "failed", "refunded"}

\* Places on the trip: those of this booking, and those of the others.
GroupSize == 1
OtherBookings == 1

VARIABLES
  \* triggers: migration 130 is installed (apply-all-migrations goes on when one
  \* fails); admitsPending: the CHECK on bookings.status lists cancellation_pending;
  \* admitsUnused: the database takes a statement that leaves a parameter unused;
  \* numbers: NUMERIC columns arrive as numbers (node-postgres gives strings unless a
  \* type parser is installed)
  triggers, admitsPending, admitsUnused, numbers,
  booking, paymentStatus,      \* bookings.status, bookings.payment_status
  payment,                     \* payments.status
  current_bookings,            \* of the trip
  order,                       \* where createOrder is
  paid,                        \* at Razorpay: the customer has paid
  refunds,                     \* at Razorpay: refunds initiated
  cancel, wantsRefund,         \* where each cancelBooking is, and what it read
  stored, ingesting, acked,    \* webhook_events; handlers before the enqueue; 200 sent
  jobs, executed               \* webhook-events queue, webhook_event_execution_log

schema == <<triggers, admitsPending, admitsUnused, numbers>>
tables == <<booking, paymentStatus, payment, current_bookings>>
provider == <<order, paid, refunds>>
cancelling == <<cancel, wantsRefund>>
webhooks == <<stored, ingesting, acked, jobs, executed>>
vars == <<schema, tables, provider, cancelling, webhooks>>

TypeOK ==
  /\ triggers \in BOOLEAN
  /\ admitsPending \in BOOLEAN
  /\ admitsUnused \in BOOLEAN
  /\ numbers \in BOOLEAN
  /\ booking \in {"pending", "confirmed", "cancellation_pending", "cancelled"}
  /\ paymentStatus \in {"unpaid", "paid", "refunded"}
  /\ payment \in {"created", "captured", "failed", "refunded"}
  /\ current_bookings \in 0 .. (GroupSize + OtherBookings)
  /\ order \in {"none", "checked", "created"}
  /\ paid \in BOOLEAN
  /\ refunds \in Nat
  /\ cancel \in [Cancels -> {"idle", "claim", "cancel", "refund", "answered", "failed"}]
  /\ wantsRefund \in [Cancels -> BOOLEAN]
  /\ stored \subseteq Events
  /\ ingesting \subseteq stored
  /\ acked \subseteq stored
  /\ jobs \subseteq stored
  /\ executed \subseteq stored
  /\ ~admitsPending => booking # "cancellation_pending"

Init ==
  /\ triggers \in BOOLEAN
  /\ admitsPending \in BOOLEAN
  /\ admitsUnused \in BOOLEAN
  /\ numbers \in BOOLEAN
  /\ booking = "pending"
  /\ paymentStatus = "unpaid"
  /\ payment = "created"
  /\ current_bookings = GroupSize + OtherBookings
  /\ order = "none"
  /\ paid = FALSE
  /\ refunds = 0
  /\ cancel = [c \in Cancels |-> "idle"]
  /\ wantsRefund = [c \in Cancels |-> FALSE]
  /\ stored = {}
  /\ ingesting = {}
  /\ acked = {}
  /\ jobs = {}
  /\ executed = {}

--------------------------------------------------------------------------------
(* The triggers of migration 130: what an UPDATE may write.  A statement that a  *)
(* trigger or a CHECK refuses aborts its transaction.                            *)

\* Fault: captures are not compared with the booking.
PaymentAllowedUnlessCapture(new) ==
  triggers /\ new = "refunded" => paymentStatus = "refunded"

\* enforce_payment_state_invariance
PaymentAllowed(new) ==
  triggers => /\ new = "captured" => paymentStatus = "paid"
              /\ new = "refunded" => paymentStatus = "refunded"

\* enforce_booking_payment_invariance, after payments has got the value pay
BookingAllowed(pay, new) == triggers /\ pay = "captured" => new = "paid"

--------------------------------------------------------------------------------
(* paymentController *)

\* createOrder reads the booking without a lock, and compares total_amount with
\* price * group_size by !==, which a string never passes ..
createOrder ==
  /\ order = "none"
  /\ numbers
  /\ booking = "pending"
  /\ paymentStatus = "unpaid"
  /\ order' = "checked"
  /\ UNCHANGED <<schema, tables, paid, refunds, cancelling, webhooks>>

\* .. and whatever became of it meanwhile, the order exists and is stored.
OrderCreated ==
  /\ order = "checked"
  /\ order' \in {"created", "none"}
  /\ UNCHANGED <<schema, tables, paid, refunds, cancelling, webhooks>>

CustomerPays ==
  /\ order = "created"
  /\ ~paid
  /\ paid' = TRUE
  /\ UNCHANGED <<schema, tables, order, refunds, cancelling, webhooks>>

\* processPaymentTransaction: both rows in one transaction, the booking first.
verifyPayment ==
  /\ paid
  /\ booking = "pending"
  /\ payment = "created"
  /\ booking' = "confirmed"
  /\ paymentStatus' = "paid"
  /\ payment' = "captured"
  /\ UNCHANGED <<schema, current_bookings, provider, cancelling, webhooks>>

--------------------------------------------------------------------------------
(* handleRazorpayWebhook *)

Happened(e) ==
  CASE e = "captured" -> paid
    [] e = "refunded" -> refunds > 0
    [] OTHER          -> order = "created"

\* Razorpay delivers an event again and again until it gets a 200.  The INSERT either
\* stores it, or finds it stored and answers at once.
Deliver(e) ==
  /\ Happened(e)
  /\ e \notin acked
  /\ IF e \in stored
       THEN acked' = acked \cup {e} /\ UNCHANGED <<stored, ingesting>>
       ELSE /\ stored' = stored \cup {e}
            /\ ingesting' = ingesting \cup {e}
            /\ UNCHANGED acked
  /\ UNCHANGED <<schema, tables, provider, cancelling, jobs, executed>>

\* The job is there, or the error was swallowed; a job with the same id is not added twice.
enqueueWebhookEvent(e) == jobs' = jobs \cup {e} \/ UNCHANGED jobs

\* The answer is 200 all the same.
Enqueue(e) ==
  /\ e \in ingesting
  /\ ingesting' = ingesting \ {e}
  /\ acked' = acked \cup {e}
  /\ enqueueWebhookEvent(e)
  /\ UNCHANGED <<schema, tables, provider, cancelling, stored, executed>>

\* The process dies between the INSERT and the enqueue.
CrashIngest(e) ==
  /\ e \in ingesting
  /\ ingesting' = ingesting \ {e}
  /\ UNCHANGED <<schema, tables, provider, cancelling, stored, acked, jobs, executed>>

--------------------------------------------------------------------------------
(* applyPaymentEvent, applyRefundEvent: one transaction each, under the lock of  *)
(* the payment row.                                                              *)

\* Fault: the update of payments does not look at the status it leaves.
CapturesAny == TRUE
Captures == payment = "created"

applyCaptured ==
  /\ Captures => PaymentAllowed("captured")
  /\ payment' = IF Captures THEN "captured" ELSE payment
  /\ IF booking = "pending"
       THEN booking' = "confirmed" /\ paymentStatus' = "paid"
       ELSE UNCHANGED <<booking, paymentStatus>>

applyFailed ==
  /\ payment' = IF payment = "created" THEN "failed" ELSE payment
  /\ UNCHANGED <<booking, paymentStatus>>

\* The update of bookings is given refundId, which it does not use: PostgreSQL cannot
\* tell the type of such a parameter and refuses the statement.
applyRefund ==
  /\ admitsUnused
  /\ payment = "captured" => PaymentAllowed("refunded")
  /\ payment' = IF payment = "captured" THEN "refunded" ELSE payment
  /\ BookingAllowed(payment', "refunded")
  /\ paymentStatus' = "refunded"
  /\ UNCHANGED booking

\* The worker logs the event as executed and applies it, once.
Process(e) ==
  /\ e \in jobs
  /\ e \notin executed
  /\ CASE e = "captured" -> applyCaptured
       [] e = "failed"   -> applyFailed
       [] OTHER          -> applyRefund
  /\ executed' = executed \cup {e}
  /\ jobs' = jobs \ {e}
  /\ UNCHANGED <<schema, current_bookings, provider, cancelling, stored, ingesting, acked>>

\* A job whose transaction keeps failing is given up.
GiveUp(e) ==
  /\ e \in jobs
  /\ jobs' = jobs \ {e}
  /\ UNCHANGED <<schema, tables, provider, cancelling, stored, ingesting, acked, executed>>

--------------------------------------------------------------------------------
(* bookingController.cancelBooking *)

Goto(c, p) == cancel' = [cancel EXCEPT ![c] = p]

\* The unlocked read that chooses between refund and plain cancellation.
ReadBooking(c) ==
  /\ cancel[c] = "idle"
  /\ LET refund == booking = "confirmed" /\ paymentStatus = "paid"
     IN  /\ wantsRefund' = [wantsRefund EXCEPT ![c] = refund]
         /\ Goto(c, IF refund THEN "claim" ELSE "cancel")
  /\ UNCHANGED <<schema, tables, provider, webhooks>>

\* Fault: the claim does not look at the status it leaves.
ClaimableOnceRead == TRUE
Claimable == booking = "confirmed" /\ paymentStatus = "paid"

\* UPDATE .. SET status = 'cancellation_pending': refused by a CHECK that does not
\* list that status, or already claimed, or claimed.
ClaimCancellation(c) ==
  /\ cancel[c] = "claim"
  /\ CASE ~Claimable     -> Goto(c, "answered") /\ UNCHANGED booking
       [] ~admitsPending -> Goto(c, "failed") /\ UNCHANGED booking
       [] OTHER          -> Goto(c, "refund") /\ booking' = "cancellation_pending"
  /\ UNCHANGED <<schema, paymentStatus, payment, current_bookings, provider,
                 wantsRefund, webhooks>>

\* RefundService.initiateRefund: it threw, before or after Razorpay took the refund, and
\* the booking stays as it is; or the refund is under way.
initiateRefund(c) ==
  /\ cancel[c] = "refund"
  /\ \/ refunds' = refunds + 1 /\ (Goto(c, "answered") \/ Goto(c, "failed"))
     \/ UNCHANGED refunds /\ Goto(c, "failed")
  /\ UNCHANGED <<schema, tables, order, paid, wantsRefund, webhooks>>

\* Fault: the status read before the lock is trusted.
StillOpenBlind == TRUE
StillOpen == booking # "cancelled"

\* DbService.cancelBooking: the row is locked, its status read again, and the places
\* are given back in the same transaction.
cancelBooking(c) ==
  /\ cancel[c] = "cancel"
  /\ IF StillOpen
       THEN /\ BookingAllowed(payment, paymentStatus)
            /\ booking' = "cancelled"
            /\ current_bookings' = IF current_bookings > GroupSize
                                     THEN current_bookings - GroupSize ELSE 0
       ELSE UNCHANGED <<booking, current_bookings>>
  /\ Goto(c, "answered")
  /\ UNCHANGED <<schema, paymentStatus, payment, provider, wantsRefund, webhooks>>

\* The process dies, or a statement throws.
CancelFails(c) ==
  /\ cancel[c] \in {"claim", "cancel", "refund"}
  /\ Goto(c, "failed")
  /\ UNCHANGED <<schema, tables, provider, wantsRefund, webhooks>>

Next ==
  \/ createOrder
  \/ OrderCreated
  \/ CustomerPays
  \/ verifyPayment
  \/ \E e \in Events : \/ Deliver(e)
                       \/ Enqueue(e)
                       \/ CrashIngest(e)
                       \/ Process(e)
                       \/ GiveUp(e)
  \/ \E c \in Cancels : \/ ReadBooking(c)
                        \/ ClaimCancellation(c)
                        \/ initiateRefund(c)
                        \/ cancelBooking(c)
                        \/ CancelFails(c)

Spec == Init /\ [][Next]_vars

--------------------------------------------------------------------------------
(* Properties *)

\* However many requests cancel the booking, and whichever of them die on the way, one
\* refund is initiated: the claim hands the booking to one of them.
OneRefund == refunds <= 1

\* The places of the booking are given back when it is cancelled, and only once:
\* "no double decrement".
PlacesReleasedOnce ==
  current_bookings = OtherBookings + (IF booking = "cancelled" THEN 0 ELSE GroupSize)

\* "WHERE clauses enforce valid transitions": whatever the order in which events and
\* verification arrive, a payment moves created -> captured -> refunded or created ->
\* failed, and never back.
PaymentMovesForward ==
  [][payment' # payment =>
       <<payment, payment'>> \in {<<"created", "captured">>, <<"created", "failed">>,
                                  <<"captured", "refunded">>}]_vars

\* "payments.captured -> bookings.payment_status='paid', payments.refunded ->
\* bookings.payment_status='refunded'", as long as the triggers of migration 130 guard
\* the two tables.
TablesAgree ==
  triggers => /\ payment = "captured" => paymentStatus = "paid"
              /\ payment = "refunded" => paymentStatus = "refunded"

\* "confirmed -> cancelled [user cancels + refund completes]": a booking that was paid
\* for is not cancelled without a refund.  The controller decides by an unlocked read:
\* a payment that confirms the booking after that read, or a second request that reads
\* cancellation_pending, ends in the plain cancellation.
PaidCancelIsRefunded == booking = "cancelled" /\ paymentStatus = "paid" => refunds > 0

================================================================================
