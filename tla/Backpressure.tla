---------------------------- MODULE Backpressure ----------------------------
(***************************************************************************)
(* The request counter of planbuddy_v9/middleware/backpressure.js.  The    *)
(* middleware counts a request in, refuses it by its tier's threshold, and *)
(* counts it out on the response's 'finish' or, when the client hangs up   *)
(* before the handler has ended the response, on 'close'.                  *)
(*                                                                         *)
(* The requests of a model are a few of many: Init chooses how much of the *)
(* counter earlier ones have used up for good.  Paths that bypass the      *)
(* middleware do not touch its state and are left out.                     *)
(***************************************************************************)
EXTENDS Integers, FiniteSets, FiniteSetsExt

CONSTANTS Requests,
          maxConcurrentRequests,
          EarlierLeaks            \* values of the counter that earlier requests left behind

BackpressureAssumption == maxConcurrentRequests \in Nat /\ EarlierLeaks \subseteq 0..(maxConcurrentRequests - 1)

VARIABLES activeRequests,
          request,    \* "idle", "handling", "answered" (end() called, bytes not yet handed over), "done"
          hungUp,     \* requests whose client left while the handler was running
          leaked      \* ghost: requests that were counted in and are never counted out

bpVars == << activeRequests, request, hungUp, leaked >>

BackpressureInit ==
    /\ leaked \in EarlierLeaks
    /\ activeRequests = leaked
    /\ request = [r \in Requests |-> "idle"]
    /\ hungUp = {}

-----------------------------------------------------------------------------
(* Admission.  load is activeRequests / maxConcurrentRequests, compared    *)
(* with 0.7, 0.9 and 0.98.                                                 *)

AtLeast(active, percent) == 100 * active >= percent * maxConcurrentRequests

\* Fault: money endpoints are never refused for load.
AllowsMoney(tier, active, dbCritical, lagging) ==
    CASE tier = "LOW"    -> ~AtLeast(active, 70) /\ ~dbCritical /\ ~lagging
      [] tier = "MEDIUM" -> ~AtLeast(active, 90) /\ ~dbCritical
      [] tier = "HIGH"   -> ~dbCritical

Allows(tier, active, dbCritical, lagging) ==
    /\ ~dbCritical
    /\ CASE tier = "LOW"    -> ~AtLeast(active, 70) /\ ~lagging
         [] tier = "MEDIUM" -> ~AtLeast(active, 90)
         [] tier = "HIGH"   -> ~AtLeast(active, 98)

\* A refused request is counted in and out again within the same call.
backpressureMiddleware(r) ==
    /\ request[r] = "idle"
    /\ \E tier \in {"LOW", "MEDIUM", "HIGH"}, dbCritical, lagging \in BOOLEAN :
           IF Allows(tier, activeRequests + 1, dbCritical, lagging)
           THEN /\ activeRequests' = activeRequests + 1
                /\ request' = [request EXCEPT ![r] = "handling"]
           ELSE /\ request' = [request EXCEPT ![r] = "done"]
                /\ UNCHANGED activeRequests
    /\ UNCHANGED << hungUp, leaked >>

-----------------------------------------------------------------------------
(* The response.                                                           *)

\* A response whose client is gone emits no 'finish'.
HandlerEnds(r) ==
    /\ request[r] = "handling"
    /\ request' = [request EXCEPT ![r] = IF r \in hungUp THEN "done" ELSE "answered"]
    /\ UNCHANGED << activeRequests, hungUp, leaked >>

\* Fault: 'finish' does not count the request out.
FinishForgets(r) ==
    /\ request[r] = "answered"
    /\ request' = [request EXCEPT ![r] = "done"]
    /\ UNCHANGED << activeRequests, hungUp, leaked >>

onFinish(r) ==
    /\ request[r] = "answered"
    /\ request' = [request EXCEPT ![r] = "done"]
    /\ activeRequests' = Max({0, activeRequests - 1})
    /\ UNCHANGED << hungUp, leaked >>

\* The sockets of the requests in rs close: 'close' counts a request out only while its response is not ended.
onClose(rs) ==
    LET unended == {r \in rs : request[r] = "handling" /\ r \notin hungUp}
        ended == {r \in rs : request[r] = "answered"}
    IN /\ activeRequests' = Max({0, activeRequests - Cardinality(unended)})
       /\ hungUp' = hungUp \union unended
       /\ leaked' = leaked + Cardinality(ended)
       /\ request' = [r \in Requests |-> IF r \in ended THEN "done" ELSE request[r]]

-----------------------------------------------------------------------------
BackpressureTypeOK ==
    /\ activeRequests \in 0..(maxConcurrentRequests - 1)
    /\ request \in [Requests -> {"idle", "handling", "answered", "done"}]
    /\ hungUp \subseteq Requests
    /\ leaked \in Nat

\* The counter equals the admitted requests whose client still waits, plus the leaked ones, in whatever order
\* responses end, bytes are flushed and clients hang up: nothing is counted out twice, and max(0, ...) never hides it.
SlotsCounted ==
    activeRequests = leaked + Cardinality({r \in Requests : \/ request[r] = "answered"
                                                            \/ request[r] = "handling" /\ r \notin hungUp})
=============================================================================
