---------------------------- MODULE CircuitBreaker ----------------------------
(***************************************************************************)
(* The circuit breaker around calls of an external API                     *)
(* (planbuddy_v9/utils/circuitBreakerUtil.js).  execute() decides when the *)
(* call begins and records when it ends: in between the circuit may have   *)
(* opened, half-opened and closed, and HALF_OPEN admits every caller, so   *)
(* results of calls begun in an earlier state count in the present one.    *)
(***************************************************************************)
EXTENDS Naturals

CONSTANTS Callers, failureThreshold, successThreshold

ThresholdAssumption == {failureThreshold, successThreshold} \subseteq Nat \ {0}

VARIABLES state, failureCount, successCount,
          due,        \* Date.now() >= nextAttempt
          running,    \* of each caller: "no", or how its call in flight will end
          healthy     \* the API answers every call that begins now

counters == << state, failureCount, successCount, due >>
vars == << counters, running, healthy >>

Init ==
    /\ state = "CLOSED" /\ failureCount = 0 /\ successCount = 0 /\ due = TRUE
    /\ running = [c \in Callers |-> "no"]
    /\ healthy = TRUE

Open == state' = "OPEN" /\ due' = FALSE

-----------------------------------------------------------------------------
FailsFast == state = "OPEN" /\ ~due

\* Fault: the successes of a recovery are counted anew by every call.
HalfOpenEachCall ==
    IF state = "CLOSED" THEN UNCHANGED counters
    ELSE state' = "HALF_OPEN" /\ successCount' = 0 /\ UNCHANGED << failureCount, due >>

HalfOpen ==
    IF state = "OPEN" THEN state' = "HALF_OPEN" /\ successCount' = 0 /\ UNCHANGED << failureCount, due >>
    ELSE UNCHANGED counters

\* fn() is called; what it will meet is decided by the API.
execute(c) ==
    /\ running[c] = "no"
    /\ ~FailsFast
    /\ HalfOpen
    /\ \E outcome \in {"succeeds"} \union IF healthy THEN {} ELSE {"fails"} :
         running' = [running EXCEPT ![c] = outcome]
    /\ UNCHANGED healthy

_recordSuccess(c) ==
    /\ running[c] = "succeeds"
    /\ running' = [running EXCEPT ![c] = "no"]
    /\ CASE state = "HALF_OPEN" ->
              /\ successCount' = successCount + 1
              /\ IF successCount' >= successThreshold THEN state' = "CLOSED" /\ failureCount' = 0
                                                      ELSE UNCHANGED << state, failureCount >>
              /\ UNCHANGED due
         [] state = "CLOSED" -> failureCount' = 0 /\ UNCHANGED << state, successCount, due >>
         [] state = "OPEN" -> UNCHANGED counters
    /\ UNCHANGED healthy

_recordFailure(c) ==
    /\ running[c] = "fails"
    /\ running' = [running EXCEPT ![c] = "no"]
    /\ CASE state = "HALF_OPEN" -> Open /\ failureCount' = 0 /\ UNCHANGED successCount
         [] state = "CLOSED" ->
              /\ failureCount' = failureCount + 1
              /\ IF failureCount' >= failureThreshold THEN Open ELSE UNCHANGED << state, due >>
              /\ UNCHANGED successCount
         [] state = "OPEN" -> UNCHANGED counters
    /\ UNCHANGED healthy

reset ==
    /\ state' = "CLOSED" /\ failureCount' = 0 /\ successCount' = 0 /\ due' = TRUE
    /\ UNCHANGED << running, healthy >>

TimeoutOver ==
    /\ state = "OPEN" /\ ~due
    /\ due' = TRUE
    /\ UNCHANGED << state, failureCount, successCount, running, healthy >>

ApiChanges ==
    /\ healthy' = ~healthy
    /\ UNCHANGED << counters, running >>

Next ==
    \/ \E c \in Callers : execute(c) \/ _recordSuccess(c) \/ _recordFailure(c)
    \/ reset \/ TimeoutOver \/ ApiChanges

Spec == Init /\ [][Next]_vars

-----------------------------------------------------------------------------
TypeOK ==
    /\ state \in {"CLOSED", "OPEN", "HALF_OPEN"}
    /\ failureCount \in 0..failureThreshold
    /\ successCount \in 0..successThreshold
    /\ due \in BOOLEAN /\ healthy \in BOOLEAN
    /\ running \in [Callers -> {"no", "succeeds", "fails"}]

\* However late results arrive, an API that has recovered for good is called again without the circuit in the way: the
\* circuit does not stay open or half-open for ever.
CircuitRecovers == <>[]healthy => []<>(state = "CLOSED")
===============================================================================
