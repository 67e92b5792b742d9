--------------------------- MODULE AdaptiveController ---------------------------
(***************************************************************************)
(* Adaptive concurrency and circuit breaker of one queue                   *)
(* (adaptive-controller.js).  The object lives in the worker process and   *)
(* is called synchronously, so each method is one atomic step; BaseWorker  *)
(* says when the methods are called.                                       *)
(*                                                                         *)
(* Counters that the code only compares with a limit are kept up to that   *)
(* limit: failures up to FailureThreshold, rateLimits up to RateLimitSpike, *)
(* streak modulo GainEvery.                                                *)
(***************************************************************************)
EXTENDS Integers

CONSTANTS InitialConcurrency, MinConcurrency, MaxConcurrency,
          FailureThreshold, ProbeCount,
          GainEvery,        \* successes that earn one more slot (20)
          RateLimitSpike    \* consecutive rate limits that count as failures (3)

ControllerAssumption ==
  /\ MinConcurrency \in Nat \ {0}
  /\ InitialConcurrency \in MinConcurrency .. MaxConcurrency
  /\ MaxConcurrency \in Nat
  /\ FailureThreshold \in Nat \ {0}
  /\ ProbeCount \in Nat \ {0}
  /\ GainEvery \in Nat \ {0, 1}
  /\ RateLimitSpike \in Nat \ {0}

VARIABLES circuit,
          cooled,        \* OPEN_TIMEOUT_MS has passed since the circuit opened
          failures, rateLimits, probes, successes, concurrency, streak,
          queueDraining

controller == <<circuit, cooled, failures, rateLimits, probes, successes,
                concurrency, streak, queueDraining>>

ControllerTypeOK ==
  /\ circuit \in {"CLOSED", "OPEN", "HALF_OPEN"}
  /\ cooled \in BOOLEAN
  /\ failures \in 0 .. FailureThreshold
  /\ rateLimits \in 0 .. RateLimitSpike
  /\ probes \in 0 .. ProbeCount
  /\ successes \in 0 .. ProbeCount - 1
  /\ concurrency \in MinConcurrency .. MaxConcurrency
  /\ streak \in 0 .. GainEvery - 1
  /\ queueDraining \in BOOLEAN

ControllerInit ==
  /\ circuit = "CLOSED"
  /\ cooled = FALSE
  /\ failures = 0
  /\ rateLimits = 0
  /\ probes = 0
  /\ successes = 0
  /\ concurrency = InitialConcurrency
  /\ streak = 0
  /\ queueDraining = FALSE

AtLeast(n, low) == IF n < low THEN low ELSE n
AtMost(n, high) == IF n > high THEN high ELSE n

--------------------------------------------------------------------------------

HalfOpens == circuit = "OPEN" /\ cooled

ProbesSoFar == IF HalfOpens THEN 0 ELSE probes

\* The answer of canProcess.
Admits ==
  \/ circuit = "CLOSED"
  \/ (HalfOpens \/ circuit = "HALF_OPEN") /\ ProbesSoFar < ProbeCount

\* A probe is used up by asking, whatever becomes of the poll that asked.
canProcess ==
  /\ circuit' = IF HalfOpens THEN "HALF_OPEN" ELSE circuit
  /\ probes' = IF circuit # "CLOSED" /\ Admits THEN ProbesSoFar + 1 ELSE ProbesSoFar
  /\ successes' = IF HalfOpens THEN 0 ELSE successes
  /\ UNCHANGED <<cooled, failures, rateLimits, concurrency, streak, queueDraining>>

\* Fault: halving may reach zero.
HalvedToZero == concurrency \div 2

Increased == IF queueDraining THEN concurrency
                              ELSE AtMost(concurrency + 1, MaxConcurrency)
Halved == AtLeast(concurrency \div 2, MinConcurrency)

_closeCircuit ==
  /\ circuit' = "CLOSED"
  /\ cooled' = FALSE
  /\ probes' = 0
  /\ successes' = 0
  /\ concurrency' = AtLeast(InitialConcurrency \div 4, MinConcurrency)
  /\ streak' = 1

onSuccess ==
  /\ failures' = 0
  /\ rateLimits' = 0
  /\ IF circuit = "HALF_OPEN" /\ successes + 1 >= ProbeCount
       THEN _closeCircuit
       ELSE /\ successes' = IF circuit = "HALF_OPEN" THEN successes + 1 ELSE successes
            /\ streak' = (streak + 1) % GainEvery
            /\ concurrency' = IF streak' = 0 THEN Increased ELSE concurrency
            /\ UNCHANGED <<circuit, cooled, probes>>
  /\ UNCHANGED queueDraining

onFailure ==
  /\ streak' = 0
  /\ failures' = AtMost(failures + 1, FailureThreshold)
  /\ IF failures' = FailureThreshold /\ circuit # "OPEN"
       THEN circuit' = "OPEN" /\ cooled' = FALSE
       ELSE UNCHANGED <<circuit, cooled>>
  /\ concurrency' = Halved
  /\ UNCHANGED <<rateLimits, probes, successes, queueDraining>>

\* Rate limits count towards the threshold, but only a failure opens the circuit.
onRateLimited ==
  /\ streak' = 0
  /\ rateLimits' = AtMost(rateLimits + 1, RateLimitSpike)
  /\ failures' = IF rateLimits' = RateLimitSpike
                   THEN AtMost(failures + 1, FailureThreshold) ELSE failures
  /\ concurrency' = Halved
  /\ UNCHANGED <<circuit, cooled, probes, successes, queueDraining>>

setDraining ==
  /\ queueDraining' = TRUE
  /\ concurrency' = MinConcurrency
  /\ UNCHANGED <<circuit, cooled, failures, rateLimits, probes, successes, streak>>

\* The clock: OPEN_TIMEOUT_MS passes.
OpenTimeout ==
  /\ circuit = "OPEN" /\ ~cooled
  /\ cooled' = TRUE
  /\ UNCHANGED <<circuit, failures, rateLimits, probes, successes, concurrency,
                 streak, queueDraining>>

================================================================================
