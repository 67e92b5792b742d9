----------------------------- MODULE TokenBucket -----------------------------
(***************************************************************************)
(* The token bucket of one provider (atomic_token_deduct in schema-v3.sql, *)
(* acquireRateLimit and ensureRateLimitBucket in atomic-engine.js, called  *)
(* by base-worker.js).  The row lock puts the deductions in an order, but  *)
(* NOW() is the time at which a call's transaction began: a call that      *)
(* waited for the lock brings a time older than last_refill_at, so         *)
(* v_elapsed and the balance may be negative.                              *)
(***************************************************************************)
EXTENDS Integers

CONSTANTS Workers,
          capacity,
          refill_rate,      \* refill_rate_per_sec
          ThrottleLimit,    \* consecutive_throttles from which a refusal closes the bucket
          ThrottlePause,    \* seconds it is then closed
          MaxNow            \* bound: the clock stops there

ASSUME BucketAssumption ==
    /\ capacity \in Nat /\ refill_rate \in Nat
    /\ ThrottleLimit \in Nat /\ ThrottlePause \in Nat
    /\ MaxNow \in Nat

VARIABLES now,
          exists,     \* the row is there
          tokens, last_refill_at, consecutive_throttles, throttled_until,
          call,       \* [pc, at]: "new", "idle", "asking" and the NOW() of its transaction
          granted     \* ghost: tokens deducted so far

bucket == << exists, tokens, last_refill_at, consecutive_throttles, throttled_until >>
vars == << now, bucket, call, granted >>

Init ==
    /\ now = 0
    /\ exists = FALSE /\ tokens = 0 /\ last_refill_at = 0 /\ consecutive_throttles = 0 /\ throttled_until = 0
    /\ call = [w \in Workers |-> [pc |-> "new", at |-> 0]]
    /\ granted = 0

AtMost(n, bound) == IF n < bound THEN n ELSE bound

Returns(w) == call' = [call EXCEPT ![w] = [pc |-> "idle", at |-> 0]]

-----------------------------------------------------------------------------
\* start() of a worker: INSERT ... ON CONFLICT DO NOTHING leaves an existing row alone.
ensureRateLimitBucket(w) ==
    /\ call[w].pc = "new"
    /\ Returns(w)
    /\ IF exists THEN UNCHANGED bucket
       ELSE /\ exists' = TRUE /\ tokens' = capacity /\ last_refill_at' = now
            /\ UNCHANGED << consecutive_throttles, throttled_until >>
    /\ UNCHANGED << now, granted >>

\* A poll asks; its transaction has begun, and it may wait for the row.
acquireRateLimit(w) ==
    /\ call[w].pc = "idle"
    /\ call' = [call EXCEPT ![w] = [pc |-> "asking", at |-> now]]
    /\ UNCHANGED << now, bucket, granted >>

Throttled(at) == throttled_until > at

\* Fault: a negative v_elapsed is taken as zero, although last_refill_at still goes back.
RefilledForward(at) ==
    AtMost(tokens + refill_rate * (IF at > last_refill_at THEN at - last_refill_at ELSE 0), capacity)

\* LEAST(capacity, tokens + v_refill); v_elapsed may be negative.
Refilled(at) == AtMost(tokens + refill_rate * (at - last_refill_at), capacity)

Refuse(w) ==
    LET at == call[w].at IN
    /\ call[w].pc = "asking" /\ exists
    /\ Throttled(at)
    /\ Returns(w)
    /\ UNCHANGED << now, bucket, granted >>

\* The CASE looks at the old value of consecutive_throttles.
RunDry(w) ==
    LET at == call[w].at IN
    /\ call[w].pc = "asking" /\ exists
    /\ ~Throttled(at) /\ Refilled(at) < 1
    /\ Returns(w)
    /\ tokens' = Refilled(at) /\ last_refill_at' = at
    /\ consecutive_throttles' = AtMost(consecutive_throttles + 1, ThrottleLimit)
    /\ throttled_until' = IF consecutive_throttles >= ThrottleLimit THEN at + ThrottlePause ELSE 0
    /\ UNCHANGED << now, exists, granted >>

Deduct(w) ==
    LET at == call[w].at IN
    /\ call[w].pc = "asking" /\ exists
    /\ ~Throttled(at) /\ Refilled(at) >= 1
    /\ Returns(w)
    /\ tokens' = Refilled(at) - 1 /\ last_refill_at' = at
    /\ consecutive_throttles' = 0 /\ throttled_until' = 0
    /\ granted' = granted + 1
    /\ UNCHANGED << now, exists >>

\* The statement throws, and the caller is let through without a token.
FailsOpen(w) ==
    /\ call[w].pc = "asking"
    /\ Returns(w)
    /\ UNCHANGED << now, bucket, granted >>

Tick ==
    /\ now < MaxNow
    /\ now' = now + 1
    /\ UNCHANGED << bucket, call, granted >>

Next ==
    \/ \E w \in Workers : \/ ensureRateLimitBucket(w) \/ acquireRateLimit(w)
                          \/ Refuse(w) \/ RunDry(w) \/ Deduct(w) \/ FailsOpen(w)
    \/ Tick

Spec == Init /\ [][Next]_vars

-----------------------------------------------------------------------------
TypeOK ==
    /\ now \in 0..MaxNow
    /\ exists \in BOOLEAN
    /\ tokens \in Int
    /\ last_refill_at \in 0..now /\ throttled_until \in Nat
    /\ consecutive_throttles \in 0..ThrottleLimit
    /\ call \in [Workers -> [pc: {"new", "idle", "asking"}, at: 0..now]]
    /\ granted \in Nat

\* Whatever the order in which waiting deductions get the row, and however their clocks run backwards, no more tokens are
\* deducted than the bucket held and was refilled with since.
GrantsBounded == granted <= capacity + refill_rate * now
==============================================================================
