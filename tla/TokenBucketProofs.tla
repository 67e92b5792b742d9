-------------------------- MODULE TokenBucketProofs --------------------------
(***************************************************************************)
(* Proofs about TokenBucket, for any number of workers, any capacity, rate *)
(* and pause.                                                              *)
(***************************************************************************)
EXTENDS TokenBucket, TLAPS

\* Every token that was deducted, and every one that is left, was there at the start or came with a refill.
Conserved == granted + tokens <= capacity + refill_rate * last_refill_at

\* A balance below zero is an overdraft on the refill since last_refill_at.
Covered == tokens + refill_rate * (now - last_refill_at) >= 0

\* Nothing was deducted from a row that is not there.
Unborn == ~exists => granted = 0

IInv == TypeOK /\ Conserved /\ Covered /\ Unborn

\* A refill over an interval, forwards or backwards.
LEMMA Distributes ==
  ASSUME NEW r \in Nat, NEW a \in Int, NEW b \in Int
  PROVE  r * (a - b) = r * a - r * b /\ r * a \in Int /\ r * b \in Int
  OBVIOUS

\* A longer interval refills at least as much.
LEMMA Monotone ==
  ASSUME NEW r \in Nat, NEW a \in Int, NEW b \in Int, a <= b
  PROVE  r * a <= r * b
<1>1. r * (b - a) >= 0
  <2>1. b - a \in Nat OBVIOUS
  <2>2. \A n \in Nat : r * n >= 0 OBVIOUS
  <2>3. QED BY <2>1, <2>2
<1>2. QED BY <1>1, Distributes

\* A transaction that began at some time brings the balance up to date without inventing a token, and whatever the
\* balance was, the refill up to this moment covers it.
LEMMA RefillConserves ==
  ASSUME IInv, NEW at \in 0..now
  PROVE  /\ Refilled(at) \in Int
         /\ granted + Refilled(at) <= capacity + refill_rate * at
         /\ Refilled(at) + refill_rate * (now - at) >= 0
<1> USE BucketAssumption DEF IInv, TypeOK
<1>1. now \in Int /\ at \in Int /\ last_refill_at \in Int OBVIOUS
<1>2. /\ refill_rate * (at - last_refill_at) = refill_rate * at - refill_rate * last_refill_at
      /\ refill_rate * (now - last_refill_at) = refill_rate * now - refill_rate * last_refill_at
      /\ refill_rate * (now - at) = refill_rate * now - refill_rate * at
  BY <1>1, Distributes
<1>3. refill_rate * now \in Int /\ refill_rate * at \in Int /\ refill_rate * last_refill_at \in Int
  BY <1>1, Distributes
<1>4. refill_rate * at <= refill_rate * now
  BY <1>1, Monotone
<1> DEFINE full == tokens + refill_rate * (at - last_refill_at)
<1>5. full \in Int /\ full = tokens + refill_rate * at - refill_rate * last_refill_at
  BY <1>2, <1>3
<1>6. granted + full <= capacity + refill_rate * at
  BY <1>3, <1>5 DEF Conserved
<1>7. full + refill_rate * (now - at) >= 0
  BY <1>2, <1>3, <1>5 DEF Covered
<1>8. Refilled(at) = AtMost(full, capacity)
  BY DEF Refilled
<1> HIDE DEF full
<1>9. CASE full < capacity
  BY <1>5, <1>6, <1>7, <1>8, <1>9 DEF AtMost
<1>10. CASE ~(full < capacity)
  <2>1. Refilled(at) = capacity
    BY <1>8, <1>10 DEF AtMost
  <2>2. capacity <= full
    BY <1>5, <1>10
  <2>3. refill_rate * (now - at) >= 0
    BY <1>2, <1>3, <1>4
  <2>4. QED
    BY <1>2, <1>3, <1>5, <1>6, <2>1, <2>2, <2>3
<1>11. QED BY <1>9, <1>10

\* A refill over no time at all, and over some.
LEMMA RefillIsNat == \A n \in Nat : refill_rate * n \in Nat /\ refill_rate * 0 = 0
  BY BucketAssumption

LEMMA Start == Init => IInv
<1> SUFFICES ASSUME Init PROVE IInv
  OBVIOUS
<1>1. TypeOK
  <2>1. call \in [Workers -> [pc: {"new", "idle", "asking"}, at: 0..now]]
    BY DEF Init
  <2>2. now \in 0..MaxNow /\ last_refill_at \in 0..now /\ consecutive_throttles \in 0..ThrottleLimit
    <3>1. now = 0 /\ last_refill_at = 0 /\ consecutive_throttles = 0 /\ MaxNow \in Nat /\ ThrottleLimit \in Nat
      BY BucketAssumption DEF Init
    <3>2. QED BY <3>1
  <2>3. tokens \in Int /\ throttled_until \in Nat /\ granted \in Nat
    BY DEF Init
  <2>4. exists \in BOOLEAN
    BY Zenon DEF Init
  <2>5. QED BY <2>1, <2>2, <2>3, <2>4, Zenon DEF TypeOK
<1>2. refill_rate * (now - last_refill_at) = 0 /\ refill_rate * last_refill_at = 0
  BY RefillIsNat DEF Init
<1>3. QED BY <1>1, <1>2, BucketAssumption DEF Init, IInv, Conserved, Covered, Unborn

\* A call that returns leaves the type of the calls as it is.
LEMMA CallsTyped ==
  ASSUME TypeOK, NEW w \in Workers, Returns(w), now' = now
  PROVE  call' \in [Workers -> [pc: {"new", "idle", "asking"}, at: 0..now']]
  BY BucketAssumption DEF TypeOK, Returns

\* Every step keeps the types and both sides of the balance.
LEMMA Step == IInv /\ [Next]_vars => IInv'
<1> SUFFICES ASSUME IInv, [Next]_vars PROVE IInv'
  OBVIOUS
<1> USE BucketAssumption
<1>0. TypeOK BY DEF IInv
<1>1. ASSUME NEW w \in Workers, ensureRateLimitBucket(w) PROVE IInv'
  <2>1. call' \in [Workers -> [pc: {"new", "idle", "asking"}, at: 0..now']]
    BY <1>0, <1>1, CallsTyped DEF ensureRateLimitBucket
  <2>2. CASE exists
    BY <1>1, <2>1, <2>2 DEF ensureRateLimitBucket, bucket, IInv, TypeOK, Conserved, Covered, Unborn
  <2>3. CASE ~exists
    <3>1. TypeOK'
      BY <1>1, <2>1, <2>3 DEF ensureRateLimitBucket, IInv, TypeOK
    <3>2. now \in Nat /\ now - now = 0
      BY DEF IInv, TypeOK
    <3>3. refill_rate * now >= 0 /\ refill_rate * (now - now) = 0
      BY <3>2, RefillIsNat
    <3>4. granted' = 0 /\ tokens' = capacity /\ last_refill_at' = now /\ now' = now /\ exists'
      BY <1>1, <2>3 DEF ensureRateLimitBucket, IInv, Unborn
    <3>5. Conserved' /\ Covered'
      BY <3>3, <3>4, RefillIsNat, <3>2 DEF Conserved, Covered
    <3>6. QED BY <3>1, <3>4, <3>5 DEF IInv, Unborn
  <2>4. QED BY <2>2, <2>3
<1>2. ASSUME NEW w \in Workers, acquireRateLimit(w) PROVE IInv'
  BY <1>2 DEF acquireRateLimit, bucket, IInv, TypeOK, Conserved, Covered, Unborn
<1>3. ASSUME NEW w \in Workers, Refuse(w) \/ FailsOpen(w) PROVE IInv'
  <2>1. call' \in [Workers -> [pc: {"new", "idle", "asking"}, at: 0..now']]
    BY <1>0, <1>3, CallsTyped DEF Refuse, FailsOpen
  <2>2. QED BY <1>3, <2>1 DEF Refuse, FailsOpen, bucket, IInv, TypeOK, Conserved, Covered, Unborn
<1>4. ASSUME NEW w \in Workers, RunDry(w) \/ Deduct(w) PROVE IInv'
  <2> DEFINE at == call[w].at
  <2>1. at \in 0..now
    BY DEF IInv, TypeOK
  <2>2. /\ Refilled(at) \in Int
        /\ granted + Refilled(at) <= capacity + refill_rate * at
        /\ Refilled(at) + refill_rate * (now - at) >= 0
    BY <2>1, RefillConserves
  <2>3. call' \in [Workers -> [pc: {"new", "idle", "asking"}, at: 0..now']]
    BY <1>0, <1>4, CallsTyped DEF RunDry, Deduct
  <2>4. refill_rate * (now - at) \in Nat /\ refill_rate * at \in Nat
    <3>1. now - at \in Nat /\ at \in Nat BY <2>1 DEF IInv, TypeOK
    <3>2. QED BY <3>1, RefillIsNat
  <2>5. CASE RunDry(w)
    <3>1. tokens' = Refilled(at) /\ last_refill_at' = at /\ granted' = granted /\ now' = now /\ exists'
      BY <2>5 DEF RunDry
    <3>2. consecutive_throttles' \in 0..ThrottleLimit /\ throttled_until' \in Nat
      BY <2>1, <2>5 DEF RunDry, AtMost, IInv, TypeOK
    <3>3. TypeOK'
      BY <2>1, <2>2, <2>3, <3>1, <3>2 DEF IInv, TypeOK
    <3> HIDE DEF at
    <3>4. QED BY <2>2, <3>1, <3>3 DEF IInv, Conserved, Covered, Unborn
  <2>6. CASE Deduct(w)
    <3>1. /\ tokens' = Refilled(at) - 1 /\ Refilled(at) >= 1 /\ last_refill_at' = at
          /\ granted' = granted + 1 /\ now' = now /\ exists'
      BY <2>6 DEF Deduct
    <3>2. consecutive_throttles' \in 0..ThrottleLimit /\ throttled_until' \in Nat
      BY <2>6 DEF Deduct
    <3>3. TypeOK'
      BY <2>1, <2>2, <2>3, <3>1, <3>2 DEF IInv, TypeOK
    <3>4. granted \in Nat
      BY DEF IInv, TypeOK
    <3> HIDE DEF at
    <3>5. Conserved' /\ Covered'
      BY <2>2, <2>4, <3>1, <3>4 DEF Conserved, Covered
    <3>6. QED BY <3>1, <3>3, <3>5 DEF IInv, Unborn
  <2>7. QED BY <1>4, <2>5, <2>6
<1>5. ASSUME Tick PROVE IInv'
  <2>1. now \in Int /\ last_refill_at \in Int
    BY DEF IInv, TypeOK
  <2>2. now + 1 - last_refill_at \in Int /\ now - last_refill_at \in Int /\ now - last_refill_at <= now + 1 - last_refill_at
    BY <2>1
  <2>3. refill_rate * (now - last_refill_at) <= refill_rate * (now + 1 - last_refill_at)
    BY <2>2, Monotone
  <2>4. /\ refill_rate * (now - last_refill_at) \in Int
        /\ refill_rate * (now + 1 - last_refill_at) \in Int
    BY <2>2, Distributes
  <2>5. tokens \in Int /\ tokens + refill_rate * (now - last_refill_at) >= 0
    BY DEF IInv, TypeOK, Covered
  <2>6. tokens + refill_rate * (now + 1 - last_refill_at) >= 0
    BY <2>3, <2>4, <2>5
  <2>7. TypeOK'
    BY <1>5 DEF Tick, bucket, IInv, TypeOK
  <2>8. now' = now + 1 /\ tokens' = tokens /\ last_refill_at' = last_refill_at /\ granted' = granted /\ exists' = exists
    BY <1>5 DEF Tick, bucket
  <2>9. Conserved' /\ Unborn'
    BY <2>8 DEF IInv, Conserved, Unborn
  <2>10. Covered'
    <3>1. now' - last_refill_at' = now + 1 - last_refill_at /\ tokens' = tokens
      BY <2>1, <2>8
    <3>2. tokens' + refill_rate * (now' - last_refill_at') = tokens + refill_rate * (now + 1 - last_refill_at)
      BY <3>1, Zenon
    <3>3. QED BY <2>6, <3>2, Zenon DEF Covered
  <2>11. QED BY <2>7, <2>9, <2>10 DEF IInv
<1>6. CASE UNCHANGED vars
  BY <1>6 DEF vars, bucket, IInv, TypeOK, Conserved, Covered, Unborn
<1>7. QED BY <1>1, <1>2, <1>3, <1>4, <1>5, <1>6 DEF Next

\* The balance sheet bounds what was deducted.
LEMMA BoundFollows == IInv => GrantsBounded
<1> SUFFICES ASSUME IInv PROVE GrantsBounded
  OBVIOUS
<1> USE BucketAssumption DEF IInv, TypeOK
<1>1. now \in Int /\ last_refill_at \in Int OBVIOUS
<1>2. /\ refill_rate * (now - last_refill_at) = refill_rate * now - refill_rate * last_refill_at
      /\ refill_rate * now \in Int /\ refill_rate * last_refill_at \in Int
  BY <1>1, Distributes
<1>3. QED BY <1>2 DEF Conserved, Covered, GrantsBounded

\* Type correctness of the bucket, its calls and the clock.
THEOREM TypeCorrect == Spec => []TypeOK
<1>1. IInv => TypeOK BY DEF IInv
<1>2. QED BY <1>1, Start, Step, PTL DEF Spec

\* However deductions wait for the row and however their clocks run backwards, the bucket never hands out more tokens
\* than it held and was refilled with.
THEOREM GrantsAreBounded == Spec => []GrantsBounded
  BY Start, Step, BoundFollows, PTL DEF Spec
==============================================================================
