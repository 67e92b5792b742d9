--------------------------- MODULE IdempotencyProofs ---------------------------
(***************************************************************************)
(* Proofs about Idempotency, for any number of requests with one key.      *)
(***************************************************************************)
EXTENDS Idempotency, FiniteSetTheorems, TLAPS

Typed ==
  /\ mode \in Modes
  /\ ready \in BOOLEAN /\ doneKey \in BOOLEAN /\ row \in BOOLEAN
  /\ pc \in [Requests -> Points]
  /\ useRedis \in [Requests -> BOOLEAN]
  /\ lockAcquired \in [Requests -> BOOLEAN]
  /\ late \in [Requests -> BOOLEAN]
  /\ effects \in Nat

\* While Redis is steady, a request that is under way uses it, and one that runs its handler or stores its response has
\* the lock.
LockedWhileRunning ==
  mode = "steady" =>
    /\ ready
    /\ \A r \in Requests : /\ pc[r] # "idle" => useRedis[r]
                           /\ pc[r] # "bare"
                           /\ Running(r) => lockKey = r

\* What is stored, or about to be, was answered by an execution that succeeded.
StoredIsExecuted ==
  doneKey \/ row \/ (\E r \in Requests : pc[r] \in {"replayed", "storeDone", "storeRow", "releaseOk"}) => effects > 0

\* While the database answers, the copy is there before the response is sent, and who comes later only looks.
SentIsStored ==
  mode # "rough" =>
    \A r \in Requests : /\ pc[r] \in {"releaseOk", "ok"} => row
                        /\ late[r] => row /\ pc[r] \notin {"lock", "handler", "bare"} \cup InCapture

IInv == Typed /\ LockedWhileRunning /\ StoredIsExecuted /\ SentIsStored

\* Before the first request nothing is stored.
LEMMA Start == Init => IInv
<1> SUFFICES ASSUME Init PROVE IInv
  OBVIOUS
<1>1. Typed
  <2>1. mode \in Modes /\ ready \in BOOLEAN
    BY DEF Init
  <2>2. doneKey \in BOOLEAN /\ row \in BOOLEAN
    BY DEF Init
  <2>3. pc \in [Requests -> Points] /\ effects \in Nat
    BY DEF Init, Points, Final
  <2>4. useRedis \in [Requests -> BOOLEAN] /\ lockAcquired \in [Requests -> BOOLEAN]
    BY DEF Init
  <2>5. late \in [Requests -> BOOLEAN]
    BY DEF Init
  <2>6. QED BY <2>1, <2>2, <2>3, <2>4, <2>5 DEF Typed
<1>2. LockedWhileRunning
  BY DEF Init, LockedWhileRunning, Running, InCapture
<1>3. StoredIsExecuted
  BY DEF Init, StoredIsExecuted
<1>4. SentIsStored
  <2>1. \A r \in Requests : pc[r] = "idle" /\ ~late[r]
    BY DEF Init
  <2>2. QED BY <2>1 DEF SentIsStored
<1>5. QED BY <1>1, <1>2, <1>3, <1>4 DEF IInv

\* Every awaited command of a request, and everything Redis, its clock and the process may do.
LEMMA StepKeeps == ASSUME IdempotencyAssumption, IInv, [Next]_vars PROVE IInv'
<1> USE DEF IdempotencyAssumption, IInv, Typed, LockedWhileRunning, StoredIsExecuted, SentIsStored, Points, InCapture,
            Final, Running, Goto, redis, locals, RedisFails, DatabaseFails, Modes
<1>1. ASSUME NEW r \in Requests, Arrive(r) PROVE IInv' BY <1>1 DEF Arrive
<1>2. ASSUME NEW r \in Requests, getDone(r) PROVE IInv' BY <1>2 DEF getDone
<1>3. ASSUME NEW r \in Requests, dbGet(r) PROVE IInv' BY <1>3 DEF dbGet
<1>4. ASSUME NEW r \in Requests, AcquireLock(r) PROVE IInv'
  <2>1. CASE ready /\ LockAnswer(r)
    <3>1. CASE lockKey = Free BY <1>4, <2>1, <3>1 DEF AcquireLock, LockAnswer
    <3>2. CASE lockKey # Free BY <1>4, <2>1, <3>2 DEF AcquireLock, LockAnswer
    <3>3. QED BY <3>1, <3>2
  <2>2. CASE RedisFails /\ LockThrows(r) BY <1>4, <2>2 DEF AcquireLock, LockThrows
  <2>3. QED BY <1>4, <2>1, <2>2 DEF AcquireLock
<1>5. ASSUME NEW r \in Requests, Handle(r) PROVE IInv' BY <1>5 DEF Handle, AfterHandler
<1>6. ASSUME NEW r \in Requests, storeDone(r) PROVE IInv' BY <1>6 DEF storeDone
<1>7. ASSUME NEW r \in Requests, dbSet(r) PROVE IInv' BY <1>7 DEF dbSet
<1>8. ASSUME NEW r \in Requests, Respond(r) PROVE IInv' BY <1>8 DEF Respond
<1>9. ASSUME NEW r \in Requests, Crash(r) PROVE IInv' BY <1>9 DEF Crash
<1>10. CASE LockExpires BY <1>10 DEF LockExpires
<1>11. CASE RedisDrops BY <1>11 DEF RedisDrops
<1>12. CASE RedisReturns
  <2>1. CASE UNCHANGED <<doneKey, lockKey>> BY <1>12, <2>1 DEF RedisReturns
  <2>2. CASE doneKey' = FALSE /\ lockKey' = Free
    <3>1. mode # "steady" BY <1>12 DEF RedisReturns
    <3>2. Typed' /\ LockedWhileRunning' BY <1>12, <2>2, <3>1 DEF RedisReturns
    <3>3. StoredIsExecuted'
      <4>1. ~doneKey' BY <2>2
      <4>2. row' = row /\ pc' = pc /\ effects' = effects BY <1>12 DEF RedisReturns
      <4>3. QED BY <4>1, <4>2
    <3>4. SentIsStored' BY <1>12 DEF RedisReturns
    <3>5. QED BY <3>2, <3>3, <3>4
  <2>3. QED BY <1>12, <2>1, <2>2 DEF RedisReturns
<1>13. CASE UNCHANGED vars BY <1>13 DEF vars
<1> HIDE DEF IdempotencyAssumption, IInv, Typed, LockedWhileRunning, StoredIsExecuted, SentIsStored, Points, InCapture,
             Final, Running, Goto, redis, locals, RedisFails, DatabaseFails, Modes
<1>14. QED
  <2>1. ASSUME NEW r \in Requests, Step(r) PROVE IInv'
    BY ONLY <2>1, <1>2, <1>3, <1>4, <1>5, <1>6, <1>7, <1>8 DEF Step
  <2>2. QED
  BY ONLY <2>1, [Next]_vars, <1>1, <1>2, <1>3, <1>4, <1>5, <1>6, <1>7, <1>8, <1>9, <1>10, <1>11, <1>12, <1>13 DEF Next

\* The inductive invariant holds in every reachable state.
LEMMA Invariant == ASSUME IdempotencyAssumption PROVE Spec => []IInv
  BY Start, StepKeeps, PTL DEF Spec

\* While Redis is steady, no two requests with one key are in their handlers or store their responses at the same time.
THEOREM RequestsTakeTurns == ASSUME IdempotencyAssumption PROVE Spec => []OneAtATime
<1>1. IInv => OneAtATime BY DEF IInv, LockedWhileRunning, OneAtATime
<1>2. QED BY <1>1, Invariant, PTL

\* Only the responses of successful executions are stored and replayed, and a retry that comes after such a response was
\* sent is not executed again as long as the database answers.
THEOREM ReplaysAreTrue == ASSUME IdempotencyAssumption PROVE Spec => []ReplaysAreHonest
<1>1. IInv => ReplaysAreHonest BY DEF IInv, StoredIsExecuted, SentIsStored, ReplaysAreHonest
<1>2. QED BY <1>1, Invariant, PTL

\* The requests whose handler may have been executed.
Executed == {r \in Requests : pc[r] \notin {"idle", "getDone", "getRow", "lock", "handler", "bare"}}

\* A request executes once at most, and only one that uses Redis asks for the lock and gets it.
Counted ==
  /\ lockKey \in Requests \cup {Free}
  /\ effects <= Cardinality(Executed)
  /\ \A r \in Requests : /\ lockAcquired[r] \/ pc[r] = "lock" => useRedis[r]
                         /\ pc[r] = "idle" => ~lockAcquired[r]

\* Nobody has executed anything.
LEMMA CountedStart == Init => Counted
<1> SUFFICES ASSUME Init PROVE Counted
  OBVIOUS
<1>1. Executed = {}
  BY DEF Init, Executed
<1>2. effects <= Cardinality(Executed)
  BY <1>1, FS_EmptySet DEF Init
<1>3. QED BY <1>2 DEF Counted, Init

\* No step takes a request out of Executed, and only the execution itself counts.
LEMMA CountedKeeps == ASSUME IdempotencyAssumption, Typed, Counted, [Next]_vars PROVE Counted'
<1>1. IsFiniteSet(Executed) /\ IsFiniteSet(Executed') /\ Cardinality(Executed) \in Nat /\ Cardinality(Executed') \in Nat
  BY FS_Subset, FS_CardinalityType DEF IdempotencyAssumption, Executed
<1>2. pc \in [Requests -> Points] /\ effects \in Nat
  BY DEF Typed
<1>3. ASSUME Executed \subseteq Executed', effects' = effects PROVE effects' <= Cardinality(Executed')
  <2>1. Cardinality(Executed) <= Cardinality(Executed')
    BY <1>1, <1>3, FS_Subset
  <2>2. QED BY <1>1, <1>2, <1>3, <2>1 DEF Counted
<1>4. ASSUME NEW r \in Requests, Arrive(r) PROVE Counted'
  <2>1. /\ pc[r] = "idle" /\ useRedis' = [useRedis EXCEPT ![r] = ready] /\ UNCHANGED <<lockKey, lockAcquired, effects>>
        /\ pc' = [pc EXCEPT ![r] = IF ready THEN "getDone" ELSE "getRow"]
    BY <1>4 DEF Arrive, Goto, redis
  <2>2. Executed \subseteq Executed'
    BY <1>2, <2>1 DEF Executed
  <2>3. QED BY <1>2, <1>3, <2>1, <2>2 DEF Counted, Typed
<1>5. ASSUME NEW r \in Requests, NEW p \in Points, Goto(r, p), pc[r] # "idle",
             p \in {"idle", "getDone", "getRow", "lock", "handler", "bare"} => r \notin Executed,
             p = "lock" => useRedis[r], p # "idle", lockKey' \in Requests \cup {Free}, UNCHANGED <<locals, effects>>
      PROVE  Counted'
  <2>1. Executed \subseteq Executed'
    BY <1>2, <1>5 DEF Executed, Goto
  <2>2. QED BY <1>2, <1>3, <1>5, <2>1 DEF Counted, Goto, locals
<1>6. ASSUME NEW r \in Requests, getDone(r) PROVE Counted'
  BY <1>5, <1>6 DEF getDone, redis, Counted, Executed, Points, Final
<1>7. ASSUME NEW r \in Requests, dbGet(r) PROVE Counted'
  <2>1. /\ pc[r] = "getRow" /\ lockKey' = lockKey /\ UNCHANGED <<locals, effects>>
        /\ \E p \in {"replayed", "lock", "handler"} : Goto(r, p) /\ (p = "lock" => useRedis[r])
    BY <1>7 DEF dbGet, redis
  <2>2. PICK p \in {"replayed", "lock", "handler"} : Goto(r, p) /\ (p = "lock" => useRedis[r])
    BY <2>1
  <2>3. QED BY <1>5, <2>1, <2>2 DEF Counted, Executed, Points, Final
<1>8. ASSUME NEW r \in Requests, AcquireLock(r) PROVE Counted'
  <2>1. pc[r] = "lock" /\ effects' = effects /\ useRedis' = useRedis
    BY <1>8 DEF AcquireLock
  <2>2. CASE ready /\ LockAnswer(r) /\ lockKey = Free
    <3>1. lockKey' = r /\ lockAcquired' = [lockAcquired EXCEPT ![r] = TRUE] /\ pc' = [pc EXCEPT ![r] = "handler"]
      BY <2>2 DEF LockAnswer, Goto
    <3>2. Executed \subseteq Executed'
      BY <1>2, <2>1, <3>1 DEF Executed
    <3>3. QED BY <1>2, <1>3, <2>1, <3>1, <3>2 DEF Counted, Typed
  <2>3. CASE ready /\ LockAnswer(r) /\ lockKey # Free
    <3>1. pc' = [pc EXCEPT ![r] = "conflict"] /\ UNCHANGED <<lockKey, lockAcquired>>
      BY <2>3 DEF LockAnswer, Goto
    <3>2. Executed \subseteq Executed'
      BY <1>2, <2>1, <3>1 DEF Executed
    <3>3. QED BY <1>2, <1>3, <2>1, <3>1, <3>2 DEF Counted
  <2>4. CASE RedisFails /\ LockThrows(r)
    <3>1. pc' = [pc EXCEPT ![r] = "bare"] /\ lockKey' \in {lockKey, r} /\ UNCHANGED lockAcquired
      BY <2>4 DEF LockThrows, Goto
    <3>2. Executed \subseteq Executed'
      BY <1>2, <2>1, <3>1 DEF Executed
    <3>3. QED BY <1>2, <1>3, <2>1, <3>1, <3>2 DEF Counted
  <2>5. QED BY <1>8, <2>2, <2>3, <2>4 DEF AcquireLock
<1>9. ASSUME NEW r \in Requests, Handle(r) PROVE Counted'
  <2>1. /\ pc[r] \in {"handler", "bare"} /\ effects' \in {effects, effects + 1} /\ UNCHANGED <<lockKey, useRedis, lockAcquired>>
        /\ \E p \in {"storeDone", "release", "plain", "error"} : pc' = [pc EXCEPT ![r] = p]
    <3>1. PICK ok \in BOOLEAN : /\ effects' = effects + (IF ok THEN 1 ELSE 0)
                                /\ Goto(r, IF pc[r] = "handler" THEN AfterHandler(ok) ELSE IF ok THEN "plain" ELSE "error")
      BY <1>9 DEF Handle
    <3>2. effects' \in {effects, effects + 1}
      BY <1>2, <3>1
    <3>3. \E p \in {"storeDone", "release", "plain", "error"} : pc' = [pc EXCEPT ![r] = p]
      BY <3>1 DEF Goto, AfterHandler
    <3>4. QED BY <1>9, <3>2, <3>3 DEF Handle, redis, locals
  <2>2. PICK p \in {"storeDone", "release", "plain", "error"} : pc' = [pc EXCEPT ![r] = p]
    BY <2>1
  <2>3. Executed' = Executed \union {r} /\ r \notin Executed
    BY <1>2, <2>1, <2>2 DEF Executed
  <2>4. Cardinality(Executed') = Cardinality(Executed) + 1
    BY <1>1, <2>3, FS_AddElement
  <2>5. effects' <= Cardinality(Executed')
    BY <1>1, <1>2, <2>1, <2>4 DEF Counted
  <2>6. QED BY <1>2, <2>1, <2>2, <2>5 DEF Counted
<1>10. ASSUME NEW r \in Requests, storeDone(r) PROVE Counted'
  BY <1>5, <1>10 DEF storeDone, Counted, Points, InCapture
<1>11. ASSUME NEW r \in Requests, dbSet(r) PROVE Counted'
  BY <1>5, <1>11 DEF dbSet, redis, Counted, Points, InCapture
<1>12. ASSUME NEW r \in Requests, Respond(r) PROVE Counted'
  <2>1. lockKey' = Free \/ lockKey' = lockKey
    BY <1>12 DEF Respond
  <2>2. QED BY <1>5, <1>12, <2>1 DEF Respond, Counted, Points, Final
<1>13. ASSUME NEW r \in Requests, Crash(r) PROVE Counted'
  BY <1>5, <1>13 DEF Crash, redis, Counted, Points, Final
<1>14. ASSUME LockExpires \/ RedisDrops \/ RedisReturns \/ UNCHANGED vars PROVE Counted'
  <2>1. (lockKey' = lockKey \/ lockKey' = Free) /\ UNCHANGED <<pc, locals, effects>>
    BY <1>14 DEF LockExpires, RedisDrops, RedisReturns, vars, redis, locals
  <2>2. Executed' = Executed
    BY <2>1 DEF Executed
  <2>3. QED BY <1>3, <2>1, <2>2 DEF Counted, locals
<1>15. ASSUME NEW r \in Requests, Step(r) PROVE Counted'
  BY <1>6, <1>7, <1>8, <1>9, <1>10, <1>11, <1>12, <1>15 DEF Step
<1>16. QED BY <1>4, <1>13, <1>14, <1>15 DEF Next

\* What executed is among the requests.
LEMMA TypesFollow == ASSUME IdempotencyAssumption, IInv, Counted PROVE TypeOK
<1>1. Typed /\ effects \in Nat
  BY DEF IInv, Typed
<1>2. Cardinality(Executed) <= Cardinality(Requests) /\ Cardinality(Executed) \in Nat /\ Cardinality(Requests) \in Nat
  BY FS_Subset, FS_CardinalityType DEF Executed, IdempotencyAssumption
<1>3. effects \in 0 .. Cardinality(Requests)
  BY <1>1, <1>2 DEF Counted
<1>4. QED BY <1>1, <1>3 DEF Typed, Counted, TypeOK

\* The types of Idempotency; among them, that a handler succeeds at most once for each request that came.
THEOREM TypesHold == ASSUME IdempotencyAssumption PROVE Spec => []TypeOK
<1>1. IInv /\ Counted /\ [Next]_vars => (IInv /\ Counted)'
  BY StepKeeps, CountedKeeps DEF IInv
<1>2. QED BY Start, CountedStart, TypesFollow, <1>1, PTL DEF Spec
================================================================================
