------------------------------ MODULE Idempotency ------------------------------
(***************************************************************************)
(* Requests that carry the same user, endpoint and Idempotency-Key         *)
(* (planbuddy_v9/middleware/idempotency.js: runIdempotency), the two Redis *)
(* keys of that scope, its row in idempotency_keys and the handler behind  *)
(* the middleware.  Every awaited statement is a step of its own.          *)
(*                                                                         *)
(* Responses are abstracted to 2xx or not.  The retention of the stored    *)
(* response (24 hours) is longer than a behaviour.                         *)
(***************************************************************************)
EXTENDS Integers, FiniteSets

CONSTANTS Requests, Free

IdempotencyAssumption == Free \notin Requests /\ IsFiniteSet(Requests)

\* steady: Redis stays ready, no statement fails, no handler outlives the lock;
\* calm: the database answers, Redis comes and goes and locks may expire;
\* rough: statements may fail, after or before they took effect, and processes die.
Modes == {"steady", "calm", "rough"}

VARIABLES mode,
          ready,               \* redis.status = 'ready'
          doneKey, lockKey,    \* in Redis: response stored; who set the lock
          row,                 \* response stored in idempotency_keys
          pc,                  \* where each request stands
          useRedis, lockAcquired,   \* locals of runIdempotency
          late,                \* arrived after a captured 2xx response was sent
          effects              \* successful executions of the handler

redis == <<ready, doneKey, lockKey>>
vars == <<mode, redis, row, pc, useRedis, lockAcquired, late, effects>>

\* handler: runs with res.json wrapped; bare: runs without.  storeDone, storeRow,
\* releaseOk, release: inside captureIdempotentResponse.  ok: captured 2xx sent;
\* plain, error: another response sent.
InCapture == {"storeDone", "storeRow", "releaseOk", "release"}
Final == {"ok", "plain", "error", "replayed", "conflict", "crashed"}
Points == {"idle", "getDone", "getRow", "lock", "handler", "bare"} \cup InCapture \cup Final

TypeOK ==
  /\ mode \in Modes
  /\ ready \in BOOLEAN
  /\ doneKey \in BOOLEAN
  /\ lockKey \in Requests \cup {Free}
  /\ row \in BOOLEAN
  /\ pc \in [Requests -> Points]
  /\ useRedis \in [Requests -> BOOLEAN]
  /\ lockAcquired \in [Requests -> BOOLEAN]
  /\ late \in [Requests -> BOOLEAN]
  /\ effects \in 0 .. Cardinality(Requests)
  /\ \A r \in Requests : lockAcquired[r] => useRedis[r]

Init ==
  /\ mode \in Modes
  /\ ready \in (IF mode = "steady" THEN {TRUE} ELSE BOOLEAN)
  /\ doneKey = FALSE
  /\ lockKey = Free
  /\ row = FALSE
  /\ pc = [r \in Requests |-> "idle"]
  /\ useRedis = [r \in Requests |-> FALSE]
  /\ lockAcquired = [r \in Requests |-> FALSE]
  /\ late = [r \in Requests |-> FALSE]
  /\ effects = 0

Goto(r, p) == pc' = [pc EXCEPT ![r] = p]

locals == <<useRedis, lockAcquired, late>>

--------------------------------------------------------------------------------
(* Step 1: replay of a completed request *)

Arrive(r) ==
  /\ pc[r] = "idle"
  /\ useRedis' = [useRedis EXCEPT ![r] = ready]
  /\ late' = [late EXCEPT ![r] = \E q \in Requests : pc[q] = "ok"]
  /\ Goto(r, IF ready THEN "getDone" ELSE "getRow")
  /\ UNCHANGED <<mode, redis, row, lockAcquired, effects>>

\* A command fails at once when Redis is not ready (no offline queue).
RedisFails == mode = "rough" \/ ~ready
DatabaseFails == mode = "rough"

getDone(r) ==
  /\ pc[r] = "getDone"
  /\ \/ ready /\ Goto(r, IF doneKey THEN "replayed" ELSE "getRow")
     \/ RedisFails /\ Goto(r, "getRow")
  /\ UNCHANGED <<mode, redis, row, locals, effects>>

dbGet(r) ==
  /\ pc[r] = "getRow"
  /\ LET Missed == IF useRedis[r] THEN "lock" ELSE "handler"
     IN  \/ Goto(r, IF row THEN "replayed" ELSE Missed)
         \/ DatabaseFails /\ Goto(r, Missed)
  /\ UNCHANGED <<mode, redis, row, locals, effects>>

--------------------------------------------------------------------------------
(* Step 2: the lock *)

\* Fault: SET without NX.
LockAnswerOverwrites(r) ==
  /\ lockKey' = r
  /\ lockAcquired' = [lockAcquired EXCEPT ![r] = TRUE]
  /\ Goto(r, "handler")

\* SET NX answered: the lock is taken, or 409.
LockAnswer(r) ==
  /\ IF lockKey = Free
       THEN /\ lockKey' = r
            /\ lockAcquired' = [lockAcquired EXCEPT ![r] = TRUE]
            /\ Goto(r, "handler")
       ELSE Goto(r, "conflict") /\ UNCHANGED <<lockKey, lockAcquired>>

\* SET NX threw: next() without wrapping res.json.  A command that timed out may
\* have set the lock all the same.
LockThrows(r) ==
  /\ Goto(r, "bare")
  /\ \/ UNCHANGED lockKey
     \/ ready /\ lockKey = Free /\ lockKey' = r
  /\ UNCHANGED lockAcquired

AcquireLock(r) ==
  /\ pc[r] = "lock"
  /\ \/ ready /\ LockAnswer(r)
     \/ RedisFails /\ LockThrows(r)
  /\ UNCHANGED <<mode, ready, doneKey, row, useRedis, late, effects>>

--------------------------------------------------------------------------------
(* The handler, and captureIdempotentResponse *)

\* After the handler called res.json with a 2xx response, or with another one.
AfterHandler(ok) == IF ok THEN "storeDone" ELSE "release"

Handle(r) ==
  /\ pc[r] \in {"handler", "bare"}
  /\ \E ok \in BOOLEAN :
       /\ effects' = effects + (IF ok THEN 1 ELSE 0)
       /\ Goto(r, IF pc[r] = "handler" THEN AfterHandler(ok)
                                        ELSE IF ok THEN "plain" ELSE "error")
  /\ UNCHANGED <<mode, redis, row, locals>>

storeDone(r) ==
  /\ pc[r] = "storeDone"
  /\ Goto(r, "storeRow")
  /\ IF useRedis[r] /\ ready
       THEN doneKey' = TRUE \/ (RedisFails /\ UNCHANGED doneKey)
       ELSE UNCHANGED doneKey
  /\ UNCHANGED <<mode, ready, lockKey, row, locals, effects>>

\* Fault: the durable copy is written only when Redis is not in use.
dbSetOnFallback(r) ==
  /\ pc[r] = "storeRow"
  /\ Goto(r, "releaseOk")
  /\ row' = (row \/ ~useRedis[r])
  /\ UNCHANGED <<mode, redis, locals, effects>>

\* dbSet swallows its errors.
dbSet(r) ==
  /\ pc[r] = "storeRow"
  /\ Goto(r, "releaseOk")
  /\ row' = TRUE \/ (DatabaseFails /\ UNCHANGED row)
  /\ UNCHANGED <<mode, redis, locals, effects>>

\* releaseLock deletes the key whoever set it; then the response is sent.
Respond(r) ==
  /\ pc[r] \in {"releaseOk", "release"}
  /\ Goto(r, IF pc[r] = "releaseOk" THEN "ok" ELSE "error")
  /\ IF lockAcquired[r] /\ ready
       THEN lockKey' = Free \/ (RedisFails /\ UNCHANGED lockKey)
       ELSE UNCHANGED lockKey
  /\ UNCHANGED <<mode, ready, doneKey, row, locals, effects>>

Running(r) == pc[r] \in {"handler"} \cup InCapture

--------------------------------------------------------------------------------
(* External: Redis, its clock, and the process *)


\* The lock of 30 seconds runs out; in steady mode only when its owner has ended.
LockExpires ==
  /\ lockKey # Free
  /\ mode = "steady" => ~Running(lockKey)
  /\ lockKey' = Free
  /\ UNCHANGED <<mode, ready, doneKey, row, pc, locals, effects>>

\* The connection drops; Redis may have lost its keys when it comes back.
RedisDrops ==
  /\ mode # "steady"
  /\ ready
  /\ ready' = FALSE
  /\ UNCHANGED <<mode, doneKey, lockKey, row, pc, locals, effects>>

RedisReturns ==
  /\ ~ready
  /\ ready' = TRUE
  /\ \/ UNCHANGED <<doneKey, lockKey>>
     \/ doneKey' = FALSE /\ lockKey' = Free
  /\ UNCHANGED <<mode, row, pc, locals, effects>>

Crash(r) ==
  /\ mode = "rough"
  /\ pc[r] \notin Final \cup {"idle"}
  /\ Goto(r, "crashed")
  /\ UNCHANGED <<mode, redis, row, locals, effects>>

Step(r) == getDone(r) \/ dbGet(r) \/ AcquireLock(r) \/ Handle(r)
             \/ storeDone(r) \/ dbSet(r) \/ Respond(r)

Next ==
  \/ \E r \in Requests : Arrive(r) \/ Step(r) \/ Crash(r)
  \/ LockExpires
  \/ RedisDrops
  \/ RedisReturns

Spec == Init /\ [][Next]_vars

--------------------------------------------------------------------------------
(* Properties *)

\* "Only one request per scopedKey can hold the Redis lock at a time": while Redis
\* is steady, handlers and the storing of their responses never overlap.
OneAtATime ==
  mode = "steady" => \A r, q \in Requests : Running(r) /\ Running(q) => r = q

\* Replays are honest both ways.  What is stored or replayed is the response of a successful execution, never of a failed
\* one that the client has to correct; and a retry that arrives after the response of a captured execution was sent is
\* never executed again, though Redis may have been down at either time, come back empty or lost the lock: the copy in
\* the database is enough.
ReplaysAreHonest ==
  /\ doneKey \/ row \/ (\E r \in Requests : pc[r] = "replayed") => effects > 0
  /\ mode # "rough" => (\A r \in Requests :
       late[r] => pc[r] \notin {"lock", "handler", "bare"} \cup InCapture)

\* "replayed requests get the original response with no re-execution" and the lock
\* "prevents two concurrent requests with the same key from both executing business
\* logic".  The lookup precedes the lock and is not repeated under it, so a duplicate
\* that looked before the first one stored its response and locks after its release
\* executes again.
ExecutedOnce == mode = "steady" => effects <= 1

================================================================================
