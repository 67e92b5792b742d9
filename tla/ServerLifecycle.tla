-------------------------- MODULE ServerLifecycle --------------------------
(***************************************************************************)
(* Start and graceful shutdown of the HTTP process (planbuddy_v9/server.js)*)
(* around the requests of Backpressure.  Each phase of the shutdown is a   *)
(* race of its task with a timer; a task that lost goes on in the          *)
(* background until the process exits.  A connection carries one request.  *)
(*                                                                         *)
(* External: the handlers (they take a database client, give it back and   *)
(* answer), BullMQ's close, ioredis' quit and pg's pool.end, each of which *)
(* may also never answer.                                                  *)
(***************************************************************************)
EXTENDS Backpressure

CONSTANTS RedisClients    \* number of clients that closeRedis quits one after the other

ServerAssumption == BackpressureAssumption /\ RedisClients \in Nat

VARIABLES phase,          \* where start() or gracefulShutdown() is
          IS_PROD,
          exitCode,       \* -1 while the process runs
          connections,    \* requests whose socket is open
          holding,        \* requests whose handler holds a database client
          draining,       \* drainQueues is running
          quitting,       \* closeRedis: clients quit so far, -1 when not started
          pool,           \* "open", or "ending" once pool.end() was called
          dying           \* an unhandled rejection or exception: exit in 100 ms

slVars == << phase, IS_PROD, exitCode, connections, holding, draining, quitting, pool, dying >>
vars == << bpVars, slVars >>

Checks == {"checkDatabase", "checkRedis", "checkRateLimitRedis"}
ShutdownPhases == {"drain", "queues", "redis", "db"}
Phases == Checks \union {"listening", "exited"} \union ShutdownPhases

Init ==
    /\ BackpressureInit
    /\ phase = "checkDatabase"
    /\ IS_PROD \in BOOLEAN
    /\ exitCode = -1
    /\ connections = {} /\ holding = {}
    /\ draining = FALSE /\ quitting = -1 /\ pool = "open"
    /\ dying = FALSE

Running == exitCode = -1

Exits(code) == exitCode' = code /\ phase' = "exited"

Background == << IS_PROD, connections, holding, draining, quitting, pool, dying >>

-----------------------------------------------------------------------------
(* Start                                                                   *)

AfterCheck(p) ==
    CASE p = "checkDatabase" -> "checkRedis"
      [] p = "checkRedis"    -> "checkRateLimitRedis"
      [] OTHER               -> "listening"

\* A check that passes; a Redis check that fails is tolerated outside production.
verifyDependencies ==
    /\ phase \in Checks
    /\ phase' = AfterCheck(phase)
    /\ UNCHANGED << bpVars, Background, exitCode >>

CheckFails ==
    /\ phase \in Checks
    /\ phase = "checkDatabase" \/ IS_PROD
    /\ Exits(1)
    /\ UNCHANGED << bpVars, Background >>

-----------------------------------------------------------------------------
(* Requests                                                                *)

Connect(r) ==
    /\ phase = "listening"
    /\ backpressureMiddleware(r)
    /\ connections' = IF request'[r] = "handling" THEN connections \union {r} ELSE connections
    /\ UNCHANGED << phase, IS_PROD, exitCode, holding, draining, quitting, pool, dying >>

TakesClient(r) ==
    /\ Running /\ request[r] = "handling" /\ pool = "open"
    /\ holding' = holding \union {r}
    /\ UNCHANGED << bpVars, phase, IS_PROD, exitCode, connections, draining, quitting, pool, dying >>

Answers(r) ==
    /\ Running
    /\ HandlerEnds(r)
    /\ holding' = holding \ {r}
    /\ UNCHANGED << phase, IS_PROD, exitCode, connections, draining, quitting, pool, dying >>

Flushed(r) ==
    /\ Running
    /\ onFinish(r)
    /\ connections' = connections \ {r}
    /\ UNCHANGED << phase, IS_PROD, exitCode, holding, draining, quitting, pool, dying >>

HangsUp(r) ==
    /\ Running /\ r \in connections
    /\ onClose({r})
    /\ connections' = connections \ {r}
    /\ UNCHANGED << phase, IS_PROD, exitCode, holding, draining, quitting, pool, dying >>

-----------------------------------------------------------------------------
(* Shutdown                                                                *)

\* SIGTERM or SIGINT; a second one is ignored.
gracefulShutdown ==
    /\ phase = "listening"
    /\ phase' = "drain"
    /\ UNCHANGED << bpVars, Background, exitCode >>

\* Fault: the shutdown goes on although requests are open.
DrainedAtOnce == phase = "drain"

\* server.close() calls back when no connection is left.
Drained == phase = "drain" /\ connections = {}

drainRequests ==
    /\ Drained
    /\ phase' = "queues" /\ draining' = TRUE
    /\ UNCHANGED << bpVars, IS_PROD, exitCode, connections, holding, quitting, pool, dying >>

\* After 30 s the remaining connections are destroyed; their handlers go on.
DrainTimeout ==
    /\ phase = "drain" /\ connections # {}
    /\ onClose(connections)
    /\ connections' = {}
    /\ phase' = "queues" /\ draining' = TRUE
    /\ UNCHANGED << IS_PROD, exitCode, holding, quitting, pool, dying >>

\* The queues are closed, before or after the timer of their phase.
drainQueues ==
    /\ Running /\ draining
    /\ draining' = FALSE
    /\ IF phase = "queues" THEN phase' = "redis" /\ quitting' = 0 ELSE UNCHANGED << phase, quitting >>
    /\ UNCHANGED << bpVars, IS_PROD, exitCode, connections, holding, pool, dying >>

QueueTimeout ==
    /\ phase = "queues"
    /\ phase' = "redis" /\ quitting' = 0
    /\ UNCHANGED << bpVars, IS_PROD, exitCode, connections, holding, draining, pool, dying >>

\* One client after the other answers QUIT or fails to.
closeRedis ==
    /\ Running /\ quitting \in 0..(RedisClients - 1)
    /\ quitting' = quitting + 1
    /\ IF phase = "redis" /\ quitting' = RedisClients
       THEN phase' = "db" /\ pool' = "ending"
       ELSE UNCHANGED << phase, pool >>
    /\ UNCHANGED << bpVars, IS_PROD, exitCode, connections, holding, draining, dying >>

\* Fault: no timer runs against the Redis clients.
NeverTimesOut == FALSE /\ UNCHANGED vars

RedisTimeout ==
    /\ phase = "redis"
    /\ phase' = "db" /\ pool' = "ending"
    /\ UNCHANGED << bpVars, IS_PROD, exitCode, connections, holding, draining, quitting, dying >>

\* pool.end() answers when no client is checked out.
closeDatabase ==
    /\ phase = "db" /\ holding = {}
    /\ Exits(0)
    /\ UNCHANGED << bpVars, Background >>

DatabaseTimeout ==
    /\ phase = "db"
    /\ Exits(0)
    /\ UNCHANGED << bpVars, Background >>

Fatal ==
    /\ phase \in {"listening"} \union ShutdownPhases
    /\ ~dying
    /\ dying' = TRUE
    /\ UNCHANGED << bpVars, phase, IS_PROD, exitCode, connections, holding, draining, quitting, pool >>

FatalExit ==
    /\ dying /\ Running
    /\ Exits(1)
    /\ UNCHANGED << bpVars, Background >>

-----------------------------------------------------------------------------
Timeouts == DrainTimeout \/ QueueTimeout \/ RedisTimeout \/ DatabaseTimeout

Next ==
    \/ verifyDependencies \/ CheckFails
    \/ \E r \in Requests : Connect(r) \/ TakesClient(r) \/ Answers(r) \/ Flushed(r) \/ HangsUp(r)
    \/ gracefulShutdown
    \/ drainRequests \/ drainQueues \/ closeRedis \/ closeDatabase
    \/ DrainTimeout \/ QueueTimeout \/ RedisTimeout \/ DatabaseTimeout
    \/ Fatal \/ FatalExit

Spec == Init /\ [][Next]_vars

-----------------------------------------------------------------------------
TypeOK ==
    /\ BackpressureTypeOK
    /\ phase \in Phases
    /\ {IS_PROD, draining, dying} \subseteq BOOLEAN
    /\ exitCode \in {-1, 0, 1}
    /\ connections \subseteq Requests /\ holding \subseteq Requests
    /\ quitting \in -1..RedisClients
    /\ pool \in {"open", "ending"}

\* The pool is not closed under a request whose client still waits for it: whatever loses its race with a timer, every
\* handler that is running when pool.end() is called works for a client that hung up or was cut off.
PoolOutlivesClients == pool = "ending" => \A r \in Requests : request[r] = "handling" => r \in hungUp

\* A shutdown ends the process even when a handler, a queue, a Redis client or the pool never answers.
ShutdownEnds == phase = "drain" ~> phase = "exited"
=============================================================================
