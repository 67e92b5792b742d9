-------------------------- MODULE QueueReliability --------------------------
(***************************************************************************)
(* The queue health that /health/ready reports: the in-memory registry of  *)
(* planbuddy_v9/utils/queueReliabilityState.js, kept by the queue's Redis  *)
(* client, by config/queues.js and by whoever reports scheduler, worker    *)
(* and backlog telemetry.  The code that would report is not in the        *)
(* repository: those marks are external and may come at any time.          *)
(***************************************************************************)
EXTENDS RedisClient

CONSTANTS Workers,
          staleAfter    \* staleAfterMs of computeStatus

HealthAssumption == ClientAssumption /\ staleAfter \in Nat

VARIABLES connected,    \* redis.connected
          initialized,  \* queues.initialized with no initErrors
          backlogged,   \* backlog.degraded, or worstDepth at its limit
          scheduler,    \* [active, age]
          worker,       \* [active, age] for a worker that has reported, else Unheard
          gone          \* ghost: ticks since the process of a worker is gone

healthVars == << connected, initialized, backlogged, scheduler, worker, gone >>
vars == << clientVars, healthVars >>

\* Ages are kept up to Old, which is beyond the limit; Unheard is the report of nobody.
Old == staleAfter + 1
Unheard == [active |-> FALSE, age |-> Old + 1]

Init ==
    /\ ClientInit
    /\ connected = FALSE /\ initialized = FALSE /\ backlogged = FALSE
    /\ scheduler = Unheard
    /\ worker = [w \in Workers |-> Unheard]
    /\ gone = [w \in Workers |-> 0]

Telemetry == << initialized, backlogged, scheduler, worker, gone >>

-----------------------------------------------------------------------------
(* The queue's client.                                                     *)

\* Fault: the client's errors are logged only.
DisconnectLogged == connected' = connected

markRedisDisconnected == connected' = FALSE

markRedisConnected == connected' = TRUE

ClientDown == (Breaks \/ ConnectFails) /\ markRedisDisconnected /\ UNCHANGED Telemetry
ClientUp == Connects /\ markRedisConnected /\ UNCHANGED Telemetry
ClientRetries == Reconnect /\ UNCHANGED healthVars

-----------------------------------------------------------------------------
(* Queues, scheduler, workers and backlog.                                 *)

\* markQueueInitialized clears the errors, markQueueInitError adds one.
scheduleRepeatableJobs ==
    /\ initialized' \in BOOLEAN
    /\ UNCHANGED << clientVars, connected, backlogged, scheduler, worker, gone >>

updateBacklog ==
    /\ backlogged' = ~backlogged
    /\ UNCHANGED << clientVars, connected, initialized, scheduler, worker, gone >>

\* Heartbeats say "active", errors do not; a scheduler error leaves the last heartbeat alone.
markScheduler ==
    /\ scheduler' \in {[active |-> TRUE, age |-> 0], [active |-> FALSE, age |-> scheduler.age]}
    /\ UNCHANGED << clientVars, connected, initialized, backlogged, worker, gone >>

markWorker(w) ==
    /\ gone[w] = 0
    /\ \E active \in BOOLEAN : worker' = [worker EXCEPT ![w] = [active |-> active, age |-> 0]]
    /\ UNCHANGED << clientVars, connected, initialized, backlogged, scheduler, gone >>

WorkerDies(w) ==
    /\ gone[w] = 0
    /\ gone' = [gone EXCEPT ![w] = 1]
    /\ UNCHANGED << clientVars, connected, initialized, backlogged, scheduler, worker >>

Older(n) == IF n <= staleAfter THEN n + 1 ELSE n

Tick ==
    /\ TimePasses
    /\ scheduler' = [scheduler EXCEPT !.age = Older(@)]
    /\ worker' = [w \in Workers |-> [worker[w] EXCEPT !.age = Older(@)]]
    /\ gone' = [w \in Workers |-> IF gone[w] = 0 THEN 0 ELSE IF gone[w] <= Old THEN gone[w] + 1 ELSE gone[w]]
    /\ UNCHANGED << connected, initialized, backlogged >>

-----------------------------------------------------------------------------
(* computeStatus                                                           *)

Fresh(report) == report.active /\ report.age <= staleAfter

Reported == {w \in Workers : worker[w] # Unheard}

computeStatus ==
    LET workerOk == Reported # {} /\ \A w \in Reported : Fresh(worker[w]) IN
    IF ~connected \/ ~workerOk \/ ~Fresh(scheduler) THEN "red"
    ELSE IF ~initialized \/ backlogged THEN "yellow"
    ELSE "green"

\* /health/ready looks at the registry after its query has been answered.
ready(databaseAnswers) ==
    CASE ~databaseAnswers -> "not ready"
      [] databaseAnswers /\ computeStatus = "green" -> "ready"
      [] OTHER -> "degraded"

Next ==
    \/ ClientDown \/ ClientUp \/ ClientRetries
    \/ scheduleRepeatableJobs \/ updateBacklog \/ markScheduler
    \/ \E w \in Workers : markWorker(w) \/ WorkerDies(w)
    \/ Tick

Spec == Init /\ [][Next]_vars

-----------------------------------------------------------------------------
TypeOK ==
    /\ ClientTypeOK
    /\ {connected, initialized, backlogged} \subseteq BOOLEAN
    /\ {scheduler} \union {worker[w] : w \in Workers} \subseteq [active: BOOLEAN, age: 0..(Old + 1)]
    /\ gone \in [Workers -> 0..(Old + 1)]

\* /health/ready never answers "ready" from a leftover: the queue's client is connected at this moment, and a worker whose
\* process is gone has been gone for no longer than staleAfter.  (A worker that never reported is not looked at.)
ReadyIsTrue ==
    \A databaseAnswers \in BOOLEAN : ready(databaseAnswers) = "ready" =>
        /\ databaseAnswers
        /\ status = "connected"
        /\ \A w \in Reported : gone[w] <= staleAfter + 1
=============================================================================
