------------------------------- MODULE BaseWorker -------------------------------
(***************************************************************************)
(* The poll loop, drain and shutdown of one worker (base-worker.js) on top *)
(* of the controller of its queue (adaptive-controller.js).  What happens  *)
(* to a claimed row is the business of LeaseQueue; here a claimed item is  *)
(* a busy slot that is freed when its execution ends.                      *)
(*                                                                         *)
(* A poll is a chain of awaited statements: the rate limit bucket, the     *)
(* drain flag, the claim.  It has no timer while it runs, but a NOTIFY may *)
(* set one, so polls overlap.                                              *)
(***************************************************************************)
EXTENDS AdaptiveController

CONSTANTS Polls,             \* polls that may be in flight at a time
          BatchSize,         \* BATCH_SIZE[queueKey]
          RateLimitEnabled   \* RATE_LIMIT.ENABLED[queueKey]

WorkerAssumption ==
  /\ BatchSize \in Nat \ {0}
  /\ RateLimitEnabled \in BOOLEAN

VARIABLES notify,            \* LISTEN is connected, wakeups may arrive
          running, draining,
          timer,             \* a poll is scheduled
          poll, room,        \* where each poll in flight is, and its batch limit
          activeSlots,
          stopping,          \* where stop() is
          registered, drain_requested   \* the row in worker_heartbeats

worker == <<notify, running, draining, timer, poll, room, activeSlots, stopping,
            registered, drain_requested>>
vars == <<circuit, cooled, failures, rateLimits, probes, successes, concurrency,
          streak, queueDraining, notify, running, draining, timer, poll, room,
          activeSlots, stopping, registered, drain_requested>>

TypeOK ==
  /\ ControllerTypeOK
  /\ notify \in BOOLEAN
  /\ running \in BOOLEAN
  /\ draining \in BOOLEAN
  /\ timer \in BOOLEAN
  /\ poll \in [Polls -> {"idle", "rate", "check", "claim"}]
  /\ room \in [Polls -> 0 .. BatchSize]
  /\ activeSlots \in Nat
  /\ stopping \in {"no", "draining", "deregistering", "stopped"}
  /\ registered \in BOOLEAN
  /\ drain_requested \in BOOLEAN

\* start() has returned.
Init ==
  /\ ControllerInit
  /\ notify \in BOOLEAN
  /\ running = TRUE
  /\ draining = FALSE
  /\ timer = TRUE
  /\ poll = [p \in Polls |-> "idle"]
  /\ room = [p \in Polls |-> 0]
  /\ activeSlots = 0
  /\ stopping = "no"
  /\ registered = TRUE
  /\ drain_requested = FALSE

lifecycle == <<notify, running, draining, activeSlots, stopping, registered,
               drain_requested>>

--------------------------------------------------------------------------------
(* _poll *)

At(p, place) == poll' = [poll EXCEPT ![p] = place]

\* Fault: a poll that ends does not schedule the next one.
ForgetsToSchedule(p) ==
  /\ At(p, "idle")
  /\ room' = [room EXCEPT ![p] = 0]
  /\ UNCHANGED timer

\* The poll returns; whatever made it return, it schedules the next one.
_schedulePoll(p) ==
  /\ At(p, "idle")
  /\ room' = [room EXCEPT ![p] = 0]
  /\ timer' = TRUE

available == concurrency - activeSlots

\* Everything between the rate limit and the claim; the timer stays as it was set.
ComputeRoom(p, set) ==
  IF available <= 0
    THEN _schedulePoll(p)
    ELSE /\ At(p, "check")
         /\ room' = [room EXCEPT ![p] = AtMost(available, BatchSize)]
         /\ timer' = set

Stopped == ~running

\* The timer fires: the synchronous part of a poll.
PollFires(p) ==
  /\ timer
  /\ poll[p] = "idle"
  /\ IF Stopped
       THEN timer' = FALSE /\ UNCHANGED <<poll, room, controller>>
       ELSE /\ ~draining     \* a draining worker only schedules its next poll
            /\ canProcess
            /\ IF ~Admits
                 THEN _schedulePoll(p)
                 ELSE IF RateLimitEnabled
                        THEN At(p, "rate") /\ timer' = FALSE /\ UNCHANGED room
                        ELSE ComputeRoom(p, FALSE)
  /\ UNCHANGED lifecycle

\* The answer of acquireRateLimit, which fails open.
RateAnswer(p) ==
  /\ poll[p] = "rate"
  /\ \/ _schedulePoll(p) /\ onRateLimited
     \/ ComputeRoom(p, timer) /\ UNCHANGED controller
  /\ UNCHANGED lifecycle

\* First statement of atomicClaim: the drain flag of the worker's row.
DrainCheck(p) ==
  /\ poll[p] = "check"
  /\ IF registered /\ drain_requested
       THEN _schedulePoll(p)
       ELSE At(p, "claim") /\ UNCHANGED <<room, timer>>
  /\ UNCHANGED <<controller, lifecycle>>

\* The claim returns up to room rows, none at all, or throws.
ClaimAnswer(p) ==
  /\ poll[p] = "claim"
  /\ \E n \in 0 .. room[p] : activeSlots' = activeSlots + n
  /\ _schedulePoll(p)
  /\ UNCHANGED <<controller, notify, running, draining, stopping, registered,
                 drain_requested>>

\* A statement of atomicClaim throws.
ClaimThrows(p) ==
  /\ poll[p] \in {"check", "claim"}
  /\ _schedulePoll(p)
  /\ UNCHANGED <<controller, lifecycle>>

\* NOTIFY: _triggerImmediatePoll.
Wakeup ==
  /\ notify
  /\ running /\ ~draining
  /\ ~timer
  /\ timer' = TRUE
  /\ UNCHANGED <<controller, poll, room, lifecycle>>

--------------------------------------------------------------------------------
(* Executions, drain and shutdown *)

\* An execution ends: committed, failed, or failed without a trace because
\* commitFailure threw; the last one resolves the promise stop() waits for.
ItemEnds ==
  /\ activeSlots > 0
  /\ onSuccess \/ onFailure \/ UNCHANGED controller
  /\ activeSlots' = activeSlots - 1
  /\ stopping' = IF stopping = "draining" /\ activeSlots' = 0 THEN "deregistering"
                                                              ELSE stopping
  /\ UNCHANGED <<notify, running, draining, timer, poll, room, registered,
                 drain_requested>>

drain ==
  /\ ~draining
  /\ draining' = TRUE
  /\ setDraining
  /\ UNCHANGED <<notify, running, timer, poll, room, activeSlots, stopping, registered,
                 drain_requested>>

\* Sent by drain(), or by an operator for a rolling deployment.
requestWorkerDrain ==
  /\ registered /\ ~drain_requested
  /\ drain_requested' = TRUE
  /\ UNCHANGED <<controller, notify, running, draining, timer, poll, room, activeSlots,
                 stopping, registered>>

\* The heartbeat refresh writes the worker's own flag.
HeartbeatRefresh ==
  /\ registered /\ drain_requested # draining
  /\ drain_requested' = draining
  /\ UNCHANGED <<controller, notify, running, draining, timer, poll, room, activeSlots,
                 stopping, registered>>

\* Fault: stop waits although nothing is in flight.
WaitsAlways == "draining"

WaitsFor == IF activeSlots = 0 THEN "deregistering" ELSE "draining"

stop ==
  /\ running
  /\ running' = FALSE
  /\ timer' = FALSE
  /\ stopping' = WaitsFor
  /\ UNCHANGED <<controller, notify, draining, poll, room, activeSlots, registered,
                 drain_requested>>

_deregisterHeartbeat ==
  /\ stopping = "deregistering"
  /\ stopping' = "stopped"
  /\ registered' = FALSE
  /\ drain_requested' = FALSE
  /\ UNCHANGED <<controller, notify, running, draining, timer, poll, room, activeSlots>>

Clock == OpenTimeout /\ UNCHANGED worker

PollStep(p) == RateAnswer(p) \/ DrainCheck(p) \/ ClaimAnswer(p) \/ ClaimThrows(p)

Next ==
  \/ \E p \in Polls : \/ PollFires(p)
                      \/ RateAnswer(p)
                      \/ DrainCheck(p)
                      \/ ClaimAnswer(p)
                      \/ ClaimThrows(p)
  \/ Wakeup \/ ItemEnds \/ drain \/ requestWorkerDrain \/ HeartbeatRefresh
  \/ stop \/ _deregisterHeartbeat \/ Clock

Spec == Init /\ [][Next]_vars

--------------------------------------------------------------------------------
(* Properties *)

\* "Workers MUST still poll as fallback": while the worker runs, a poll is
\* scheduled or in flight, whichever way the previous ones returned.
LoopAlive == running /\ ~draining => timer \/ \E p \in Polls : poll[p] # "idle"

\* stop() returns once the executions have ended.
StopReturns == stopping # "no" ~> stopping = "stopped"

\* "Circuit HALF_OPEN - probing" (adaptive-controller.js:206): a half-open circuit of a running worker admits another probe, or
\* has one under way whose end will decide.
ProbesDecide ==
  running /\ circuit = "HALF_OPEN" => Admits \/ activeSlots > 0 \/ \E p \in Polls : poll[p] # "idle"

================================================================================
