------------------------------ MODULE MCProcess ------------------------------
(* Two parts of the worker processes that share no state: the poll loop of   *)
(* one worker with the controller of its queue, and the region managers with *)
(* the leader lock.  A behaviour follows one of them; the other stays where  *)
(* it starts.                                                                *)
EXTENDS MCRegionLeader

CONSTANTS Polls, BatchSize, RateLimitEnabled,
          InitialConcurrency, MinConcurrency, MaxConcurrency, FailureThreshold, ProbeCount, GainEvery, RateLimitSpike

VARIABLES part,
          circuit, cooled, failures, rateLimits, probes, successes, concurrency, streak, queueDraining,
          notify, working, draining, timer, poll, room, activeSlots, stopping, registered, drain_requested

worker == << circuit, cooled, failures, rateLimits, probes, successes, concurrency, streak, queueDraining, notify, working,
             draining, timer, poll, room, activeSlots, stopping, registered, drain_requested >>
region == << calm, holder, epoch, live, role, running, beating, isPrimary, myEpoch, pc, arg, faults >>
process == << part, worker, region >>

Wk == INSTANCE BaseWorker WITH running <- working

ASSUME ProcessConstants == Wk!WorkerAssumption /\ Wk!ControllerAssumption /\ RegionAssumption

\* A part that is not followed needs one initial state only.
ProcessInit ==
    /\ part \in {"worker", "region"}
    /\ Wk!Init /\ (part # "worker" => notify)
    /\ Init /\ (part # "region" => calm /\ holder = eu)

\* A step of one part.
WorkerStep(A) == part = "worker" /\ A /\ UNCHANGED << part, region >>
RegionStep(A) == part = "region" /\ A /\ UNCHANGED << part, worker >>

ProcessNext == WorkerStep(Wk!Next) \/ RegionStep(Next)

\* Timers fire, statements are answered, executions end.
WorkerFairness ==
    /\ WF_process(WorkerStep(\E p \in Polls : Wk!PollFires(p)))
    /\ \A p \in Polls : WF_process(WorkerStep(Wk!PollStep(p)))
    /\ WF_process(WorkerStep(Wk!ItemEnds))
    /\ WF_process(WorkerStep(Wk!_deregisterHeartbeat))

\* Timers keep firing and statements are answered; the INSERT of a first boot, tried again by every tick, does not fail for
\* ever; the lease of a stopped region runs out.
RegionFairness ==
    /\ \A t \in Ticks : WF_process(RegionStep(TickStep(t))) /\ SF_process(RegionStep(InsertFirst(t)))
    /\ WF_process(RegionStep(LeaseExpires /\ holder \notin running))

ProcessSpec == ProcessInit /\ [][ProcessNext]_process /\ WorkerFairness /\ RegionFairness

ProcessTypeOK == Wk!TypeOK /\ TypeOK

LoopAlive == Wk!LoopAlive
StopReturns == Wk!StopReturns
FailsOver == part = "region" => Failover
==============================================================================
