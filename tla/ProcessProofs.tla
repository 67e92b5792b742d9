----------------------------- MODULE ProcessProofs -----------------------------
(***************************************************************************)
(* Proofs about the parts of MCProcess, each for its own specification:    *)
(* the leader election, for any number of regions, of ticks that overlap,  *)
(* and of faults; the worker's poll loop with the controller of its queue, *)
(* for any number of overlapping polls and any thresholds.                 *)
(***************************************************************************)
EXTENDS MCProcess, TLAPS

--------------------------------------------------------------------------------
(* The leader election                                                     *)

LeaderTyped ==
  /\ calm \in BOOLEAN
  /\ holder \in Regions \cup {NoRegion}
  /\ epoch \in Nat
  /\ live \in BOOLEAN
  /\ running \subseteq Regions
  /\ isPrimary \in [Regions -> BOOLEAN]
  /\ pc \in [Ticks -> Points]

\* Before the first region took the lease it is not live, and no epoch was given out.
NobodysLease == holder = NoRegion => ~live /\ epoch = 0

\* In calm times a tick that was granted the lease, and a manager that learnt of it, are right as long as their process
\* lives: the answer cannot grow old between the statement and what follows it.
AnswersHold ==
  calm =>
    /\ holder # NoRegion
    /\ \A t \in Ticks : pc[t] = "granted" /\ RegionOf[t] \in running => holder = RegionOf[t] /\ live
    /\ \A t \in Ticks : pc[t] # "first"
    /\ \A r \in running : isPrimary[r] => holder = r /\ live

LeaderInv == LeaderTyped /\ NobodysLease /\ AnswersHold

\* Nobody runs and no lease is live when the regions boot.
LEMMA Booted == ASSUME RegionAssumption PROVE Init => LeaderInv
<1> SUFFICES ASSUME Init PROVE LeaderInv
  OBVIOUS
<1>1. LeaderTyped
  <2>1. calm \in BOOLEAN /\ live \in BOOLEAN /\ epoch \in Nat
    <3>1. CASE calm \in BOOLEAN /\ holder \in Regions /\ epoch = 1
      BY <3>1 DEF Init
    <3>2. CASE calm = FALSE /\ holder = NoRegion /\ epoch = 0
      BY <3>2 DEF Init
    <3>3. QED BY <3>1, <3>2 DEF Init
  <2>2. holder \in Regions \cup {NoRegion} /\ running \subseteq Regions
    BY DEF Init
  <2>3. isPrimary \in [Regions -> BOOLEAN]
    BY DEF Init
  <2>4. pc \in [Ticks -> Points]
    BY DEF Init, Points
  <2>5. QED BY <2>1, <2>2, <2>3, <2>4 DEF LeaderTyped
<1>2. NobodysLease
  BY DEF Init, NobodysLease, RegionAssumption
<1>3. AnswersHold
  <2>1. calm => holder # NoRegion
    BY DEF Init, RegionAssumption
  <2>2. running = {} /\ \A t \in Ticks : pc[t] = "idle"
    BY DEF Init
  <2>3. \A t \in Ticks : RegionOf[t] \notin running
    BY <2>2
  <2>4. QED BY <2>1, <2>2, <2>3 DEF AnswersHold
<1>4. QED BY <1>1, <1>2, <1>3 DEF LeaderInv

\* Every statement of a tick and its failure, starts, stops and the end of a lease.
LEMMA LeaderKeeps == ASSUME RegionAssumption, LeaderInv, [Next]_vars PROVE LeaderInv'
<1> USE DEF RegionAssumption, LeaderInv, LeaderTyped, NobodysLease, AnswersHold, Points, Goto, lock, manager, MayTick
<1>1. ASSUME NEW t \in Ticks, SelectFindsNothing(t) PROVE LeaderInv'
  BY <1>1 DEF SelectFindsNothing
<1>2. ASSUME NEW t \in Ticks, InsertFirst(t) PROVE LeaderInv'
  <2>1. CASE holder = NoRegion
    BY <1>2, <2>1 DEF InsertFirst
  <2>2. CASE holder # NoRegion
    BY <1>2, <2>2 DEF InsertFirst
  <2>3. QED BY <2>1, <2>2
<1>3. ASSUME NEW t \in Ticks, Renew(t) PROVE LeaderInv'
  BY <1>3 DEF Renew
<1>4. ASSUME NEW t \in Ticks, Steal(t) PROVE LeaderInv'
  BY <1>4 DEF Steal, MaySteal, NextEpoch
<1>5. ASSUME NEW t \in Ticks, Refuse(t) PROVE LeaderInv'
  BY <1>5 DEF Refuse
<1>6. ASSUME NEW t \in Ticks, Learn(t) PROVE LeaderInv'
  BY <1>6 DEF Learn, Granted
<1>7. ASSUME NEW t \in Ticks, ReadEpoch(t) PROVE LeaderInv'
  BY <1>7 DEF ReadEpoch
<1>8. ASSUME NEW t \in Ticks, WriteRegistry(t) PROVE LeaderInv'
  BY <1>8 DEF WriteRegistry, TickEnds
<1>9. ASSUME NEW t \in Ticks, TickFails(t) PROVE LeaderInv'
  BY <1>9 DEF TickFails, TickEnds
<1>10. ASSUME NEW r \in Regions, Start(r) PROVE LeaderInv'
  BY <1>10 DEF Start
<1>11. ASSUME NEW r \in Regions, Stop(r) PROVE LeaderInv'
  BY <1>11 DEF Stop
<1>12. CASE LeaseExpires
  BY <1>12 DEF LeaseExpires
<1>13. CASE UNCHANGED vars
  BY <1>13 DEF vars
<1> HIDE DEF RegionAssumption, LeaderInv, LeaderTyped, NobodysLease, AnswersHold, Points, Goto, lock, manager, MayTick
<1>14. QED
  BY <1>1, <1>2, <1>3, <1>4, <1>5, <1>6, <1>7, <1>8, <1>9, <1>10, <1>11, <1>12, <1>13 DEF Next

\* The inductive invariant holds in every reachable state.
LEMMA LeaderInvariant == ASSUME RegionAssumption PROVE Spec => []LeaderInv
  BY Booted, LeaderKeeps, PTL DEF Spec

\* With the lock row in place and leases renewed in time, a running region that believes it is the primary holds the
\* lease, whatever its overlapping ticks read before.
THEOREM PrimaryHoldsLease == ASSUME RegionAssumption PROVE Spec => []SinglePrimary
<1>1. LeaderInv => SinglePrimary
  BY DEF LeaderInv, AnswersHold, SinglePrimary
<1>2. QED BY <1>1, LeaderInvariant, PTL

\* The lock changes hands only when its lease has run out, and each change, and nothing else, takes the next epoch.
LeaseFenced ==
  /\ holder' # holder => ~live /\ epoch' = epoch + 1
  /\ epoch' # epoch   => ~live /\ epoch' = epoch + 1

\* Only the INSERT of a first boot and a takeover write the lock's holder and epoch.
LEMMA LeaseFences == ASSUME RegionAssumption, LeaderInv, [Next]_vars PROVE [LeaseFenced]_vars
<1> USE DEF LeaseFenced, lock, manager
<1>1. ASSUME NEW t \in Ticks, InsertFirst(t) PROVE LeaseFenced
  BY <1>1 DEF InsertFirst, LeaderInv, NobodysLease, LeaderTyped
<1>2. ASSUME NEW t \in Ticks, Steal(t) PROVE LeaseFenced
  BY <1>2 DEF Steal, MaySteal, NextEpoch
<1>3. CASE UNCHANGED lock
  BY <1>3
<1>4. ASSUME NEW t \in Ticks,
             SelectFindsNothing(t) \/ Renew(t) \/ Refuse(t) \/ Learn(t) \/ ReadEpoch(t) \/ WriteRegistry(t) \/ TickFails(t)
      PROVE UNCHANGED lock
  BY <1>4 DEF SelectFindsNothing, Renew, Refuse, Learn, ReadEpoch, WriteRegistry, TickFails
<1>5. ASSUME NEW r \in Regions, Start(r) \/ Stop(r) PROVE UNCHANGED lock
  BY <1>5 DEF Start, Stop
<1>6. LeaseExpires => LeaseFenced
  BY DEF LeaseExpires
<1>7. UNCHANGED vars => UNCHANGED lock
  BY DEF vars
<1> HIDE DEF LeaseFenced, lock
<1>8. QED BY <1>1, <1>2, <1>3, <1>4, <1>5, <1>6, <1>7 DEF Next

\* EpochFencesHolders, for any number of regions, ticks and faults.
THEOREM EpochsFence == ASSUME RegionAssumption PROVE Spec => EpochFencesHolders
<1>1. Spec => [][LeaseFenced]_vars
  BY LeaseFences, LeaderInvariant, PTL DEF Spec
<1>2. QED BY <1>1 DEF EpochFencesHolders, LeaseFenced

\* The registry rows, the epochs managers read, the arguments of ticks and the budget of faults.
RegistryTyped ==
  /\ role \in [Regions -> {"none", "primary", "secondary", "draining"}]
  /\ beating \subseteq Regions
  /\ myEpoch \in [Regions -> Nat]
  /\ arg \in [Ticks -> {"primary", "secondary"}]
  /\ faults \in 0 .. MaxFaults

\* No region has a row or has read an epoch.
LEMMA RegistryStart == ASSUME RegionAssumption PROVE Init => RegistryTyped
  BY DEF Init, RegistryTyped, RegionAssumption

\* Statements write one of the roles, and stops and stalls stay within their budget.
LEMMA RegistryKeeps == ASSUME RegionAssumption, LeaderTyped, RegistryTyped, [Next]_vars PROVE RegistryTyped'
<1> USE DEF RegionAssumption, RegistryTyped, lock, manager
<1>1. ASSUME NEW t \in Ticks,
             SelectFindsNothing(t) \/ InsertFirst(t) \/ Renew(t) \/ Refuse(t) \/ Learn(t)
      PROVE  RegistryTyped'
  BY <1>1 DEF SelectFindsNothing, InsertFirst, Renew, Refuse, Learn
<1>2. ASSUME NEW t \in Ticks, Steal(t) PROVE RegistryTyped'
  BY <1>2 DEF Steal
<1>3. ASSUME NEW t \in Ticks, ReadEpoch(t) PROVE RegistryTyped'
  BY <1>3 DEF ReadEpoch, LeaderTyped
<1>4. ASSUME NEW t \in Ticks, WriteRegistry(t) \/ TickFails(t) PROVE RegistryTyped'
  BY <1>4 DEF WriteRegistry, TickFails, TickEnds
<1>5. ASSUME NEW r \in Regions, Start(r) PROVE RegistryTyped'
  BY <1>5 DEF Start
<1>6. ASSUME NEW r \in Regions, Stop(r) PROVE RegistryTyped'
  BY <1>6 DEF Stop, Fault
<1>7. CASE LeaseExpires
  BY <1>7 DEF LeaseExpires, Fault
<1>8. CASE UNCHANGED vars
  BY <1>8 DEF vars
<1> HIDE DEF RegionAssumption, RegistryTyped, lock, manager
<1>9. QED BY <1>1, <1>2, <1>3, <1>4, <1>5, <1>6, <1>7, <1>8 DEF Next

--------------------------------------------------------------------------------
(* The controller of a queue                                               *)

\* The assumption of MCProcess about the worker, taken apart.
LEMMA WorkerConstants ==
  /\ BatchSize \in Nat \ {0} /\ RateLimitEnabled \in BOOLEAN
  /\ MinConcurrency \in Nat \ {0} /\ InitialConcurrency \in MinConcurrency .. MaxConcurrency /\ MaxConcurrency \in Nat
  /\ FailureThreshold \in Nat \ {0} /\ ProbeCount \in Nat \ {0} /\ GainEvery \in Nat \ {0, 1}
  /\ RateLimitSpike \in Nat \ {0}
BY ProcessConstants DEF Wk!WorkerAssumption, Wk!ControllerAssumption

\* Halving and growing stay between the limits, and the streak is counted modulo GainEvery.
LEMMA ConcurrencyStays ==
  ASSUME Wk!ControllerTypeOK
  PROVE  /\ Wk!Halved \in MinConcurrency .. MaxConcurrency
         /\ Wk!Increased \in MinConcurrency .. MaxConcurrency
         /\ Wk!AtLeast(InitialConcurrency \div 4, MinConcurrency) \in MinConcurrency .. MaxConcurrency
         /\ (streak + 1) % GainEvery \in 0 .. GainEvery - 1
<1> USE WorkerConstants DEF Wk!ControllerTypeOK, Wk!AtLeast, Wk!AtMost
<1>1. \A n \in Nat : n \div 2 \in Nat /\ n \div 2 <= n /\ n \div 4 \in Nat /\ n \div 4 <= n
  BY SMT
<1>2. concurrency \in Nat /\ InitialConcurrency \in Nat
  OBVIOUS
<1>3. Wk!Halved \in MinConcurrency .. MaxConcurrency
  BY <1>1, <1>2 DEF Wk!Halved
<1>4. Wk!Increased \in MinConcurrency .. MaxConcurrency
  BY DEF Wk!Increased
<1>5. Wk!AtLeast(InitialConcurrency \div 4, MinConcurrency) \in MinConcurrency .. MaxConcurrency
  BY <1>1, <1>2
<1>6. (streak + 1) % GainEvery \in 0 .. GainEvery - 1
  BY SMT
<1>7. QED BY <1>3, <1>4, <1>5, <1>6

\* Every method of the controller, and its clock.
LEMMA ControllerKeeps ==
  ASSUME Wk!ControllerTypeOK,
         \/ Wk!canProcess \/ Wk!onSuccess \/ Wk!onFailure \/ Wk!onRateLimited \/ Wk!setDraining \/ Wk!OpenTimeout
         \/ UNCHANGED Wk!controller
  PROVE  Wk!ControllerTypeOK'
<1> USE WorkerConstants
<1>1. CASE Wk!canProcess
  BY <1>1 DEF Wk!canProcess, Wk!ControllerTypeOK, Wk!Admits, Wk!HalfOpens, Wk!ProbesSoFar
<1>2. CASE Wk!onSuccess
  <2>1. failures' = 0 /\ rateLimits' = 0 /\ queueDraining' = queueDraining
    BY <1>2 DEF Wk!onSuccess
  <2>2. CASE circuit = "HALF_OPEN" /\ successes + 1 >= ProbeCount
    <3>1. /\ circuit' = "CLOSED" /\ cooled' = FALSE /\ probes' = 0 /\ successes' = 0 /\ streak' = 1
          /\ concurrency' = Wk!AtLeast(InitialConcurrency \div 4, MinConcurrency)
      BY <1>2, <2>2 DEF Wk!onSuccess, Wk!_closeCircuit
    <3>2. cooled' \in BOOLEAN
      BY ONLY <3>1, Zenon
    <3>3. QED BY <2>1, <3>1, <3>2, ConcurrencyStays DEF Wk!ControllerTypeOK
  <2>3. CASE ~(circuit = "HALF_OPEN" /\ successes + 1 >= ProbeCount)
    <3>1. /\ successes' = IF circuit = "HALF_OPEN" THEN successes + 1 ELSE successes
          /\ streak' = (streak + 1) % GainEvery
          /\ concurrency' \in {Wk!Increased, concurrency}
          /\ UNCHANGED <<circuit, cooled, probes>>
      BY <1>2, <2>3 DEF Wk!onSuccess
    <3>2. concurrency' \in MinConcurrency .. MaxConcurrency /\ streak' \in 0 .. GainEvery - 1
      BY <3>1, ConcurrencyStays DEF Wk!ControllerTypeOK
    <3>3. QED BY <2>1, <2>3, <3>1, <3>2 DEF Wk!ControllerTypeOK
  <2>4. QED BY <2>2, <2>3
<1>3. CASE Wk!onFailure
  <2>1. /\ streak' = 0 /\ failures' = Wk!AtMost(failures + 1, FailureThreshold) /\ concurrency' = Wk!Halved
        /\ circuit' \in {circuit, "OPEN"} /\ (cooled' = FALSE \/ cooled' = cooled)
        /\ UNCHANGED <<rateLimits, probes, successes, queueDraining>>
    BY <1>3 DEF Wk!onFailure
  <2>2. cooled' \in BOOLEAN
    BY <2>1, Zenon DEF Wk!ControllerTypeOK
  <2>3. QED BY <2>1, <2>2, ConcurrencyStays DEF Wk!ControllerTypeOK, Wk!AtMost
<1>4. CASE Wk!onRateLimited
  <2>1. /\ streak' = 0 /\ concurrency' = Wk!Halved /\ rateLimits' = Wk!AtMost(rateLimits + 1, RateLimitSpike)
        /\ failures' \in {failures, Wk!AtMost(failures + 1, FailureThreshold)}
        /\ UNCHANGED <<circuit, cooled, probes, successes, queueDraining>>
    BY <1>4 DEF Wk!onRateLimited
  <2>2. QED BY <2>1, ConcurrencyStays DEF Wk!ControllerTypeOK, Wk!AtMost
<1>5. CASE Wk!setDraining
  <2>1. queueDraining' \in BOOLEAN
    BY <1>5, Zenon DEF Wk!setDraining
  <2>2. QED BY <1>5, <2>1 DEF Wk!setDraining, Wk!ControllerTypeOK
<1>6. CASE Wk!OpenTimeout
  <2>1. cooled' \in BOOLEAN
    BY <1>6, Zenon DEF Wk!OpenTimeout
  <2>2. QED BY <1>6, <2>1 DEF Wk!OpenTimeout, Wk!ControllerTypeOK
<1>7. CASE UNCHANGED Wk!controller
  BY <1>7 DEF Wk!controller, Wk!ControllerTypeOK
<1>8. QED BY <1>1, <1>2, <1>3, <1>4, <1>5, <1>6, <1>7

--------------------------------------------------------------------------------
(* The poll loop                                                           *)

WorkerInv == Wk!TypeOK /\ LoopAlive

\* The variables of the loop, of the executions and of the worker's row.
LoopTyped ==
  /\ timer \in BOOLEAN
  /\ poll \in [Polls -> {"idle", "rate", "check", "claim"}]
  /\ room \in [Polls -> 0 .. BatchSize]

RowTyped ==
  /\ notify \in BOOLEAN /\ working \in BOOLEAN /\ draining \in BOOLEAN
  /\ activeSlots \in Nat
  /\ stopping \in {"no", "draining", "deregistering", "stopped"}
  /\ registered \in BOOLEAN /\ drain_requested \in BOOLEAN

\* The two halves make up the types of BaseWorker.
LEMMA WorkerTypes == Wk!TypeOK <=> Wk!ControllerTypeOK /\ LoopTyped /\ RowTyped
  BY Zenon DEF Wk!TypeOK, LoopTyped, RowTyped

\* The worker has started, and its first poll is scheduled.
LEMMA WorkerStarts == Wk!Init => WorkerInv
<1> SUFFICES ASSUME Wk!Init PROVE WorkerInv
  OBVIOUS
<1>1. Wk!ControllerTypeOK
  <2>1. /\ circuit = "CLOSED" /\ cooled = FALSE /\ failures = 0 /\ rateLimits = 0 /\ probes = 0 /\ successes = 0
        /\ concurrency = InitialConcurrency /\ streak = 0 /\ queueDraining = FALSE
    BY DEF Wk!Init, Wk!ControllerInit
  <2>2. cooled \in BOOLEAN /\ queueDraining \in BOOLEAN
    BY ONLY <2>1, Zenon
  <2>3. QED BY WorkerConstants, <2>1, <2>2 DEF Wk!ControllerTypeOK
<1>2. LoopTyped
  <2>1. timer \in BOOLEAN
    BY Zenon DEF Wk!Init
  <2>2. QED BY WorkerConstants, <2>1 DEF Wk!Init, LoopTyped
<1>3. RowTyped
  <2>1. /\ notify \in BOOLEAN /\ working \in BOOLEAN /\ draining \in BOOLEAN /\ registered \in BOOLEAN
        /\ drain_requested \in BOOLEAN
    BY Zenon DEF Wk!Init
  <2>2. QED BY <2>1 DEF Wk!Init, RowTyped
<1>4. LoopAlive
  BY DEF Wk!Init, LoopAlive, Wk!LoopAlive
<1>5. QED BY <1>1, <1>2, <1>3, <1>4, WorkerTypes DEF WorkerInv

\* A poll that returns leaves the next one scheduled.
LEMMA PollReturns ==
  ASSUME LoopTyped, NEW p \in Polls, Wk!_schedulePoll(p)
  PROVE  LoopTyped' /\ timer'
<1>1. /\ poll' = [poll EXCEPT ![p] = "idle"] /\ room' = [room EXCEPT ![p] = 0] /\ timer' = TRUE
  BY DEF Wk!_schedulePoll, Wk!At
<1>2. timer' \in BOOLEAN /\ timer'
  BY ONLY <1>1, Zenon
<1>3. QED BY <1>1, <1>2, WorkerConstants DEF LoopTyped

\* A poll goes on with room for at least one item, or returns.
LEMMA RoomComputed ==
  ASSUME LoopTyped, RowTyped, Wk!ControllerTypeOK, NEW p \in Polls, NEW set \in BOOLEAN, Wk!ComputeRoom(p, set)
  PROVE  LoopTyped' /\ (timer' \/ \E q \in Polls : poll'[q] # "idle")
<1>1. CASE Wk!_schedulePoll(p)
  BY <1>1, PollReturns
<1>2. CASE ~Wk!_schedulePoll(p)
  <2>1. /\ ~(Wk!available <= 0) /\ poll' = [poll EXCEPT ![p] = "check"] /\ timer' = set
        /\ room' = [room EXCEPT ![p] = Wk!AtMost(Wk!available, BatchSize)]
    BY <1>2 DEF Wk!ComputeRoom, Wk!At
  <2>2. Wk!AtMost(Wk!available, BatchSize) \in 0 .. BatchSize
    <3>1. Wk!available \in Int
      BY WorkerConstants DEF Wk!available, Wk!ControllerTypeOK, RowTyped
    <3>2. QED BY <2>1, <3>1, WorkerConstants DEF Wk!AtMost
  <2>3. poll'[p] = "check"
    BY <2>1 DEF LoopTyped
  <2>4. QED BY <2>1, <2>2, <2>3 DEF LoopTyped
<1>3. QED BY <1>1, <1>2

\* Every step of a poll, of the executions, of a drain and of stop().
LEMMA WorkerKeeps == WorkerInv /\ [Wk!Next]_(Wk!vars) => WorkerInv'
<1> SUFFICES ASSUME WorkerInv, [Wk!Next]_(Wk!vars) PROVE WorkerInv'
  OBVIOUS
<1>1. Wk!ControllerTypeOK /\ LoopTyped /\ RowTyped /\ LoopAlive
  BY WorkerTypes DEF WorkerInv
<1>2. ASSUME Wk!ControllerTypeOK', LoopTyped', RowTyped', LoopAlive' PROVE WorkerInv'
  BY <1>2, Zenon DEF WorkerInv, Wk!TypeOK, LoopTyped, RowTyped
<1>3. ASSUME UNCHANGED Wk!lifecycle PROVE RowTyped' /\ UNCHANGED <<working, draining, activeSlots>>
  BY <1>1, <1>3 DEF Wk!lifecycle, RowTyped
<1>4. ASSUME timer' \/ \E q \in Polls : poll'[q] # "idle" PROVE LoopAlive'
  BY <1>4 DEF LoopAlive, Wk!LoopAlive
<1>5. ASSUME NEW p \in Polls, Wk!PollFires(p) PROVE WorkerInv'
  <2>1. RowTyped' /\ UNCHANGED <<working, draining>>
    BY <1>3, <1>5 DEF Wk!PollFires
  <2>2. CASE ~working
    <3>1. timer' = FALSE /\ UNCHANGED <<poll, room, Wk!controller>>
      BY <1>5, <2>2 DEF Wk!PollFires, Wk!Stopped
    <3>2. timer' \in BOOLEAN
      BY ONLY <3>1, Zenon
    <3>3. LoopTyped' /\ LoopAlive'
      BY <1>1, <2>1, <2>2, <3>1, <3>2 DEF LoopTyped, LoopAlive, Wk!LoopAlive
    <3>4. QED BY <1>1, <1>2, <2>1, <3>1, <3>3, ControllerKeeps
  <2>3. CASE working
    <3>1. Wk!canProcess
      BY <1>5, <2>3 DEF Wk!PollFires, Wk!Stopped
    <3>2. LoopTyped' /\ (timer' \/ \E q \in Polls : poll'[q] # "idle")
      <4>1. CASE Wk!_schedulePoll(p)
        BY <1>1, <4>1, PollReturns
      <4>2. CASE Wk!At(p, "rate") /\ timer' = FALSE /\ UNCHANGED room
        <5>1. poll' = [poll EXCEPT ![p] = "rate"] /\ timer' = FALSE /\ room' = room
          BY <4>2 DEF Wk!At
        <5>2. timer' \in BOOLEAN
          BY ONLY <5>1, Zenon
        <5>3. poll'[p] # "idle"
          BY <1>1, <5>1 DEF LoopTyped
        <5>4. QED BY <1>1, <5>1, <5>2, <5>3 DEF LoopTyped
      <4>3. CASE Wk!ComputeRoom(p, FALSE)
        BY <1>1, <4>3, RoomComputed
      <4>4. QED BY <1>5, <2>3, <4>1, <4>2, <4>3 DEF Wk!PollFires, Wk!Stopped
    <3>3. QED BY <1>1, <1>2, <1>4, <2>1, <3>1, <3>2, ControllerKeeps
  <2>4. QED BY <1>1, <2>2, <2>3 DEF RowTyped
<1>6. ASSUME NEW p \in Polls, Wk!RateAnswer(p) PROVE WorkerInv'
  <2>1. RowTyped'
    BY <1>3, <1>6 DEF Wk!RateAnswer
  <2>2. CASE Wk!_schedulePoll(p) /\ Wk!onRateLimited
    BY <1>1, <1>2, <1>4, <2>1, <2>2, PollReturns, ControllerKeeps
  <2>3. CASE Wk!ComputeRoom(p, timer) /\ UNCHANGED Wk!controller
    <3>1. timer \in BOOLEAN
      BY <1>1 DEF LoopTyped
    <3>2. QED BY <1>1, <1>2, <1>4, <2>1, <2>3, <3>1, RoomComputed, ControllerKeeps
  <2>4. QED BY <1>6, <2>2, <2>3 DEF Wk!RateAnswer
<1>7. ASSUME NEW p \in Polls, Wk!DrainCheck(p) \/ Wk!ClaimThrows(p) PROVE WorkerInv'
  <2>1. RowTyped' /\ UNCHANGED Wk!controller
    BY <1>3, <1>7 DEF Wk!DrainCheck, Wk!ClaimThrows
  <2>2. CASE Wk!_schedulePoll(p)
    BY <1>1, <1>2, <1>4, <2>1, <2>2, PollReturns, ControllerKeeps
  <2>3. CASE ~Wk!_schedulePoll(p)
    <3>1. poll' = [poll EXCEPT ![p] = "claim"] /\ UNCHANGED <<room, timer>>
      BY <1>7, <2>3 DEF Wk!DrainCheck, Wk!ClaimThrows, Wk!At
    <3>2. LoopTyped' /\ poll'[p] # "idle"
      BY <1>1, <3>1 DEF LoopTyped
    <3>3. QED BY <1>1, <1>2, <1>4, <2>1, <3>2, ControllerKeeps
  <2>4. QED BY <2>2, <2>3
<1>8. ASSUME NEW p \in Polls, Wk!ClaimAnswer(p) PROVE WorkerInv'
  <2>1. PICK n \in 0 .. room[p] : activeSlots' = activeSlots + n
    BY <1>8 DEF Wk!ClaimAnswer
  <2>2. room[p] \in Nat
    BY <1>1, WorkerConstants DEF LoopTyped
  <2>3. /\ Wk!_schedulePoll(p)
        /\ UNCHANGED <<Wk!controller, notify, working, draining, stopping, registered, drain_requested>>
    BY <1>8 DEF Wk!ClaimAnswer
  <2>4. RowTyped'
    BY <1>1, <2>1, <2>2, <2>3 DEF RowTyped
  <2>5. QED BY <1>1, <1>2, <1>4, <2>3, <2>4, PollReturns, ControllerKeeps
<1>9. CASE Wk!Wakeup
  <2>1. timer' = TRUE /\ UNCHANGED <<Wk!controller, poll, room, Wk!lifecycle>>
    BY <1>9 DEF Wk!Wakeup
  <2>2. timer' \in BOOLEAN /\ timer'
    BY ONLY <2>1, Zenon
  <2>3. QED BY <1>1, <1>2, <1>3, <1>4, <2>1, <2>2, ControllerKeeps DEF LoopTyped
<1>10. ASSUME UNCHANGED <<timer, poll, room>>, working' => working, draining => draining'
       PROVE  LoopTyped' /\ LoopAlive'
  BY <1>1, <1>10 DEF LoopTyped, LoopAlive, Wk!LoopAlive
<1>11. CASE Wk!ItemEnds
  <2>1. /\ activeSlots > 0 /\ activeSlots' = activeSlots - 1
        /\ Wk!onSuccess \/ Wk!onFailure \/ UNCHANGED Wk!controller
        /\ stopping' \in {"deregistering", stopping}
        /\ UNCHANGED <<notify, working, draining, timer, poll, room, registered, drain_requested>>
    BY <1>11 DEF Wk!ItemEnds
  <2>2. RowTyped'
    BY <1>1, <2>1 DEF RowTyped
  <2>3. QED BY <1>1, <1>2, <1>10, <2>1, <2>2, ControllerKeeps
<1>12. CASE Wk!drain
  <2>1. /\ draining' = TRUE /\ Wk!setDraining
        /\ UNCHANGED <<notify, working, timer, poll, room, activeSlots, stopping, registered, drain_requested>>
    BY <1>12 DEF Wk!drain
  <2>2. draining' /\ draining' \in BOOLEAN
    BY ONLY <2>1, Zenon
  <2>3. RowTyped'
    BY <1>1, <2>1, <2>2 DEF RowTyped
  <2>4. QED BY <1>1, <1>2, <1>10, <2>1, <2>2, <2>3, ControllerKeeps
<1>13. CASE Wk!requestWorkerDrain \/ Wk!HeartbeatRefresh
  <2>1. /\ drain_requested' = TRUE \/ drain_requested' = draining
        /\ UNCHANGED <<Wk!controller, notify, working, draining, timer, poll, room, activeSlots, stopping, registered>>
    BY <1>13 DEF Wk!requestWorkerDrain, Wk!HeartbeatRefresh
  <2>2. drain_requested' \in BOOLEAN
    BY <1>1, <2>1, Zenon DEF RowTyped
  <2>3. RowTyped'
    BY <1>1, <2>1, <2>2 DEF RowTyped
  <2>4. QED BY <1>1, <1>2, <1>10, <2>1, <2>3, ControllerKeeps
<1>14. CASE Wk!stop
  <2>1. /\ working' = FALSE /\ timer' = FALSE /\ stopping' \in {"deregistering", "draining"}
        /\ UNCHANGED <<Wk!controller, notify, draining, poll, room, activeSlots, registered, drain_requested>>
    BY <1>14 DEF Wk!stop, Wk!WaitsFor
  <2>2. ~working' /\ working' \in BOOLEAN /\ timer' \in BOOLEAN
    BY ONLY <2>1, Zenon
  <2>3. RowTyped' /\ LoopTyped' /\ LoopAlive'
    BY <1>1, <2>1, <2>2 DEF RowTyped, LoopTyped, LoopAlive, Wk!LoopAlive
  <2>4. QED BY <1>1, <1>2, <2>1, <2>3, ControllerKeeps
<1>15. CASE Wk!_deregisterHeartbeat
  <2>1. /\ stopping' = "stopped" /\ registered' = FALSE /\ drain_requested' = FALSE
        /\ UNCHANGED <<Wk!controller, notify, working, draining, timer, poll, room, activeSlots>>
    BY <1>15 DEF Wk!_deregisterHeartbeat
  <2>2. registered' \in BOOLEAN /\ drain_requested' \in BOOLEAN
    BY ONLY <2>1, Zenon
  <2>3. RowTyped'
    BY <1>1, <2>1, <2>2 DEF RowTyped
  <2>4. QED BY <1>1, <1>2, <1>10, <2>1, <2>3, ControllerKeeps
<1>16. CASE Wk!Clock
  <2>1. Wk!OpenTimeout /\ UNCHANGED Wk!worker
    BY <1>16 DEF Wk!Clock
  <2>2. RowTyped' /\ UNCHANGED <<timer, poll, room, working, draining>>
    BY <1>1, <2>1 DEF Wk!worker, RowTyped
  <2>3. QED BY <1>1, <1>2, <1>10, <2>1, <2>2, ControllerKeeps
<1>17. CASE UNCHANGED Wk!vars
  <2>1. UNCHANGED <<Wk!controller, Wk!lifecycle, timer, poll, room, working, draining>>
    BY <1>17 DEF Wk!vars, Wk!controller, Wk!lifecycle
  <2>2. QED BY <1>1, <1>2, <1>3, <1>10, <2>1, ControllerKeeps
<1>18. QED BY <1>5, <1>6, <1>7, <1>8, <1>9, <1>11, <1>12, <1>13, <1>14, <1>15, <1>16, <1>17 DEF Wk!Next

\* LoopAlive, for any number of polls that overlap, any batch size and any thresholds of the controller: a running worker
\* that does not drain always has a poll scheduled or in flight.
THEOREM PollingGoesOn == Wk!Spec => []LoopAlive
<1>1. WorkerInv => LoopAlive
  BY DEF WorkerInv
<1>2. QED BY WorkerStarts, WorkerKeeps, <1>1, PTL DEF Wk!Spec

--------------------------------------------------------------------------------
(* The parts together                                                      *)

ProcessInv == WorkerInv /\ LeaderInv /\ RegistryTyped

\* A step of one part leaves the other as it is.
LEMMA ProcessKeeps == ProcessInv /\ [ProcessNext]_process => ProcessInv'
<1> SUFFICES ASSUME ProcessInv, [ProcessNext]_process PROVE ProcessInv'
  OBVIOUS
<1>1. WorkerInv /\ LeaderInv /\ LeaderTyped /\ RegistryTyped /\ RegionAssumption
  BY ProcessConstants DEF ProcessInv, LeaderInv
<1>2. [Wk!Next]_(Wk!vars) /\ [Next]_vars
  <2>1. CASE WorkerStep(Wk!Next)
    BY <2>1 DEF WorkerStep, region, vars
  <2>2. CASE RegionStep(Next)
    BY <2>2 DEF RegionStep, worker, Wk!vars
  <2>3. CASE UNCHANGED process
    BY <2>3 DEF process, worker, region, Wk!vars, vars
  <2>4. QED BY <2>1, <2>2, <2>3 DEF ProcessNext
<1>3. QED BY <1>1, <1>2, WorkerKeeps, LeaderKeeps, RegistryKeeps DEF ProcessInv

\* The state of both parts is well typed, the loop is alive and the primary holds its lease, whichever part a behaviour
\* follows; and the epochs fence the holders.
THEOREM ProcessHolds ==
  ProcessSpec => [](ProcessTypeOK /\ LoopAlive /\ SinglePrimary) /\ EpochFencesHolders
<1>1. ProcessInit => ProcessInv
  BY ProcessConstants, WorkerStarts, Booted, RegistryStart DEF ProcessInit, ProcessInv
<1>2. ProcessInv => ProcessTypeOK /\ LoopAlive /\ SinglePrimary
  BY DEF ProcessInv, WorkerInv, LeaderInv, LeaderTyped, RegistryTyped, AnswersHold, SinglePrimary, ProcessTypeOK, TypeOK
<1>3. ProcessInv /\ [ProcessNext]_process => [LeaseFenced]_vars
  <2> SUFFICES ASSUME ProcessInv, [ProcessNext]_process PROVE [LeaseFenced]_vars
    OBVIOUS
  <2>1. [Next]_vars
    BY DEF ProcessNext, WorkerStep, RegionStep, process, region, vars
  <2>2. QED BY <2>1, ProcessConstants, LeaseFences DEF ProcessInv
<1>4. ProcessSpec => []ProcessInv
  BY <1>1, ProcessKeeps, PTL DEF ProcessSpec
<1>5. ProcessSpec => [][LeaseFenced]_vars
  BY <1>3, <1>4, PTL DEF ProcessSpec
<1>6. ProcessSpec => EpochFencesHolders
  BY <1>5 DEF EpochFencesHolders, LeaseFenced
<1>7. QED BY <1>2, <1>4, <1>6, PTL

================================================================================
