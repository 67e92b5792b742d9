------------------------------ MODULE RegionLeader ------------------------------
(***************************************************************************)
(* Leader election among regions: the SQL function acquire_region_leader   *)
(* (schema-v3.sql) on the one-row table region_leader_lock, and the        *)
(* RegionManager that calls it from a timer (region-manager.js).           *)
(*                                                                         *)
(* A tick is a chain of awaited statements: acquire, read the epoch, write *)
(* the region's registry row.  setInterval starts a tick whether or not    *)
(* the previous one has finished, so a region has several tick slots.      *)
(* Time is abstracted: the lease is live until it expires.  The lease of a *)
(* running region expires only by a stall, because the tick period is a    *)
(* third of the lease; stalls and stops draw on one budget.                *)
(***************************************************************************)
EXTENDS Integers, FiniteSets

CONSTANTS Regions, NoRegion,
          Ticks,         \* tick slots
          RegionOf,      \* the region whose manager a tick slot belongs to
          MaxFaults      \* bound on stops and stalls

RegionAssumption ==
  /\ NoRegion \notin Regions
  /\ RegionOf \in [Ticks -> Regions]
  /\ MaxFaults \in Nat

VARIABLES calm,                  \* the lock row exists and renewals are never missed
          holder, epoch, live,   \* region_leader_lock: region_id, epoch, not expired
          role,                  \* region_registry.role, "none" without a row
          running,               \* managers between start and stop
          beating,               \* managers whose heartbeat timer is set
          isPrimary, myEpoch,    \* _isPrimary and _epoch of each manager
          pc, arg,               \* where each tick stands, and its pending argument
          faults

lock    == <<holder, epoch, live>>
manager == <<running, beating, isPrimary, myEpoch>>
vars    == <<calm, holder, epoch, live, role, running, beating, isPrimary, myEpoch, pc, arg, faults>>

\* first: the SELECT found no lock row, the INSERT is to come; granted, refused:
\* the function has answered; reading: the epoch is being read; writing: the
\* registry row is being written with the role in arg.
Points == {"idle", "first", "granted", "refused", "reading", "writing"}

TypeOK ==
  /\ calm \in BOOLEAN
  /\ holder \in Regions \cup {NoRegion}
  /\ epoch \in Nat
  /\ live \in BOOLEAN
  /\ role \in [Regions -> {"none", "primary", "secondary", "draining"}]
  /\ running \subseteq Regions
  /\ beating \subseteq Regions
  /\ isPrimary \in [Regions -> BOOLEAN]
  /\ myEpoch \in [Regions -> Nat]
  /\ pc \in [Ticks -> Points]
  /\ arg \in [Ticks -> {"primary", "secondary"}]
  /\ faults \in 0 .. MaxFaults

\* A first boot, or a deployment after every region had stopped.
Init ==
  /\ \/ calm \in BOOLEAN /\ holder \in Regions /\ epoch = 1
     \/ calm = FALSE /\ holder = NoRegion /\ epoch = 0
  /\ live = FALSE
  /\ role = [r \in Regions |-> "none"]
  /\ running = {}
  /\ beating = {}
  /\ isPrimary = [r \in Regions |-> FALSE]
  /\ myEpoch = [r \in Regions |-> 0]
  /\ pc = [t \in Ticks |-> "idle"]
  /\ arg = [t \in Ticks |-> "secondary"]
  /\ faults = 0

Fault == faults < MaxFaults /\ faults' = faults + 1

Goto(t, p) == pc' = [pc EXCEPT ![t] = p]

\* start() awaits a first attempt of its own before it sets the timer.
MayTick(t) ==
  /\ pc[t] = "idle"
  /\ RegionOf[t] \in running
  /\ \/ RegionOf[t] \in beating
     \/ \A u \in Ticks : RegionOf[u] = RegionOf[t] => pc[u] = "idle"

\* The attempt is over, one way or the other.
TickEnds(t) ==
  /\ Goto(t, "idle")
  /\ beating' = IF RegionOf[t] \in running THEN beating \cup {RegionOf[t]} ELSE beating
  /\ arg' = [arg EXCEPT ![t] = "secondary"]

--------------------------------------------------------------------------------
(* acquire_region_leader *)

SelectFindsNothing(t) ==
  /\ MayTick(t)
  /\ holder = NoRegion
  /\ Goto(t, "first")
  /\ UNCHANGED <<calm, lock, role, manager, arg, faults>>

\* INSERT .. ON CONFLICT DO NOTHING; RETURN TRUE.  A row inserted meanwhile wins.
InsertFirst(t) ==
  /\ pc[t] = "first"
  /\ IF holder = NoRegion
       THEN holder' = RegionOf[t] /\ epoch' = 1 /\ live' = TRUE
       ELSE UNCHANGED lock
  /\ Goto(t, "granted")
  /\ UNCHANGED <<calm, role, manager, arg, faults>>

Renew(t) ==
  /\ MayTick(t)
  /\ holder = RegionOf[t] /\ live
  /\ Goto(t, "granted")
  /\ UNCHANGED <<calm, lock, role, manager, arg, faults>>

\* Faults: a live lease is taken, or only one's own lapsed lease is.
MayStealLive(r) == holder # NoRegion
MayStealOwn(r)  == holder = r /\ ~live

MaySteal(r) == holder # NoRegion /\ ~live

\* Fault: the epoch of the lease that is taken over is kept.
KeptEpoch == epoch

NextEpoch == epoch + 1

Steal(t) ==
  /\ MayTick(t)
  /\ MaySteal(RegionOf[t])
  /\ holder' = RegionOf[t]
  /\ epoch' = NextEpoch
  /\ live' = TRUE
  /\ role' = [r \in Regions |-> IF r = RegionOf[t] THEN "primary"
                                ELSE IF r = holder /\ role[r] # "none" THEN "secondary"
                                ELSE role[r]]
  /\ Goto(t, "granted")
  /\ UNCHANGED <<calm, manager, arg, faults>>

Refuse(t) ==
  /\ MayTick(t)
  /\ holder \notin {NoRegion, RegionOf[t]} /\ live
  /\ Goto(t, "refused")
  /\ UNCHANGED <<calm, lock, role, manager, arg, faults>>

--------------------------------------------------------------------------------
(* _tryAcquireLeadership: what follows each awaited statement *)

Granted(t) == pc[t] = "granted"

Learn(t) ==
  /\ pc[t] \in {"granted", "refused"}
  /\ isPrimary' = [isPrimary EXCEPT ![RegionOf[t]] = Granted(t)]
  /\ Goto(t, "reading")
  /\ UNCHANGED <<calm, lock, role, running, beating, myEpoch, arg, faults>>

\* The epoch is whatever the lock row holds now; the arguments of the registry
\* UPDATE are fixed when it is sent.
ReadEpoch(t) ==
  /\ pc[t] = "reading"
  /\ myEpoch' = [myEpoch EXCEPT ![RegionOf[t]] = epoch]
  /\ arg' = [arg EXCEPT ![t] = IF isPrimary[RegionOf[t]] THEN "primary" ELSE "secondary"]
  /\ Goto(t, "writing")
  /\ UNCHANGED <<calm, lock, role, running, beating, isPrimary, faults>>

WriteRegistry(t) ==
  /\ pc[t] = "writing"
  /\ role' = [role EXCEPT ![RegionOf[t]] = arg[t]]
  /\ TickEnds(t)
  /\ UNCHANGED <<calm, lock, running, isPrimary, myEpoch, faults>>

\* A statement fails: the error is logged, everything learnt so far is kept.
TickFails(t) ==
  /\ pc[t] # "idle" \/ MayTick(t)
  /\ TickEnds(t)
  /\ UNCHANGED <<calm, lock, role, running, isPrimary, myEpoch, faults>>

--------------------------------------------------------------------------------
(* start, stop and time *)

\* _register; a restarted process has a fresh RegionManager.
Start(r) ==
  /\ r \notin running
  /\ running' = running \cup {r}
  /\ isPrimary' = [isPrimary EXCEPT ![r] = FALSE]
  /\ myEpoch' = [myEpoch EXCEPT ![r] = 0]
  /\ role' = [role EXCEPT ![r] = IF @ \in {"none", "draining"} THEN "secondary" ELSE @]
  /\ pc' = [t \in Ticks |-> IF RegionOf[t] = r THEN "idle" ELSE pc[t]]
  /\ arg' = [t \in Ticks |-> IF RegionOf[t] = r THEN "secondary" ELSE arg[t]]
  /\ UNCHANGED <<calm, lock, beating, faults>>

\* stop() does not wait for ticks in flight, nor give up the lock.
Stop(r) ==
  /\ r \in running
  /\ Fault
  /\ running' = running \ {r}
  /\ beating' = beating \ {r}
  /\ role' = [role EXCEPT ![r] = "draining"]
  /\ UNCHANGED <<calm, lock, isPrimary, myEpoch, pc, arg>>

LeaseExpires ==
  /\ live
  /\ IF holder \in running THEN ~calm /\ Fault ELSE UNCHANGED faults
  /\ live' = FALSE
  /\ UNCHANGED <<calm, holder, epoch, role, manager, pc, arg>>

TickStep(t) ==
  \/ SelectFindsNothing(t) \/ InsertFirst(t) \/ Renew(t) \/ Steal(t) \/ Refuse(t)
  \/ Learn(t) \/ ReadEpoch(t) \/ WriteRegistry(t)

Next ==
  \/ \E t \in Ticks : \/ SelectFindsNothing(t)
                      \/ InsertFirst(t)
                      \/ Renew(t)
                      \/ Steal(t)
                      \/ Refuse(t)
                      \/ Learn(t)
                      \/ ReadEpoch(t)
                      \/ WriteRegistry(t)
                      \/ TickFails(t)
  \/ \E r \in Regions : Start(r) \/ Stop(r)
  \/ LeaseExpires

Spec == Init /\ [][Next]_vars

--------------------------------------------------------------------------------
(* Properties *)

\* The lock changes hands only when its lease has run out, and every change of
\* hands, and nothing else, takes the next epoch.
EpochFencesHolders ==
  [][/\ holder' # holder => ~live /\ epoch' = epoch + 1
     /\ epoch' # epoch   => ~live /\ epoch' = epoch + 1]_vars

\* isLocalRegionPrimary: "returns true if this region currently holds the
\* primary lease": once the lock row exists, and as long as running regions renew
\* in time, a running region that believes it is the primary holds the lease, so
\* that there is one such region at most.
SinglePrimary ==
  calm => \A r \in running : isPrimary[r] => holder = r /\ live

\* "Returns TRUE if this region is now the primary": the same without those provisos.
OnePrimaryAlways ==
  \A r, s \in running : isPrimary[r] /\ isPrimary[s] => r = s

\* "Automatic failover": a lock nobody holds any more is taken by a running region.
Failover == ~live ~> (live \/ running = {})

================================================================================
