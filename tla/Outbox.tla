------------------------------- MODULE Outbox -------------------------------
(***************************************************************************)
(* The transactional outbox of the worker runtime: atomic-engine.js writes *)
(* an event in the transaction of the change it reports, relays claim      *)
(* batches of events under a fenced lease, publish them and record the     *)
(* outcome.  The relay itself is not in the repository: it is taken to     *)
(* claim, publish and then call commitOutboxSuccess or                     *)
(* commitOutboxFailure, which is what those functions are written for.     *)
(*                                                                         *)
(* The events of a model belong to one aggregate.  Under schema-v3.sql as  *)
(* it stands trg_outbox_events_notify refuses every insert: the model      *)
(* takes a database without that trigger, the only one in which there is   *)
(* an outbox to speak of.                                                  *)
(***************************************************************************)
EXTENDS Naturals, FiniteSets

CONSTANTS Events,       \* idempotency keys of the events that writers insert
          Relays,       \* relay workers
          BatchSize,    \* events per claim
          MaxAttempts,  \* max_attempts, and the argument maxAttempts
          MaxFaults     \* bound on stalls, crashes, failing statements and rollbacks

OutboxAssumption == MaxAttempts \in Nat \ {0} /\ MaxFaults \in Nat

VARIABLES status,            \* "absent", "open" while the writer's transaction runs, or the column
          seq,               \* sequence_number, drawn when the row is inserted
          next_seq,          \* the sequence behind it
          lease,             \* "none", "live", "expired": lease_expires_at against NOW()
          lease_version,     \* the fence
          delivery_attempt,  \* failures recorded
          due,               \* run_after has passed
          deliveries,        \* events in the hands of a relay
          late,              \* events whose writer committed after a later event was claimed
          faults

vars == << status, seq, next_seq, lease, lease_version, delivery_attempt, due, deliveries, late, faults >>

Statuses == {"absent", "open", "pending", "processing", "delivered", "dead_letter"}
Settled == {"delivered", "dead_letter"}

\* A place in the relay's chain: claim not yet committed, being published, about to record the outcome,
\* about to write the failure whose attempt count was read.
Delivery == [event: Events, relay: Relays, version: Nat, read: Nat,
             pc: {"claiming", "publish", "success", "failure", "retry"}]

Init ==
    /\ status = [e \in Events |-> "absent"]
    /\ seq = [e \in Events |-> 0]
    /\ next_seq = 1
    /\ lease = [e \in Events |-> "none"]
    /\ lease_version = [e \in Events |-> 0]
    /\ delivery_attempt = [e \in Events |-> 0]
    /\ due = [e \in Events |-> TRUE]
    /\ deliveries = {}
    /\ late = {}
    /\ faults = 0

Fault == /\ faults < MaxFaults
         /\ faults' = faults + 1

Rows == << status, lease, lease_version, delivery_attempt, due >>
Writers == << seq, next_seq, late >>

-----------------------------------------------------------------------------
(* Writers.  A second insert of a committed key does nothing.              *)

writeOutboxEvent(e) ==
    /\ status[e] = "absent"
    /\ status' = [status EXCEPT ![e] = "open"]
    /\ seq' = [seq EXCEPT ![e] = next_seq]
    /\ next_seq' = next_seq + 1
    /\ UNCHANGED << lease, lease_version, delivery_attempt, due, deliveries, late, faults >>

CommitWriter(e) ==
    /\ status[e] = "open"
    /\ status' = [status EXCEPT ![e] = "pending"]
    /\ late' = IF \E f \in Events : seq[f] > seq[e] /\ (lease_version[f] > 0 \/ \E d \in deliveries : d.event = f)
               THEN late \union {e} ELSE late
    /\ UNCHANGED << seq, next_seq, lease, lease_version, delivery_attempt, due, deliveries, faults >>

RollbackWriter(e) ==
    /\ status[e] = "open"
    /\ Fault
    /\ status' = [status EXCEPT ![e] = "absent"]
    /\ UNCHANGED << Writers, lease, lease_version, delivery_attempt, due, deliveries >>

-----------------------------------------------------------------------------
(* Claiming.  The rows of a claim that has not committed are locked, and   *)
(* SKIP LOCKED passes over them.                                           *)

Locked(e) == \E d \in deliveries : d.event = e /\ d.pc = "claiming"

Claimable(e) == status[e] = "pending" /\ due[e] /\ ~Locked(e)

\* Fault: events are claimed in no particular order.
BatchUnordered(b) ==
    /\ \A e \in b : Claimable(e)
    /\ Cardinality(b) = 1

\* ORDER BY sequence_number LIMIT batchSize.
Batch(b) ==
    /\ \A e \in b : Claimable(e)
    /\ \A e \in b, f \in Events \ b : Claimable(f) => seq[e] < seq[f]
    /\ Cardinality(b) <= BatchSize
    /\ Cardinality(b) < BatchSize => \A f \in Events \ b : ~Claimable(f)

claimOutboxBatch(r) ==
    \E b \in SUBSET Events :
        /\ b # {} /\ Batch(b)
        /\ deliveries' = deliveries \union
               {[event |-> e, relay |-> r, version |-> lease_version[e] + 1, read |-> 0, pc |-> "claiming"] : e \in b}
        /\ UNCHANGED << Rows, Writers, faults >>

ClaimOf(r) == {d \in deliveries : d.relay = r /\ d.pc = "claiming"}

\* The effect of a committed claim on the rows.
Leased(claim) ==
    LET taken == {d.event : d \in claim} IN
    /\ status' = [e \in Events |-> IF e \in taken THEN "processing" ELSE status[e]]
    /\ lease' = [e \in Events |-> IF e \in taken THEN "live" ELSE lease[e]]
    /\ lease_version' = [e \in Events |-> IF e \in taken THEN lease_version[e] + 1 ELSE lease_version[e]]
    /\ UNCHANGED << delivery_attempt, due >>

ClaimCommits(r) ==
    /\ ClaimOf(r) # {}
    /\ Leased(ClaimOf(r))
    /\ deliveries' = (deliveries \ ClaimOf(r)) \union {[d EXCEPT !.pc = "publish"] : d \in ClaimOf(r)}
    /\ UNCHANGED << Writers, faults >>

\* A statement of the claim fails, or COMMIT takes effect and its answer is lost.
ClaimThrows(r) ==
    /\ ClaimOf(r) # {}
    /\ Fault
    /\ UNCHANGED Rows \/ Leased(ClaimOf(r))
    /\ deliveries' = deliveries \ ClaimOf(r)
    /\ UNCHANGED Writers

-----------------------------------------------------------------------------
(* Publishing and recording the outcome.                                   *)

Moves(d, pc, n) == deliveries' = (deliveries \ {d}) \union {[d EXCEPT !.pc = pc, !.read = n]}

Publish(d) ==
    /\ d.pc = "publish"
    /\ \E pc \in {"success", "failure"} : Moves(d, pc, 0)
    /\ UNCHANGED << Rows, Writers, faults >>

\* Fault: the outcome is recorded by id alone.
FencedById(d) == d \in deliveries

\* WHERE leased_by = $2 AND lease_version = $3 AND status = 'processing'.
Fenced(d) == status[d.event] = "processing" /\ lease_version[d.event] = d.version

Ends(d) == deliveries' = deliveries \ {d}

commitOutboxSuccess(d) ==
    /\ d.pc = "success"
    /\ Ends(d)
    /\ IF Fenced(d)
       THEN /\ status' = [status EXCEPT ![d.event] = "delivered"]
            /\ lease' = [lease EXCEPT ![d.event] = "none"]
            /\ UNCHANGED << lease_version, delivery_attempt, due >>
       ELSE UNCHANGED Rows
    /\ UNCHANGED << Writers, faults >>

\* commitOutboxFailure reads delivery_attempt first and writes in a second statement.
ReadAttempt(d) ==
    /\ d.pc = "failure"
    /\ IF Fenced(d) THEN Moves(d, "retry", delivery_attempt[d.event]) ELSE Ends(d)
    /\ UNCHANGED << Rows, Writers, faults >>

commitOutboxFailure(d) ==
    /\ d.pc = "retry"
    /\ Ends(d)
    /\ IF Fenced(d)
       THEN /\ lease' = [lease EXCEPT ![d.event] = "none"]
            /\ delivery_attempt' = [delivery_attempt EXCEPT ![d.event] = d.read + 1]
            /\ \E forceDeadLetter \in BOOLEAN :
                   IF d.read + 1 >= MaxAttempts \/ forceDeadLetter
                   THEN /\ status' = [status EXCEPT ![d.event] = "dead_letter"]
                        /\ UNCHANGED due
                   ELSE /\ status' = [status EXCEPT ![d.event] = "pending"]
                        /\ due' = [due EXCEPT ![d.event] = FALSE]
            /\ UNCHANGED lease_version
       ELSE UNCHANGED Rows
    /\ UNCHANGED << Writers, faults >>

\* A statement of the relay throws, and the relay drops the event.
RecordThrows(d) ==
    /\ d.pc \in {"success", "failure", "retry"}
    /\ Fault
    /\ Ends(d)
    /\ UNCHANGED << Rows, Writers >>

CrashRelay(r) ==
    /\ \E d \in deliveries : d.relay = r
    /\ Fault
    /\ deliveries' = {d \in deliveries : d.relay # r}
    /\ UNCHANGED << Rows, Writers >>

-----------------------------------------------------------------------------
(* Time and recovery.                                                      *)

Held(e) == \E d \in deliveries : d.event = e /\ Fenced(d)

\* A lease runs out: of a relay that is gone, or, as a fault, of one that stalls.
LeaseExpires(e) ==
    /\ lease[e] = "live"
    /\ IF Held(e) THEN Fault ELSE UNCHANGED faults
    /\ lease' = [lease EXCEPT ![e] = "expired"]
    /\ UNCHANGED << status, lease_version, delivery_attempt, due, deliveries, Writers >>

RetryDue(e) ==
    /\ ~due[e]
    /\ due' = [due EXCEPT ![e] = TRUE]
    /\ UNCHANGED << status, lease, lease_version, delivery_attempt, deliveries, Writers, faults >>

Reclaimable(e) == status[e] = "processing" /\ lease[e] = "expired" /\ delivery_attempt[e] < MaxAttempts

\* Fault: recovery forgets the events that failed before.
ReclaimedFresh == {e \in Events : Reclaimable(e) /\ delivery_attempt[e] = 0}

Reclaimed == {e \in Events : Reclaimable(e)}

reclaimExpiredOutboxLeases ==
    /\ Reclaimed # {}
    /\ status' = [e \in Events |-> IF e \in Reclaimed THEN "pending" ELSE status[e]]
    /\ lease' = [e \in Events |-> IF e \in Reclaimed THEN "none" ELSE lease[e]]
    /\ lease_version' = [e \in Events |-> IF e \in Reclaimed THEN lease_version[e] + 1 ELSE lease_version[e]]
    /\ UNCHANGED << delivery_attempt, due, deliveries, Writers, faults >>

-----------------------------------------------------------------------------
Relay(r) == claimOutboxBatch(r) \/ ClaimCommits(r)
Record(d) == Publish(d) \/ commitOutboxSuccess(d) \/ ReadAttempt(d) \/ commitOutboxFailure(d)
Clock(e) == (~Held(e) /\ LeaseExpires(e)) \/ RetryDue(e)

Next ==
    \/ \E e \in Events : writeOutboxEvent(e) \/ CommitWriter(e) \/ RollbackWriter(e)
    \/ \E r \in Relays : Relay(r) \/ ClaimThrows(r) \/ CrashRelay(r)
    \/ \E d \in deliveries : Record(d) \/ RecordThrows(d)
    \/ \E e \in Events : LeaseExpires(e) \/ RetryDue(e)
    \/ reclaimExpiredOutboxLeases

Spec == Init /\ [][Next]_vars

-----------------------------------------------------------------------------
TypeOK ==
    /\ status \in [Events -> Statuses]
    /\ seq \in [Events -> Nat] /\ next_seq \in Nat
    /\ lease \in [Events -> {"none", "live", "expired"}]
    /\ lease_version \in [Events -> Nat]
    /\ delivery_attempt \in [Events -> 0..MaxAttempts]
    /\ due \in [Events -> BOOLEAN]
    /\ deliveries \subseteq Delivery
    /\ late \subseteq Events
    /\ faults \in 0..MaxFaults

\* Events reach the relays in the order of their sequence numbers until something goes wrong: an event that was never
\* claimed waits behind a later one only if its writer committed after that one was claimed, or its own claim is
\* under way.  Retries overtake, so the order does not survive a failure.
FirstClaimsInOrder ==
    \A e, f \in Events :
        status[e] = "pending" /\ lease_version[e] = 0 /\ lease_version[f] > 0 /\ seq[e] < seq[f]
            => e \in late \/ Locked(e) \/ faults > 0

\* Every committed event is delivered or dead-lettered.
EveryEventSettles == \A e \in Events : status[e] = "pending" ~> status[e] \in Settled
=============================================================================
