------------------------------- MODULE LeaseQueue -------------------------------
(***************************************************************************)
(* One queue table of the v3 worker runtime and the workers that drain it  *)
(* (atomic-engine.js, base-worker.js).  A worker claims rows with one      *)
(* UPDATE .. FOR UPDATE SKIP LOCKED, which stamps the row with its id, a   *)
(* lease and a fresh lease_version; every later write of that execution is *)
(* fenced by (leased_by, lease_version, status).  Each SQL statement is    *)
(* one step; between two statements of a handler anything else may happen. *)
(*                                                                         *)
(* Time is abstracted: a lease is live until it expires, and a scheduled   *)
(* retry is in the future until it falls due.  An execution that stalls    *)
(* past its lease, a process crash and a failing SQL statement all draw on *)
(* one fault budget, MaxFaults, which keeps the instances finite.          *)
(***************************************************************************)
EXTENDS Integers, FiniteSets, ShardRouter

CONSTANTS Jobs, Workers, NoWorker,
          HashOf,        \* the id hash of a job
          WorkerIndex,   \* the shard affinity index of a worker
          MaxAttempts,   \* MAX_RETRY_ATTEMPTS[queueKey]
          BatchSize,     \* BATCH_SIZE[queueKey]
          MaxFaults      \* bound on crashes, stalls and failing statements

ASSUME LeaseAssumption ==
  /\ NoWorker \notin Workers
  /\ HashOf \in [Jobs -> Nat]
  /\ WorkerIndex \in [Workers -> Nat]
  /\ MaxAttempts \in Nat \ {0}
  /\ BatchSize \in Nat \ {0}
  /\ MaxFaults \in Nat

VARIABLES status, leased_by, lease, lease_version, attempt_count, run_after,
          up,      \* the workers whose process is alive
          sweep,   \* workers between the two statements of a lease recovery
          execs,   \* the _executeItem calls in flight
          faults   \* the part of the fault budget that is used up

row     == <<status, leased_by, lease, lease_version, attempt_count, run_after>>
vars    == <<status, leased_by, lease, lease_version, attempt_count, run_after,
             up, sweep, execs, faults>>

Status   == {"pending", "processing", "processed", "dead_letter"}
Terminal == {"processed", "dead_letter"}

\* An _executeItem call: the row it was given, the worker and lease_version it
\* was claimed with, where it stands, whether the error it caught forces a dead
\* letter, and the attempt number commitFailure computed from its SELECT.
Exec == [job : Jobs, worker : Workers, version : Nat,
         pc : {"processing", "succeeded", "failed", "writing"},
         force : BOOLEAN, next : Nat]

TypeOK ==
  /\ status \in [Jobs -> Status]
  /\ leased_by \in [Jobs -> Workers \cup {NoWorker}]
  /\ lease \in [Jobs -> {"none", "live", "expired"}]
  /\ lease_version \in [Jobs -> Nat]
  /\ attempt_count \in [Jobs -> Nat]
  /\ run_after \in [Jobs -> {"due", "future"}]
  /\ up \subseteq Workers
  /\ sweep \subseteq Workers
  /\ execs \subseteq Exec
  /\ faults \in 0 .. MaxFaults

Init ==
  /\ status = [j \in Jobs |-> "pending"]
  /\ leased_by = [j \in Jobs |-> NoWorker]
  /\ lease = [j \in Jobs |-> "none"]
  /\ lease_version = [j \in Jobs |-> 0]
  /\ attempt_count = [j \in Jobs |-> 0]
  /\ run_after = [j \in Jobs |-> "due"]
  /\ up = Workers
  /\ sweep = {}
  /\ execs = {}
  /\ faults = 0

Fault == faults < MaxFaults /\ faults' = faults + 1

--------------------------------------------------------------------------------
(* atomicClaim *)

\* Fault: the claim does not look at the status.
ClaimableAnyStatus(w) ==
  {j \in Jobs : computeShardKey(HashOf[j]) \in computeWorkerShards(WorkerIndex[w])}

\* The rows the claim's inner SELECT may return to worker w.
Claimable(w) ==
  {j \in Jobs : /\ status[j] = "pending"
                /\ run_after[j] = "due"
                /\ computeShardKey(HashOf[j]) \in computeWorkerShards(WorkerIndex[w])}

\* SKIP LOCKED passes over rows that any concurrent statement holds, so the
\* batch is some set of claimable rows of at most BatchSize elements.
Claim(w, batch) ==
  /\ w \in up
  /\ batch # {}
  /\ batch \subseteq Claimable(w)
  /\ Cardinality(batch) <= BatchSize
  /\ status' = [j \in Jobs |-> IF j \in batch THEN "processing" ELSE status[j]]
  /\ leased_by' = [j \in Jobs |-> IF j \in batch THEN w ELSE leased_by[j]]
  /\ lease' = [j \in Jobs |-> IF j \in batch THEN "live" ELSE lease[j]]
  /\ lease_version' = [j \in Jobs |-> IF j \in batch THEN lease_version[j] + 1
                                                     ELSE lease_version[j]]
  /\ execs' = execs \cup
       {[job |-> j, worker |-> w, version |-> lease_version[j] + 1,
         pc |-> "processing", force |-> FALSE, next |-> 0] : j \in batch}
  /\ UNCHANGED <<attempt_count, run_after, up, sweep, faults>>

--------------------------------------------------------------------------------
(* _executeItem *)

\* Fault: the WHERE clause leaves out the lease_version.
FencedByHolder(e) == leased_by[e.job] = e.worker /\ status[e.job] = "processing"

\* The WHERE clause shared by every write of an execution.
Fenced(e) ==
  /\ leased_by[e.job] = e.worker
  /\ lease_version[e.job] = e.version
  /\ status[e.job] = "processing"

Move(e, f) == execs' = (execs \ {e}) \cup {f}
Leave(e)   == execs' = execs \ {e}

\* processItem resolves, or rejects with an error that may force a dead letter.
ProcessItem(e) ==
  /\ e.pc = "processing"
  /\ \/ Move(e, [e EXCEPT !.pc = "succeeded"])
     \/ \E force \in BOOLEAN : Move(e, [e EXCEPT !.pc = "failed", !.force = force])
  /\ UNCHANGED <<row, up, sweep, faults>>

\* The heartbeat timer of the execution.  An extension that matches no row
\* only clears the timer.
extendLease(e) ==
  /\ Fenced(e)
  /\ lease' = [lease EXCEPT ![e.job] = "live"]
  /\ UNCHANGED <<status, leased_by, lease_version, attempt_count, run_after,
                 up, sweep, execs, faults>>

\* The UPDATE of commitSuccess; it is skipped when the fence matches no row.
MarkProcessed(e) ==
  IF Fenced(e)
    THEN /\ status' = [status EXCEPT ![e.job] = "processed"]
         /\ leased_by' = [leased_by EXCEPT ![e.job] = NoWorker]
         /\ lease' = [lease EXCEPT ![e.job] = "none"]
    ELSE UNCHANGED <<status, leased_by, lease>>

commitSuccess(e) ==
  /\ e.pc = "succeeded"
  /\ MarkProcessed(e)
  /\ Leave(e)
  /\ UNCHANGED <<lease_version, attempt_count, run_after, up, sweep, faults>>

\* commitSuccess throws, before or after the server applied the UPDATE: the
\* catch block treats it like a failed item.
CommitSuccessThrows(e) ==
  /\ e.pc = "succeeded"
  /\ Fault
  /\ MarkProcessed(e) \/ UNCHANGED <<status, leased_by, lease>>
  /\ Move(e, [e EXCEPT !.pc = "failed"])
  /\ UNCHANGED <<lease_version, attempt_count, run_after, up, sweep>>

\* First statement of commitFailure: read attempt_count under the fence.
commitFailureRead(e) ==
  /\ e.pc = "failed"
  /\ IF Fenced(e)
       THEN Move(e, [e EXCEPT !.pc = "writing", !.next = attempt_count[e.job] + 1])
       ELSE Leave(e)
  /\ UNCHANGED <<row, up, sweep, faults>>

\* Fault: one attempt too many.
IsDeadLate(e) == e.next > MaxAttempts \/ e.force

IsDead(e) == e.next >= MaxAttempts \/ e.force

\* Second statement of commitFailure: dead-letter the row or schedule a retry.
commitFailureWrite(e) ==
  /\ e.pc = "writing"
  /\ IF Fenced(e)
       THEN /\ status' = [status EXCEPT ![e.job] =
                            IF IsDead(e) THEN "dead_letter" ELSE "pending"]
            /\ leased_by' = [leased_by EXCEPT ![e.job] = NoWorker]
            /\ lease' = [lease EXCEPT ![e.job] = "none"]
            /\ attempt_count' = [attempt_count EXCEPT ![e.job] = e.next]
            /\ run_after' = [run_after EXCEPT ![e.job] =
                               IF IsDead(e) THEN @ ELSE "future"]
       ELSE UNCHANGED <<status, leased_by, lease, attempt_count, run_after>>
  /\ Leave(e)
  /\ UNCHANGED <<lease_version, up, sweep, faults>>

\* A statement of commitFailure throws: the execution ends, the row stays leased.
CommitFailureThrows(e) ==
  /\ e.pc \in {"failed", "writing"}
  /\ Fault
  /\ Leave(e)
  /\ UNCHANGED <<row, up, sweep>>

ExecStep(e) ==
  \/ ProcessItem(e)
  \/ commitSuccess(e)
  \/ commitFailureRead(e)
  \/ commitFailureWrite(e)

--------------------------------------------------------------------------------
(* Lease recovery: every worker runs the two statements every 30 s. *)

\* Fault: the sweep looks for the wrong status.
ExpiredPending == {j \in Jobs : status[j] = "pending" /\ lease[j] = "expired"}

Expired == {j \in Jobs : status[j] = "processing" /\ lease[j] = "expired"}

reclaimRetry(w) ==
  LET S == {j \in Expired : attempt_count[j] < MaxAttempts} IN
  /\ w \in up \ sweep
  /\ Expired # {}          \* a sweep that finds nothing is a stuttering step
  /\ status' = [j \in Jobs |-> IF j \in S THEN "pending" ELSE status[j]]
  /\ leased_by' = [j \in Jobs |-> IF j \in S THEN NoWorker ELSE leased_by[j]]
  /\ lease' = [j \in Jobs |-> IF j \in S THEN "none" ELSE lease[j]]
  /\ lease_version' = [j \in Jobs |-> IF j \in S THEN lease_version[j] + 1
                                                 ELSE lease_version[j]]
  /\ sweep' = sweep \cup {w}
  /\ UNCHANGED <<attempt_count, run_after, up, execs, faults>>

reclaimBury(w) ==
  LET S == {j \in Expired : attempt_count[j] >= MaxAttempts} IN
  /\ w \in sweep
  /\ status' = [j \in Jobs |-> IF j \in S THEN "dead_letter" ELSE status[j]]
  /\ lease_version' = [j \in Jobs |-> IF j \in S THEN lease_version[j] + 1
                                                 ELSE lease_version[j]]
  /\ sweep' = sweep \ {w}
  /\ UNCHANGED <<leased_by, lease, attempt_count, run_after, up, execs, faults>>

--------------------------------------------------------------------------------
(* Environment *)

\* No execution is left that would extend or finish the lease of job j.
Orphaned(j) == ~ \E e \in execs : e.job = j /\ e.version = lease_version[j]

\* lease_expires_at passes.  A running execution extends its lease well before
\* that, so losing it while it runs is a fault (a stall of the event loop).
LeaseExpires(j) ==
  /\ status[j] = "processing"
  /\ lease[j] = "live"
  /\ IF Orphaned(j) THEN UNCHANGED faults ELSE Fault
  /\ lease' = [lease EXCEPT ![j] = "expired"]
  /\ UNCHANGED <<status, leased_by, lease_version, attempt_count, run_after,
                 up, sweep, execs>>

RetryFallsDue(j) ==
  /\ run_after[j] = "future"
  /\ run_after' = [run_after EXCEPT ![j] = "due"]
  /\ UNCHANGED <<status, leased_by, lease, lease_version, attempt_count,
                 up, sweep, execs, faults>>

\* The process dies: its executions and its sweep are gone, its leases are not.
Crash(w) ==
  /\ w \in up
  /\ Fault
  /\ up' = up \ {w}
  /\ sweep' = sweep \ {w}
  /\ execs' = {e \in execs : e.worker # w}
  /\ UNCHANGED row

\* start() under the same workerId, workerIndex and totalWorkers.
Restart(w) ==
  /\ w \in Workers \ up
  /\ up' = up \cup {w}
  /\ UNCHANGED <<row, sweep, execs, faults>>

Next ==
  \/ \E w \in Workers, batch \in SUBSET Jobs : Claim(w, batch)
  \/ \E e \in execs : \/ ProcessItem(e)
                      \/ extendLease(e)
                      \/ commitSuccess(e)
                      \/ CommitSuccessThrows(e)
                      \/ commitFailureRead(e)
                      \/ commitFailureWrite(e)
                      \/ CommitFailureThrows(e)
  \/ \E w \in Workers : reclaimRetry(w) \/ reclaimBury(w) \/ Crash(w) \/ Restart(w)
  \/ \E j \in Jobs : LeaseExpires(j) \/ RetryFallsDue(j)

Spec == Init /\ [][Next]_vars

\* Timers fire, awaited calls return, polling never stops, and the clock moves.
RuntimeFairness ==
  /\ \A w \in Workers : /\ WF_vars(\E batch \in SUBSET Jobs : Claim(w, batch))
                        /\ WF_vars(reclaimRetry(w))
                        /\ WF_vars(reclaimBury(w))
  /\ WF_vars(\E e \in execs : ExecStep(e))
  /\ \A j \in Jobs : /\ WF_vars(Orphaned(j) /\ LeaseExpires(j))
                     /\ WF_vars(RetryFallsDue(j))

\* A process manager restarts every crashed worker.
RestartFairness == \A w \in Workers : WF_vars(Restart(w))

FairSpec == Spec /\ RuntimeFairness /\ RestartFairness

--------------------------------------------------------------------------------
(* Properties *)

\* "SELECT FOR UPDATE SKIP LOCKED - no double-claim": two executions of one job
\* coexist only if a reclaim revoked the older lease before the younger claim,
\* so their lease_versions are at least two apart.
NoDoubleClaim ==
  \A e, f \in execs :
    e.job = f.job /\ e # f => e.version + 2 <= f.version \/ f.version + 2 <= e.version

\* A row that can still run has attempts left, so no row waits for a retry that
\* its budget forbids, and the counter never passes MAX_RETRY_ATTEMPTS.
RetryBudget ==
  \A j \in Jobs : /\ attempt_count[j] <= MaxAttempts
                  /\ status[j] \notin Terminal => attempt_count[j] < MaxAttempts

\* A finished row never changes again, whatever executions that lost their
\* lease, or whose commit was reported as failed, still try to write.
TerminalIsFinal ==
  [][\A j \in Jobs : status[j] \in Terminal =>
       /\ status'[j] = status[j]
       /\ lease_version'[j] = lease_version[j]
       /\ attempt_count'[j] = attempt_count[j]]_vars

\* commitFailure reads attempt_count in one statement and writes it in another;
\* no attempt is lost or counted twice in between.
AttemptsCountByOne ==
  [][\A j \in Jobs : attempt_count'[j] # attempt_count[j] =>
       attempt_count'[j] = attempt_count[j] + 1]_vars

\* Every job ends up processed or dead-lettered, although executions stall,
\* workers crash and statements fail (finitely often).
EveryJobSettles == \A j \in Jobs : <>(status[j] \in Terminal)

\* What the table promises, as a fenced lock service: see JobLease.
Lease == INSTANCE JobLease WITH
  epoch    <- lease_version,
  attempts <- attempt_count,
  holders  <- {<<e.job, e.version>> : e \in execs}

\* The queue table implements the fenced lock service.
ImplementsJobLease == Lease!Spec

================================================================================
