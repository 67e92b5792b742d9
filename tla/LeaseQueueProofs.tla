---------------------------- MODULE LeaseQueueProofs ----------------------------
(***************************************************************************)
(* Proofs about LeaseQueue, for any number of jobs and workers, any retry  *)
(* budget, any batch size and any number of faults.                        *)
(***************************************************************************)
EXTENDS LeaseQueue, TLAPS

\* No execution is ahead of its row, and an execution that outlived its claim
\* (its row is back in the queue) is strictly behind it.
ExecBehindRow ==
  \A e \in execs : /\ e.version <= lease_version[e.job]
                   /\ status[e.job] = "pending" => e.version < lease_version[e.job]

\* The attempt number read by commitFailure is current as long as its fence holds.
ReadIsCurrent ==
  \A e \in execs : e.pc = "writing" /\ Fenced(e) => e.next = attempt_count[e.job] + 1

IInv == TypeOK /\ NoDoubleClaim /\ RetryBudget /\ ExecBehindRow /\ ReadIsCurrent

\* Type correctness of the queue table and of the executions.
THEOREM TypeCorrect == Spec => []TypeOK
<1> USE LeaseAssumption DEF TypeOK
<1>1. Init => TypeOK
  BY DEF Init, Status, Exec
<1>2. TypeOK /\ [Next]_vars => TypeOK'
  <2> SUFFICES ASSUME TypeOK, [Next]_vars PROVE TypeOK'
    OBVIOUS
  <2> USE DEF row
  <2>1. ASSUME NEW w \in Workers, NEW batch \in SUBSET Jobs, Claim(w, batch)
        PROVE TypeOK'
    <3>1. {[job |-> j, worker |-> w, version |-> lease_version[j] + 1,
            pc |-> "processing", force |-> FALSE, next |-> 0] : j \in batch} \subseteq Exec
      <4> SUFFICES ASSUME NEW j \in batch
                   PROVE [job |-> j, worker |-> w, version |-> lease_version[j] + 1,
                          pc |-> "processing", force |-> FALSE, next |-> 0] \in Exec
        OBVIOUS
      <4>1. j \in Jobs /\ lease_version[j] + 1 \in Nat
        OBVIOUS
      <4>2. QED BY <4>1, 0 \in Nat, FALSE \in BOOLEAN DEF Exec
    <3>2. execs' \subseteq Exec
      BY <2>1, <3>1 DEF Claim
    <3>3. status' \in [Jobs -> Status] /\ leased_by' \in [Jobs -> Workers \cup {NoWorker}]
      BY <2>1 DEF Claim, Status
    <3>4. lease' \in [Jobs -> {"none", "live", "expired"}] /\ lease_version' \in [Jobs -> Nat]
      BY <2>1 DEF Claim
    <3>5. QED
      BY <2>1, <3>2, <3>3, <3>4 DEF Claim
  <2>2. ASSUME NEW e \in execs, ProcessItem(e) PROVE TypeOK'
    <3>1. e \in Exec OBVIOUS
    <3>2. /\ [e EXCEPT !.pc = "succeeded"] \in Exec
          /\ \A force \in BOOLEAN : [e EXCEPT !.pc = "failed", !.force = force] \in Exec
      BY <3>1 DEF Exec
    <3>3. execs' \subseteq Exec
      BY <2>2, <3>2 DEF ProcessItem, Move
    <3>4. QED BY <2>2, <3>3 DEF ProcessItem
  <2>3. ASSUME NEW e \in execs, extendLease(e) PROVE TypeOK'
    BY <2>3 DEF extendLease
  <2>4. ASSUME NEW e \in execs, MarkProcessed(e)
        PROVE /\ status' \in [Jobs -> Status]
              /\ leased_by' \in [Jobs -> Workers \cup {NoWorker}]
              /\ lease' \in [Jobs -> {"none", "live", "expired"}]
    BY <2>4 DEF MarkProcessed, Status
  <2>5. ASSUME NEW e \in execs, commitSuccess(e) PROVE TypeOK'
    BY <2>4, <2>5 DEF commitSuccess, Leave
  <2>6. ASSUME NEW e \in execs, CommitSuccessThrows(e) PROVE TypeOK'
    <3>1. [e EXCEPT !.pc = "failed"] \in Exec
      BY DEF Exec
    <3>2. /\ status' \in [Jobs -> Status]
          /\ leased_by' \in [Jobs -> Workers \cup {NoWorker}]
          /\ lease' \in [Jobs -> {"none", "live", "expired"}]
      BY <2>4, <2>6 DEF CommitSuccessThrows
    <3>3. QED BY <2>6, <3>1, <3>2 DEF CommitSuccessThrows, Move, Fault
  <2>7. ASSUME NEW e \in execs, commitFailureRead(e) PROVE TypeOK'
    <3>1. [e EXCEPT !.pc = "writing", !.next = attempt_count[e.job] + 1] \in Exec
      <4>1. e \in Exec /\ e.job \in Jobs
        BY DEF Exec
      <4>2. attempt_count[e.job] + 1 \in Nat
        BY <4>1
      <4> HIDE DEF TypeOK
      <4>3. QED BY <4>1, <4>2 DEF Exec
    <3>2. QED BY <2>7, <3>1 DEF commitFailureRead, Move, Leave
  <2>8. ASSUME NEW e \in execs, commitFailureWrite(e) PROVE TypeOK'
    <3>1. e.job \in Jobs /\ e.next \in Nat
      BY DEF Exec
    <3>2. QED BY <2>8, <3>1 DEF commitFailureWrite, Leave, Status
  <2>9. ASSUME NEW e \in execs, CommitFailureThrows(e) PROVE TypeOK'
    BY <2>9 DEF CommitFailureThrows, Leave, Fault
  <2>10. ASSUME NEW w \in Workers, reclaimRetry(w) PROVE TypeOK'
    <3> DEFINE S == {j \in Expired : attempt_count[j] < MaxAttempts}
    <3>1. /\ status' = [j \in Jobs |-> IF j \in S THEN "pending" ELSE status[j]]
          /\ leased_by' = [j \in Jobs |-> IF j \in S THEN NoWorker ELSE leased_by[j]]
          /\ lease' = [j \in Jobs |-> IF j \in S THEN "none" ELSE lease[j]]
          /\ lease_version' = [j \in Jobs |-> IF j \in S THEN lease_version[j] + 1
                                                         ELSE lease_version[j]]
          /\ sweep' = sweep \cup {w}
          /\ UNCHANGED <<attempt_count, run_after, up, execs, faults>>
      BY <2>10 DEF reclaimRetry
    <3> HIDE DEF S
    <3>2. QED BY <3>1 DEF Status
  <2>11. ASSUME NEW w \in Workers, reclaimBury(w) PROVE TypeOK'
    <3> DEFINE S == {j \in Expired : attempt_count[j] >= MaxAttempts}
    <3>1. /\ status' = [j \in Jobs |-> IF j \in S THEN "dead_letter" ELSE status[j]]
          /\ lease_version' = [j \in Jobs |-> IF j \in S THEN lease_version[j] + 1
                                                         ELSE lease_version[j]]
          /\ sweep' = sweep \ {w}
          /\ UNCHANGED <<leased_by, lease, attempt_count, run_after, up, execs, faults>>
      BY <2>11 DEF reclaimBury
    <3> HIDE DEF S
    <3>2. QED BY <3>1 DEF Status
  <2>12. ASSUME NEW w \in Workers, Crash(w) \/ Restart(w) PROVE TypeOK'
    BY <2>12 DEF Crash, Restart, Fault
  <2>13. ASSUME NEW j \in Jobs, LeaseExpires(j) \/ RetryFallsDue(j) PROVE TypeOK'
    BY <2>13 DEF LeaseExpires, RetryFallsDue, Fault
  <2>14. CASE UNCHANGED vars
    BY <2>14 DEF vars
  <2>15. QED
    BY <2>1, <2>2, <2>3, <2>5, <2>6, <2>7, <2>8, <2>9, <2>10, <2>11, <2>12, <2>13, <2>14
    DEF Next
<1>3. QED
  BY <1>1, <1>2, PTL DEF Spec

--------------------------------------------------------------------------------

\* An execution that moves on keeps its row and its version.
LEMMA MoveKeepsClaims ==
  ASSUME TypeOK, NoDoubleClaim, NEW e \in execs, NEW f \in Exec,
         f.job = e.job, f.version = e.version, Move(e, f)
  PROVE  NoDoubleClaim'
<1> SUFFICES ASSUME NEW g \in execs', NEW h \in execs', g.job = h.job, g # h
             PROVE g.version + 2 <= h.version \/ h.version + 2 <= g.version
  BY DEF NoDoubleClaim
<1>1. /\ g = f \/ (g \in execs /\ g # e)
      /\ h = f \/ (h \in execs /\ h # e)
  BY DEF Move
<1>2. CASE g = f
  BY <1>1, <1>2 DEF NoDoubleClaim
<1>3. CASE h = f
  BY <1>1, <1>3 DEF NoDoubleClaim
<1>4. CASE g # f /\ h # f
  BY <1>1, <1>4 DEF NoDoubleClaim
<1>5. QED BY <1>2, <1>3, <1>4

\* Executions that end leave the others apart.
LEMMA LeaveKeepsClaims ==
  ASSUME NoDoubleClaim, execs' \subseteq execs
  PROVE  NoDoubleClaim'
BY DEF NoDoubleClaim

\* A fresh claim is two versions ahead of every older execution of its row.
LEMMA ClaimKeepsClaims ==
  ASSUME TypeOK, NoDoubleClaim, ExecBehindRow,
         NEW w \in Workers, NEW batch \in SUBSET Jobs, Claim(w, batch)
  PROVE  NoDoubleClaim'
<1> DEFINE new(j) == [job |-> j, worker |-> w, version |-> lease_version[j] + 1,
                      pc |-> "processing", force |-> FALSE, next |-> 0]
<1>1. execs' = execs \cup {new(j) : j \in batch}
  BY DEF Claim
<1>2. \A j \in batch : /\ status[j] = "pending"
                       /\ lease_version[j] \in Nat
                       /\ new(j).job = j
                       /\ new(j).version = lease_version[j] + 1
  BY DEF Claim, Claimable, TypeOK
<1>3. ASSUME NEW g \in execs, NEW j \in batch, g.job = j
      PROVE g.version + 2 <= new(j).version
  <2>1. g.version < lease_version[j] /\ g.version \in Nat
    BY <1>2, <1>3 DEF ExecBehindRow, TypeOK, Exec
  <2>2. QED BY <2>1, <1>2
<1> HIDE DEF new
<1>4. ASSUME NEW g \in execs', NEW h \in execs', g.job = h.job, g # h
      PROVE g.version + 2 <= h.version \/ h.version + 2 <= g.version
  <2>1. CASE g \in execs /\ h \in execs
    BY <1>4, <2>1 DEF NoDoubleClaim
  <2>2. CASE g \in execs /\ h \notin execs
    <3>1. PICK j \in batch : h = new(j)
      BY <1>1, <2>2
    <3>2. QED BY <3>1, <1>2, <1>3, <1>4, <2>2
  <2>3. CASE g \notin execs /\ h \in execs
    <3>1. PICK j \in batch : g = new(j)
      BY <1>1, <2>3
    <3>2. QED BY <3>1, <1>2, <1>3, <1>4, <2>3
  <2>4. CASE g \notin execs /\ h \notin execs
    <3>1. PICK j \in batch : g = new(j)
      BY <1>1, <2>4
    <3>2. PICK k \in batch : h = new(k)
      BY <1>1, <2>4
    <3>3. j = k
      BY <3>1, <3>2, <1>2, <1>4
    <3>4. QED BY <3>1, <3>2, <3>3, <1>4
  <2>5. QED BY <2>1, <2>2, <2>3, <2>4
<1>5. QED BY <1>4 DEF NoDoubleClaim

\* A step that touches no row and only moves or drops executions to a point
\* before the write of commitFailure keeps the invariant.
LEMMA RowsUntouched ==
  ASSUME IInv, UNCHANGED row, NoDoubleClaim',
         \A f \in execs' : \E e \in execs :
           /\ f.job = e.job /\ f.version = e.version /\ f.worker = e.worker
           /\ f = e \/ f.pc # "writing" \/ (Fenced(e) /\ f.next = attempt_count[e.job] + 1)
  PROVE  NoDoubleClaim' /\ RetryBudget' /\ ExecBehindRow' /\ ReadIsCurrent'
<1>1. RetryBudget'
  BY DEF IInv, RetryBudget, row
<1>2. ExecBehindRow'
  BY DEF IInv, ExecBehindRow, row
<1>3. ReadIsCurrent'
  BY DEF IInv, ReadIsCurrent, row, Fenced
<1>4. QED BY <1>1, <1>2, <1>3

\* Only an execution that is current can pass the fence, so the fenced writes
\* of e leave every other execution of the row behind it.
LEMMA HolderIsLatest ==
  ASSUME IInv, NEW e \in execs, Fenced(e), NEW f \in execs, f.job = e.job, f # e
  PROVE  f.version + 2 <= lease_version[e.job]
BY DEF IInv, NoDoubleClaim, ExecBehindRow, Fenced, TypeOK, Exec

\* Every step keeps the inductive invariant.
LEMMA IInvStep == IInv /\ TypeOK' /\ [Next]_vars => IInv'
<1> SUFFICES ASSUME IInv, TypeOK', [Next]_vars PROVE IInv'
  OBVIOUS
<1> USE LeaseAssumption
<1>0. TypeOK /\ NoDoubleClaim /\ RetryBudget /\ ExecBehindRow /\ ReadIsCurrent
  BY DEF IInv
<1>e. execs \subseteq Exec /\ execs' \subseteq Exec
  BY <1>0 DEF TypeOK
<1>1. ASSUME NEW w \in Workers, NEW batch \in SUBSET Jobs, Claim(w, batch) PROVE IInv'
  <2>1. NoDoubleClaim'
    BY <1>0, <1>1, ClaimKeepsClaims
  <2>2. \A j \in batch : status[j] = "pending"
    BY <1>1 DEF Claim, Claimable
  <2>3. RetryBudget'
    BY <1>0, <1>1, <2>2 DEF Claim, RetryBudget, TypeOK, Terminal
  <2>4. \A f \in execs' \ execs : /\ f.job \in batch
                                  /\ f.version = lease_version[f.job] + 1
                                  /\ f.pc = "processing"
    BY <1>1 DEF Claim
  <2>5. /\ \A j \in batch : status'[j] = "processing" /\ lease_version'[j] = lease_version[j] + 1
        /\ \A j \in Jobs \ batch : /\ status'[j] = status[j]
                                   /\ lease_version'[j] = lease_version[j]
                                   /\ leased_by'[j] = leased_by[j]
        /\ attempt_count' = attempt_count
    BY <1>1 DEF Claim
  <2>6. ExecBehindRow'
    <3> SUFFICES ASSUME NEW f \in execs'
                 PROVE /\ f.version <= lease_version'[f.job]
                       /\ status'[f.job] = "pending" => f.version < lease_version'[f.job]
      BY DEF ExecBehindRow
    <3>1. f.job \in Jobs /\ f.version \in Nat /\ lease_version[f.job] \in Nat
      BY <1>0, <1>e DEF TypeOK, Exec
    <3>2. CASE f \in execs
      BY <1>0, <2>5, <3>1, <3>2 DEF ExecBehindRow
    <3>3. CASE f \notin execs
      BY <2>4, <2>5, <3>1, <3>3
    <3>4. QED BY <3>2, <3>3
  <2>7. ReadIsCurrent'
    <3> SUFFICES ASSUME NEW f \in execs', f.pc = "writing", Fenced(f)'
                 PROVE f.next = attempt_count'[f.job] + 1
      BY DEF ReadIsCurrent
    <3>1. f \in execs /\ f.job \in Jobs
      BY <1>e, <2>4 DEF Exec
    <3>2. f.job \notin batch
      BY <1>0, <2>2, <2>5, <3>1 DEF Fenced, ExecBehindRow, TypeOK, Exec
    <3>3. Fenced(f)
      BY <2>5, <3>1, <3>2 DEF Fenced
    <3>4. QED BY <1>0, <2>5, <3>1, <3>3 DEF ReadIsCurrent
  <2>8. QED BY <2>1, <2>3, <2>6, <2>7 DEF IInv
<1>2. ASSUME NEW e \in execs, ProcessItem(e) PROVE IInv'
  <2>1. PICK f : f \in Exec /\ f.job = e.job /\ f.version = e.version
                 /\ f.worker = e.worker /\ f.pc # "writing" /\ Move(e, f)
    <3>1. /\ [e EXCEPT !.pc = "succeeded"] \in Exec
          /\ \A force \in BOOLEAN : [e EXCEPT !.pc = "failed", !.force = force] \in Exec
      BY <1>e DEF Exec
    <3>2. CASE Move(e, [e EXCEPT !.pc = "succeeded"])
      BY <1>e, <3>1, <3>2 DEF Exec
    <3>3. ASSUME NEW force \in BOOLEAN, Move(e, [e EXCEPT !.pc = "failed", !.force = force])
          PROVE \E f : f \in Exec /\ f.job = e.job /\ f.version = e.version
                 /\ f.worker = e.worker /\ f.pc # "writing" /\ Move(e, f)
      BY <1>e, <3>1, <3>3 DEF Exec
    <3>4. QED BY <1>2, <3>2, <3>3 DEF ProcessItem
  <2>2. NoDoubleClaim'
    BY <1>0, <2>1, MoveKeepsClaims
  <2>3. QED BY <1>2, <2>1, <2>2, RowsUntouched DEF ProcessItem, Move, IInv
<1>3. ASSUME NEW e \in execs, extendLease(e) PROVE IInv'
  BY <1>0, <1>3 DEF extendLease, IInv, NoDoubleClaim, RetryBudget, ExecBehindRow,
                    ReadIsCurrent, Fenced
<1>4. ASSUME NEW e \in execs, e.pc = "succeeded", MarkProcessed(e),
             UNCHANGED <<lease_version, attempt_count>>,
             \A f \in execs' : \E g \in execs :
                /\ f.job = g.job /\ f.version = g.version /\ f.worker = g.worker
                /\ (f.pc = "writing" => f = g)
      PROVE RetryBudget' /\ ExecBehindRow' /\ ReadIsCurrent'
  <2>1. \A j \in Jobs : \/ status'[j] = status[j] /\ leased_by'[j] = leased_by[j]
                        \/ status'[j] = "processed"
    BY <1>0, <1>4 DEF MarkProcessed, TypeOK
  <2>2. RetryBudget'
    BY <1>0, <1>4, <2>1 DEF RetryBudget, Terminal
  <2>3. ExecBehindRow'
    <3> SUFFICES ASSUME NEW f \in execs'
                 PROVE /\ f.version <= lease_version'[f.job]
                       /\ status'[f.job] = "pending" => f.version < lease_version'[f.job]
      BY DEF ExecBehindRow
    <3>1. f.job \in Jobs
      BY <1>e DEF Exec
    <3>2. QED BY <1>0, <1>4, <2>1, <3>1 DEF ExecBehindRow
  <2>4. ReadIsCurrent'
    <3> SUFFICES ASSUME NEW f \in execs', f.pc = "writing", Fenced(f)'
                 PROVE f.next = attempt_count'[f.job] + 1
      BY DEF ReadIsCurrent
    <3>1. f \in execs /\ f.job \in Jobs
      BY <1>4, <1>e DEF Exec
    <3>2. Fenced(f)
      BY <1>4, <2>1, <3>1 DEF Fenced
    <3>3. QED BY <1>0, <1>4, <3>1, <3>2 DEF ReadIsCurrent
  <2>5. QED BY <2>2, <2>3, <2>4
<1>5. ASSUME NEW e \in execs, commitSuccess(e) PROVE IInv'
  <2>1. NoDoubleClaim'
    BY <1>0, <1>5, LeaveKeepsClaims DEF commitSuccess, Leave
  <2>2. execs' \subseteq execs
    BY <1>5 DEF commitSuccess, Leave
  <2>3. QED BY <1>4, <1>5, <2>1, <2>2 DEF commitSuccess, IInv
<1>6. ASSUME NEW e \in execs, CommitSuccessThrows(e) PROVE IInv'
  <2> DEFINE f == [e EXCEPT !.pc = "failed"]
  <2>1. f \in Exec /\ f.job = e.job /\ f.version = e.version /\ f.worker = e.worker
        /\ f.pc = "failed"
    BY <1>e DEF Exec
  <2>2. execs' = (execs \ {e}) \cup {f} /\ Move(e, f)
    BY <1>6 DEF CommitSuccessThrows, Move
  <2> HIDE DEF f
  <2>3. NoDoubleClaim'
    BY <1>0, <2>1, <2>2, MoveKeepsClaims
  <2>4. \A g \in execs' : \E h \in execs : g.job = h.job /\ g.version = h.version
                             /\ g.worker = h.worker /\ (g.pc = "writing" => g = h)
    BY <2>1, <2>2
  <2>5. CASE MarkProcessed(e)
    BY <1>4, <1>6, <2>3, <2>4, <2>5 DEF CommitSuccessThrows, IInv
  <2>6. CASE UNCHANGED <<status, leased_by, lease>>
    <3>1. UNCHANGED row
      BY <1>6, <2>6 DEF CommitSuccessThrows, row
    <3>2. QED BY <2>1, <2>2, <2>3, <3>1, RowsUntouched DEF IInv
  <2>7. QED BY <1>6, <2>5, <2>6 DEF CommitSuccessThrows
<1>7. ASSUME NEW e \in execs, commitFailureRead(e) PROVE IInv'
  <2>1. CASE Fenced(e)
    <3> DEFINE f == [e EXCEPT !.pc = "writing", !.next = attempt_count[e.job] + 1]
    <3>0. e \in Exec /\ e.job \in Jobs /\ attempt_count[e.job] + 1 \in Nat
      BY <1>0, <1>e DEF Exec, TypeOK
    <3>1. f.job = e.job /\ f.version = e.version /\ f.worker = e.worker
          /\ f.next = attempt_count[e.job] + 1
      BY <3>0 DEF Exec
    <3>2. execs' = (execs \ {e}) \cup {f} /\ Move(e, f)
      BY <1>7, <2>1 DEF commitFailureRead, Move
    <3>3. f \in Exec
      BY <3>0 DEF Exec
    <3> HIDE DEF f
    <3>4. NoDoubleClaim'
      BY <1>0, <3>1, <3>2, <3>3, MoveKeepsClaims
    <3>5. QED BY <1>7, <2>1, <3>1, <3>2, <3>4, RowsUntouched DEF commitFailureRead, IInv
  <2>2. CASE ~Fenced(e)
    <3>1. execs' \subseteq execs
      BY <1>7, <2>2 DEF commitFailureRead, Leave
    <3>2. NoDoubleClaim'
      BY <1>0, <3>1, LeaveKeepsClaims
    <3>3. QED BY <1>7, <3>1, <3>2, RowsUntouched DEF commitFailureRead, IInv
  <2>3. QED BY <2>1, <2>2
<1>8. ASSUME NEW e \in execs, commitFailureWrite(e) PROVE IInv'
  <2>1. execs' = execs \ {e} /\ e.job \in Jobs /\ e.next \in Nat
    BY <1>8, <1>e DEF commitFailureWrite, Leave, Exec
  <2>2. NoDoubleClaim'
    BY <1>0, <2>1, LeaveKeepsClaims
  <2>3. CASE Fenced(e)
    <3> DEFINE j == e.job
    <3>1. /\ \A k \in Jobs \ {j} : /\ status'[k] = status[k]
                                   /\ leased_by'[k] = leased_by[k]
                                   /\ attempt_count'[k] = attempt_count[k]
          /\ lease_version' = lease_version
          /\ leased_by'[j] = NoWorker
          /\ attempt_count'[j] = e.next
          /\ status'[j] = IF IsDead(e) THEN "dead_letter" ELSE "pending"
      BY <1>0, <1>8, <2>1, <2>3 DEF commitFailureWrite, TypeOK
    <3>2. e.next = attempt_count[j] + 1 /\ attempt_count[j] < MaxAttempts
      <4>1. e.pc = "writing"
        BY <1>8 DEF commitFailureWrite
      <4>2. status[j] = "processing"
        BY <2>3 DEF Fenced
      <4>3. e.next = attempt_count[j] + 1
        BY <1>0, <2>3, <4>1 DEF ReadIsCurrent
      <4>4. attempt_count[j] < MaxAttempts
        BY <1>0, <2>1, <4>2 DEF RetryBudget, Terminal
      <4>5. QED BY <4>3, <4>4
    <3>3. RetryBudget'
      BY <1>0, <2>1, <3>1, <3>2 DEF RetryBudget, IsDead, Terminal, TypeOK
    <3>4. ExecBehindRow'
      <4> SUFFICES ASSUME NEW f \in execs'
                   PROVE /\ f.version <= lease_version'[f.job]
                         /\ status'[f.job] = "pending" => f.version < lease_version'[f.job]
        BY DEF ExecBehindRow
      <4>1. f \in execs /\ f # e /\ f.job \in Jobs /\ f.version \in Nat
            /\ lease_version[f.job] \in Nat
        BY <1>0, <1>e, <2>1 DEF TypeOK, Exec
      <4>2. CASE f.job = j
        BY <2>3, <3>1, <4>1, <4>2, HolderIsLatest
      <4>3. CASE f.job # j
        BY <1>0, <3>1, <4>1, <4>3 DEF ExecBehindRow
      <4>4. QED BY <4>2, <4>3
    <3>5. ReadIsCurrent'
      <4> SUFFICES ASSUME NEW f \in execs', f.pc = "writing", Fenced(f)'
                   PROVE f.next = attempt_count'[f.job] + 1
        BY DEF ReadIsCurrent
      <4>1. f \in execs /\ f.job \in Jobs
        BY <1>e, <2>1 DEF Exec
      <4>2. f.job # j
        BY <3>1, <4>1 DEF Fenced
      <4>3. Fenced(f)
        BY <3>1, <4>1, <4>2 DEF Fenced
      <4>4. QED BY <1>0, <3>1, <4>1, <4>2, <4>3 DEF ReadIsCurrent
    <3>6. QED BY <2>2, <3>3, <3>4, <3>5 DEF IInv
  <2>4. CASE ~Fenced(e)
    <3>1. UNCHANGED row
      BY <1>8, <2>4 DEF commitFailureWrite, row
    <3>2. QED BY <2>1, <2>2, <3>1, RowsUntouched DEF IInv
  <2>5. QED BY <2>3, <2>4
<1>9. ASSUME execs' \subseteq execs, UNCHANGED row PROVE IInv'
  BY <1>0, <1>9, LeaveKeepsClaims, RowsUntouched DEF IInv
<1>10. ASSUME NEW e \in execs, CommitFailureThrows(e) PROVE IInv'
  BY <1>9, <1>10 DEF CommitFailureThrows, Leave
<1>11. ASSUME NEW S \in SUBSET Jobs, NEW to \in {"pending", "dead_letter"},
              \A j \in S : status[j] = "processing",
              to = "dead_letter" \/ \A j \in S : attempt_count[j] < MaxAttempts,
              status' = [j \in Jobs |-> IF j \in S THEN to ELSE status[j]],
              lease_version' = [j \in Jobs |-> IF j \in S THEN lease_version[j] + 1
                                                          ELSE lease_version[j]],
              \A j \in Jobs \ S : leased_by'[j] = leased_by[j],
              UNCHANGED <<attempt_count, execs>>
       PROVE IInv'
  <2>1. NoDoubleClaim'
    BY <1>0, <1>11, LeaveKeepsClaims
  <2>2. RetryBudget'
    BY <1>0, <1>11 DEF RetryBudget, Terminal
  <2>3. ExecBehindRow'
    <3> SUFFICES ASSUME NEW f \in execs
                 PROVE /\ f.version <= lease_version'[f.job]
                       /\ status'[f.job] = "pending" => f.version < lease_version'[f.job]
      BY <1>11 DEF ExecBehindRow
    <3>1. f.job \in Jobs /\ f.version \in Nat /\ lease_version[f.job] \in Nat
      BY <1>0, <1>e DEF TypeOK, Exec
    <3>2. QED BY <1>0, <1>11, <3>1 DEF ExecBehindRow
  <2>4. ReadIsCurrent'
    <3> SUFFICES ASSUME NEW f \in execs, f.pc = "writing", Fenced(f)'
                 PROVE f.next = attempt_count[f.job] + 1
      BY <1>11 DEF ReadIsCurrent
    <3>1. f.job \in Jobs /\ f.version \in Nat /\ lease_version[f.job] \in Nat
      BY <1>0, <1>e DEF TypeOK, Exec
    <3>2. f.job \notin S
      BY <1>0, <1>11, <3>1 DEF Fenced, ExecBehindRow
    <3>3. Fenced(f)
      BY <1>11, <3>1, <3>2 DEF Fenced
    <3>4. QED BY <1>0, <3>3 DEF ReadIsCurrent
  <2>5. QED BY <2>1, <2>2, <2>3, <2>4 DEF IInv
<1>12. ASSUME NEW w \in Workers, reclaimRetry(w) PROVE IInv'
  <2> DEFINE S == {j \in Expired : attempt_count[j] < MaxAttempts}
  <2>1. /\ status' = [j \in Jobs |-> IF j \in S THEN "pending" ELSE status[j]]
        /\ lease_version' = [j \in Jobs |-> IF j \in S THEN lease_version[j] + 1
                                                       ELSE lease_version[j]]
        /\ \A j \in Jobs \ S : leased_by'[j] = leased_by[j]
        /\ UNCHANGED <<attempt_count, execs>>
    BY <1>12 DEF reclaimRetry
  <2>2. /\ S \in SUBSET Jobs
        /\ \A j \in S : status[j] = "processing" /\ attempt_count[j] < MaxAttempts
    BY DEF Expired
  <2> HIDE DEF S
  <2>3. QED BY <1>11, <2>1, <2>2
<1>13. ASSUME NEW w \in Workers, reclaimBury(w) PROVE IInv'
  <2> DEFINE S == {j \in Expired : attempt_count[j] >= MaxAttempts}
  <2>1. /\ status' = [j \in Jobs |-> IF j \in S THEN "dead_letter" ELSE status[j]]
        /\ lease_version' = [j \in Jobs |-> IF j \in S THEN lease_version[j] + 1
                                                       ELSE lease_version[j]]
        /\ \A j \in Jobs \ S : leased_by'[j] = leased_by[j]
        /\ UNCHANGED <<attempt_count, execs>>
    BY <1>13 DEF reclaimBury
  <2>2. /\ S \in SUBSET Jobs
        /\ \A j \in S : status[j] = "processing"
    BY DEF Expired
  <2> HIDE DEF S
  <2>3. QED BY <1>11, <2>1, <2>2
<1>14. ASSUME NEW w \in Workers, Crash(w) \/ Restart(w) PROVE IInv'
  <2>1. execs' \subseteq execs /\ UNCHANGED row
    BY <1>14 DEF Crash, Restart
  <2>2. QED BY <1>9, <2>1
<1>15. ASSUME NEW j \in Jobs, LeaseExpires(j) \/ RetryFallsDue(j) PROVE IInv'
  <2>1. UNCHANGED <<status, leased_by, lease_version, attempt_count, execs>>
    BY <1>15 DEF LeaseExpires, RetryFallsDue
  <2>2. QED
    BY <1>0, <2>1 DEF IInv, NoDoubleClaim, RetryBudget, ExecBehindRow, ReadIsCurrent, Fenced
<1>16. CASE UNCHANGED vars
  <2>1. execs' \subseteq execs /\ UNCHANGED row
    BY <1>16 DEF vars, row
  <2>2. QED BY <1>9, <2>1
<1>17. QED
  BY <1>1, <1>2, <1>3, <1>5, <1>6, <1>7, <1>8, <1>10, <1>12, <1>13, <1>14, <1>15, <1>16
  DEF Next

\* The inductive invariant holds in every reachable state.
THEOREM Invariance == Spec => []IInv
<1>1. Init => IInv
  BY LeaseAssumption DEF Init, IInv, TypeOK, NoDoubleClaim, RetryBudget, ExecBehindRow,
     ReadIsCurrent, Status, Terminal, Exec
<1>2. QED
  BY <1>1, IInvStep, TypeCorrect, PTL DEF Spec

\* Two executions of one job never hold adjacent lease versions: the older one
\* was always revoked before the younger was granted.
THEOREM ClaimsAreExclusive == Spec => []NoDoubleClaim
BY Invariance, PTL DEF IInv

\* A row that can still run has attempts left; the statement of the lease
\* recovery that dead-letters exhausted rows therefore never finds one.
THEOREM RetriesAreBounded == Spec => []RetryBudget
BY Invariance, PTL DEF IInv

--------------------------------------------------------------------------------
(* The queue table implements the fenced lock service of JobLease. *)

Holders == {<<e.job, e.version>> : e \in execs}

\* A version belongs to one execution: when it ends, exactly its pair is gone.
LEMMA HoldersLeave ==
  ASSUME IInv, NEW e \in execs
  PROVE  {<<f.job, f.version>> : f \in execs \ {e}} = Holders \ {<<e.job, e.version>>}
<1>1. ASSUME NEW f \in execs, f # e PROVE <<f.job, f.version>> # <<e.job, e.version>>
  BY <1>1 DEF IInv, NoDoubleClaim, TypeOK, Exec
<1>2. QED BY <1>1 DEF Holders

LEMMA HoldersMove ==
  ASSUME NEW e \in execs, NEW f, f.job = e.job, f.version = e.version, Move(e, f)
  PROVE  Holders' = Holders
BY DEF Holders, Move

LEMMA HoldersShrink ==
  ASSUME execs' \subseteq execs, UNCHANGED row
  PROVE  Lease!Vanish
BY DEF Holders, row, Lease!Vanish

\* Every step of the queue is a step of the lock service or leaves it unchanged.
LEMMA RefinementStep == IInv /\ [Next]_vars => [Lease!Next]_(Lease!vars)
<1> SUFFICES ASSUME IInv, [Next]_vars
             PROVE Lease!Next \/ UNCHANGED <<status, lease_version, attempt_count, Holders>>
  BY DEF Lease!vars, Holders
<1> USE LeaseAssumption
<1>0. TypeOK /\ NoDoubleClaim /\ RetryBudget /\ ExecBehindRow /\ ReadIsCurrent
      /\ execs \subseteq Exec
  BY DEF IInv, TypeOK
<1>1. ASSUME NEW w \in Workers, NEW batch \in SUBSET Jobs, Claim(w, batch)
      PROVE Lease!Grant(batch)
  <2>1. \A j \in batch : status[j] = "pending" /\ attempt_count[j] < MaxAttempts
    BY <1>0, <1>1 DEF Claim, Claimable, RetryBudget, Terminal
  <2>2. Holders' = Holders \cup {<<j, lease_version[j] + 1>> : j \in batch}
    <3> DEFINE new(j) == [job |-> j, worker |-> w, version |-> lease_version[j] + 1,
                          pc |-> "processing", force |-> FALSE, next |-> 0]
    <3>1. execs' = execs \cup {new(j) : j \in batch}
      BY <1>1 DEF Claim
    <3>2. \A j \in batch : new(j).job = j /\ new(j).version = lease_version[j] + 1
      OBVIOUS
    <3> HIDE DEF new
    <3>3. QED BY <3>1, <3>2 DEF Holders
  <2>3. QED BY <1>1, <2>1, <2>2 DEF Claim, Lease!Grant, Holders
<1>2. ASSUME NEW e \in execs, ProcessItem(e)
      PROVE UNCHANGED <<status, lease_version, attempt_count, Holders>>
  <2>1. PICK f : f.job = e.job /\ f.version = e.version /\ Move(e, f)
    <3>1. e \in Exec BY <1>0
    <3>2. CASE Move(e, [e EXCEPT !.pc = "succeeded"])
      BY <3>1, <3>2 DEF Exec
    <3>3. ASSUME NEW force \in BOOLEAN, Move(e, [e EXCEPT !.pc = "failed", !.force = force])
          PROVE \E f : f.job = e.job /\ f.version = e.version /\ Move(e, f)
      BY <3>1, <3>3 DEF Exec
    <3>4. QED BY <1>2, <3>2, <3>3 DEF ProcessItem
  <2>2. QED BY <1>2, <2>1, HoldersMove DEF ProcessItem, row
<1>3. ASSUME NEW e \in execs, extendLease(e)
      PROVE UNCHANGED <<status, lease_version, attempt_count, Holders>>
  BY <1>3 DEF extendLease, Holders
<1>4. ASSUME NEW e \in execs, Fenced(e) PROVE Lease!Held(e.job)
  BY <1>4 DEF Fenced, Lease!Held, Holders
<1>5. ASSUME NEW e \in execs, commitSuccess(e) PROVE Lease!Next
  <2>1. execs' = execs \ {e}
    BY <1>5 DEF commitSuccess, Leave
  <2>2. CASE Fenced(e)
    <3>1. Lease!Held(e.job) /\ e.job \in Jobs /\ e.version = lease_version[e.job]
      BY <1>0, <1>4, <2>2 DEF Fenced, Exec
    <3>2. Holders' = Holders \ {<<e.job, lease_version[e.job]>>}
      BY <2>1, <3>1, HoldersLeave DEF Holders
    <3>3. Lease!Finish(e.job)
      BY <1>5, <2>2, <3>1, <3>2 DEF commitSuccess, MarkProcessed, Lease!Finish, Holders
    <3>4. QED BY <3>1, <3>3 DEF Lease!Next
  <2>3. CASE ~Fenced(e)
    BY <1>5, <2>1, <2>3, HoldersShrink DEF commitSuccess, MarkProcessed, row, Lease!Next
  <2>4. QED BY <2>2, <2>3
<1>6. ASSUME NEW e \in execs, CommitSuccessThrows(e)
      PROVE Lease!Next \/ UNCHANGED <<status, lease_version, attempt_count, Holders>>
  <2>1. Holders' = Holders
    <3>1. [e EXCEPT !.pc = "failed"].job = e.job /\ [e EXCEPT !.pc = "failed"].version = e.version
      BY <1>0 DEF Exec
    <3>2. Move(e, [e EXCEPT !.pc = "failed"])
      BY <1>6 DEF CommitSuccessThrows
    <3>3. QED BY <3>1, <3>2, HoldersMove
  <2>2. CASE MarkProcessed(e) /\ Fenced(e)
    <3>1. Lease!Held(e.job) /\ e.job \in Jobs
      BY <1>0, <1>4, <2>2 DEF Exec
    <3>2. Lease!Finish(e.job)
      BY <1>6, <2>1, <2>2, <3>1 DEF CommitSuccessThrows, MarkProcessed, Lease!Finish, Holders
    <3>3. QED BY <3>1, <3>2 DEF Lease!Next
  <2>3. CASE UNCHANGED status
    BY <1>6, <2>1, <2>3 DEF CommitSuccessThrows
  <2>4. QED BY <1>6, <2>2, <2>3 DEF CommitSuccessThrows, MarkProcessed
<1>7. ASSUME NEW e \in execs, commitFailureRead(e)
      PROVE Lease!Next \/ UNCHANGED <<status, lease_version, attempt_count, Holders>>
  <2>1. CASE Fenced(e)
    <3> DEFINE f == [e EXCEPT !.pc = "writing", !.next = attempt_count[e.job] + 1]
    <3>1. f.job = e.job /\ f.version = e.version
      BY <1>0 DEF Exec
    <3>2. Move(e, f)
      BY <1>7, <2>1 DEF commitFailureRead
    <3> HIDE DEF f
    <3>3. QED BY <1>7, <3>1, <3>2, HoldersMove DEF commitFailureRead, row
  <2>2. CASE ~Fenced(e)
    BY <1>7, <2>2, HoldersShrink DEF commitFailureRead, Leave, Lease!Next
  <2>3. QED BY <2>1, <2>2
<1>8. ASSUME NEW e \in execs, commitFailureWrite(e) PROVE Lease!Next
  <2>1. execs' = execs \ {e}
    BY <1>8 DEF commitFailureWrite, Leave
  <2>2. CASE Fenced(e)
    <3>1. Lease!Held(e.job) /\ e.job \in Jobs /\ e.version = lease_version[e.job]
      BY <1>0, <1>4, <2>2 DEF Fenced, Exec
    <3>2. Holders' = Holders \ {<<e.job, lease_version[e.job]>>}
      BY <2>1, <3>1, HoldersLeave DEF Holders
    <3>3. e.next = attempt_count[e.job] + 1
      BY <1>0, <1>8, <2>2 DEF commitFailureWrite, ReadIsCurrent
    <3>4. attempt_count' = [attempt_count EXCEPT ![e.job] = @ + 1]
      BY <1>8, <2>2, <3>3 DEF commitFailureWrite
    <3>5. \/ status' = [status EXCEPT ![e.job] = "dead_letter"]
          \/ /\ attempt_count[e.job] + 1 < MaxAttempts
             /\ status' = [status EXCEPT ![e.job] = "pending"]
      <4>1. attempt_count[e.job] \in Nat
        BY <1>0, <3>1 DEF TypeOK
      <4>2. QED BY <1>8, <2>2, <3>3, <4>1 DEF commitFailureWrite, IsDead
    <3>6. lease_version' = lease_version
      BY <1>8 DEF commitFailureWrite
    <3>7. Lease!RecordFailure(e.job)
      BY <3>1, <3>2, <3>4, <3>5, <3>6 DEF Lease!RecordFailure, Holders
    <3>8. QED BY <3>1, <3>7 DEF Lease!Next
  <2>3. CASE ~Fenced(e)
    BY <1>8, <2>1, <2>3, HoldersShrink DEF commitFailureWrite, row, Lease!Next
  <2>4. QED BY <2>2, <2>3
<1>9. ASSUME NEW e \in execs, CommitFailureThrows(e) PROVE Lease!Next
  BY <1>9, HoldersShrink DEF CommitFailureThrows, Leave, Lease!Next
<1>10. ASSUME NEW w \in Workers, reclaimRetry(w) PROVE Lease!Next
  <2> DEFINE S == {j \in Expired : attempt_count[j] < MaxAttempts}
  <2>1. /\ status' = [j \in Jobs |-> IF j \in S THEN "pending" ELSE status[j]]
        /\ lease_version' = [j \in Jobs |-> IF j \in S THEN lease_version[j] + 1
                                                       ELSE lease_version[j]]
        /\ UNCHANGED <<attempt_count, execs>>
    BY <1>10 DEF reclaimRetry
  <2>2. S \in SUBSET Jobs /\ \A j \in S : status[j] = "processing"
    BY DEF Expired
  <2> HIDE DEF S
  <2>3. Lease!Revoke(S)
    BY <2>1, <2>2 DEF Lease!Revoke, Holders
  <2>4. QED BY <2>2, <2>3 DEF Lease!Next
<1>11. ASSUME NEW w \in Workers, reclaimBury(w)
       PROVE UNCHANGED <<status, lease_version, attempt_count, Holders>>
  <2> DEFINE S == {j \in Expired : attempt_count[j] >= MaxAttempts}
  <2>1. S = {}
    BY <1>0 DEF Expired, RetryBudget, Terminal, TypeOK
  <2>2. /\ status' = [j \in Jobs |-> IF j \in S THEN "dead_letter" ELSE status[j]]
        /\ lease_version' = [j \in Jobs |-> IF j \in S THEN lease_version[j] + 1
                                                       ELSE lease_version[j]]
        /\ UNCHANGED <<attempt_count, execs>>
    BY <1>11 DEF reclaimBury
  <2> HIDE DEF S
  <2>3. status' = status /\ lease_version' = lease_version
    BY <1>0, <2>1, <2>2 DEF TypeOK
  <2>4. QED BY <2>2, <2>3 DEF Holders
<1>12. ASSUME NEW w \in Workers, Crash(w) \/ Restart(w) PROVE Lease!Next
  <2>1. execs' \subseteq execs /\ UNCHANGED row
    BY <1>12 DEF Crash, Restart
  <2>2. QED BY <2>1, HoldersShrink DEF Lease!Next
<1>13. ASSUME NEW j \in Jobs, LeaseExpires(j) \/ RetryFallsDue(j)
       PROVE UNCHANGED <<status, lease_version, attempt_count, Holders>>
  BY <1>13 DEF LeaseExpires, RetryFallsDue, Holders
<1>14. CASE UNCHANGED vars
  BY <1>14 DEF vars, Holders
<1>15. ASSUME NEW batch \in SUBSET Jobs, Lease!Grant(batch) PROVE Lease!Next
  BY <1>15 DEF Lease!Next
<1>16. QED
  BY <1>1, <1>2, <1>3, <1>5, <1>6, <1>7, <1>8, <1>9, <1>10, <1>11, <1>12, <1>13, <1>14, <1>15
  DEF Next

\* The statements, leases, crashes and retries of the queue implement the
\* fenced lock service: only the holder of the current epoch finishes a job.
THEOREM QueueImplementsLease == Spec => ImplementsJobLease
<1>1. Init => Lease!Init
  BY DEF Init, Lease!Init
<1>2. QED
  BY <1>1, RefinementStep, Invariance, PTL DEF Spec, ImplementsJobLease, Lease!Spec

\* A finished row never changes again.
THEOREM FinishedRowsAreFinal == Spec => TerminalIsFinal
<1>1. IInv /\ [Next]_vars =>
        [\A j \in Jobs : status[j] \in Terminal =>
            /\ status'[j] = status[j]
            /\ lease_version'[j] = lease_version[j]
            /\ attempt_count'[j] = attempt_count[j]]_vars
  <2> SUFFICES ASSUME IInv, Next, NEW j \in Jobs, status[j] \in Terminal
               PROVE status'[j] = status[j] /\ lease_version'[j] = lease_version[j]
                     /\ attempt_count'[j] = attempt_count[j]
    OBVIOUS
  <2>0. TypeOK BY DEF IInv
  <2>1. status[j] # "pending" /\ status[j] # "processing"
    BY DEF Terminal
  <2>2. ASSUME NEW w \in Workers, NEW batch \in SUBSET Jobs, Claim(w, batch)
        PROVE status'[j] = status[j] /\ lease_version'[j] = lease_version[j]
              /\ attempt_count'[j] = attempt_count[j]
    BY <2>1, <2>2 DEF Claim, Claimable
  <2>3. ASSUME NEW e \in execs,
               \/ ProcessItem(e) \/ extendLease(e) \/ commitFailureRead(e)
               \/ CommitFailureThrows(e)
        PROVE status'[j] = status[j] /\ lease_version'[j] = lease_version[j]
              /\ attempt_count'[j] = attempt_count[j]
    BY <2>3 DEF ProcessItem, extendLease, commitFailureRead, CommitFailureThrows, row
  <2>4. ASSUME NEW e \in execs, commitSuccess(e) \/ CommitSuccessThrows(e)
        PROVE status'[j] = status[j] /\ lease_version'[j] = lease_version[j]
              /\ attempt_count'[j] = attempt_count[j]
    BY <2>0, <2>1, <2>4 DEF commitSuccess, CommitSuccessThrows, MarkProcessed, Fenced, TypeOK
  <2>5. ASSUME NEW e \in execs, commitFailureWrite(e)
        PROVE status'[j] = status[j] /\ lease_version'[j] = lease_version[j]
              /\ attempt_count'[j] = attempt_count[j]
    BY <2>0, <2>1, <2>5 DEF commitFailureWrite, Fenced, TypeOK
  <2>6. ASSUME NEW w \in Workers, reclaimRetry(w) \/ reclaimBury(w)
        PROVE status'[j] = status[j] /\ lease_version'[j] = lease_version[j]
              /\ attempt_count'[j] = attempt_count[j]
    BY <2>1, <2>6 DEF reclaimRetry, reclaimBury, Expired
  <2>7. ASSUME NEW w \in Workers, Crash(w) \/ Restart(w)
        PROVE status'[j] = status[j] /\ lease_version'[j] = lease_version[j]
              /\ attempt_count'[j] = attempt_count[j]
    BY <2>7 DEF Crash, Restart, row
  <2>8. ASSUME NEW k \in Jobs, LeaseExpires(k) \/ RetryFallsDue(k)
        PROVE status'[j] = status[j] /\ lease_version'[j] = lease_version[j]
              /\ attempt_count'[j] = attempt_count[j]
    BY <2>8 DEF LeaseExpires, RetryFallsDue
  <2>9. QED BY <2>2, <2>3, <2>4, <2>5, <2>6, <2>7, <2>8 DEF Next
<1>2. QED
  BY <1>1, Invariance, PTL DEF Spec, TerminalIsFinal

\* Between the two statements of commitFailure no attempt is lost or counted twice.
THEOREM AttemptsCounted == Spec => AttemptsCountByOne
<1>1. IInv /\ [Next]_vars =>
        [\A j \in Jobs : attempt_count'[j] # attempt_count[j] =>
            attempt_count'[j] = attempt_count[j] + 1]_vars
  <2> SUFFICES ASSUME IInv, Next, NEW j \in Jobs, attempt_count'[j] # attempt_count[j]
               PROVE attempt_count'[j] = attempt_count[j] + 1
    OBVIOUS
  <2>0. TypeOK BY DEF IInv
  <2>1. PICK e \in execs : commitFailureWrite(e)
    BY DEF Next, Claim, ProcessItem, extendLease, commitSuccess, CommitSuccessThrows,
           commitFailureRead, CommitFailureThrows, reclaimRetry, reclaimBury, Crash,
           Restart, LeaseExpires, RetryFallsDue, row
  <2>2. Fenced(e) /\ e.pc = "writing"
    BY <2>1 DEF commitFailureWrite
  <2>3. e.next = attempt_count[e.job] + 1
    BY <2>2 DEF IInv, ReadIsCurrent
  <2>4. attempt_count' = [attempt_count EXCEPT ![e.job] = e.next]
    BY <2>1, <2>2 DEF commitFailureWrite
  <2>5. QED BY <2>0, <2>3, <2>4 DEF TypeOK
<1>2. QED
  BY <1>1, Invariance, PTL DEF Spec, AttemptsCountByOne

================================================================================
