-------------------------------- MODULE JobLease --------------------------------
(***************************************************************************)
(* What a queue table promises to the workers of the v3 runtime, with no   *)
(* word on clocks, statements or processes: a fenced lock per job.         *)
(*                                                                         *)
(* A grant hands out the job under a fresh epoch; the holder of the        *)
(* current epoch, and nobody else, may finish the job or record a failed   *)
(* attempt; a revocation moves the epoch past every holder; a holder may   *)
(* vanish at any time.                                                     *)
(***************************************************************************)
EXTENDS Integers

CONSTANTS Jobs, MaxAttempts

VARIABLES status,    \* pending, processing, processed or dead_letter
          epoch,     \* the fencing token of the latest grant or revocation
          attempts,  \* failed attempts on record
          holders    \* <<job, epoch>> pairs of the executions still running

vars == <<status, epoch, attempts, holders>>

Init ==
  /\ status = [j \in Jobs |-> "pending"]
  /\ epoch = [j \in Jobs |-> 0]
  /\ attempts = [j \in Jobs |-> 0]
  /\ holders = {}

Grant(batch) ==
  /\ \A j \in batch : status[j] = "pending" /\ attempts[j] < MaxAttempts
  /\ status' = [j \in Jobs |-> IF j \in batch THEN "processing" ELSE status[j]]
  /\ epoch' = [j \in Jobs |-> IF j \in batch THEN epoch[j] + 1 ELSE epoch[j]]
  /\ holders' = holders \cup {<<j, epoch[j] + 1>> : j \in batch}
  /\ UNCHANGED attempts

\* j is running under its current epoch.
Held(j) == status[j] = "processing" /\ <<j, epoch[j]>> \in holders

\* A completed holder leaves, unless the answer to its commit was lost.
Finish(j) ==
  /\ Held(j)
  /\ status' = [status EXCEPT ![j] = "processed"]
  /\ holders' \in {holders, holders \ {<<j, epoch[j]>>}}
  /\ UNCHANGED <<epoch, attempts>>

RecordFailure(j) ==
  /\ Held(j)
  /\ attempts' = [attempts EXCEPT ![j] = @ + 1]
  /\ \/ status' = [status EXCEPT ![j] = "dead_letter"]
     \/ /\ attempts[j] + 1 < MaxAttempts
        /\ status' = [status EXCEPT ![j] = "pending"]
  /\ holders' = holders \ {<<j, epoch[j]>>}
  /\ UNCHANGED epoch

\* Running jobs go back to the queue and every holder is fenced out.
Revoke(batch) ==
  /\ \A j \in batch : status[j] = "processing"
  /\ status' = [j \in Jobs |-> IF j \in batch THEN "pending" ELSE status[j]]
  /\ epoch' = [j \in Jobs |-> IF j \in batch THEN epoch[j] + 1 ELSE epoch[j]]
  /\ UNCHANGED <<attempts, holders>>

\* Holders end without a trace: fenced out, crashed, or their commit failed.
Vanish ==
  /\ holders' \subseteq holders
  /\ UNCHANGED <<status, epoch, attempts>>

Next ==
  \/ \E batch \in SUBSET Jobs : Grant(batch) \/ Revoke(batch)
  \/ \E j \in Jobs : Finish(j) \/ RecordFailure(j)
  \/ Vanish

Spec == Init /\ [][Next]_vars

================================================================================
