--------------------------- MODULE SideEffectJournal ---------------------------
(***************************************************************************)
(* The side_effect_journal entry of one operation_key and the executions   *)
(* that run the operation (atomic-engine.js: acquireSideEffectSlot,        *)
(* completeSideEffect, failSideEffect).  Executions of one job overlap     *)
(* whenever a lease is lost while its holder still runs, so every          *)
(* statement may interleave with those of another attempt.                 *)
(*                                                                         *)
(* The provider is external: it deduplicates calls that carry the same     *)
(* idempotency key, the replay token of the entry.                         *)
(***************************************************************************)
EXTENDS Integers, FiniteSets

CONSTANTS Attempts       \* the executions that run the operation

VARIABLES serial,     \* a lease is never lost: one attempt runs at a time
          purging,    \* old completed entries are cleaned up
          state,      \* state of the entry, "absent" when there is no row
          replay,     \* replay_token of the entry; every insertion has a new one
          tokens,     \* number of tokens generated so far
          pc,         \* where each attempt stands
          token,      \* replayToken returned to the attempt, 0 for none
          charged     \* the effects the provider really carried out

setting == <<serial, purging>>
vars == <<setting, state, replay, tokens, pc, token, charged>>

States == {"absent", "initiated", "executing", "completed", "failed"}

\* idle: not started; conflict, inserted: between the two statements of acquire;
\* calling: the provider is being called; called, refused: it answered;
\* done: completed; skipped: alreadyExecuted; gaveUp: error rethrown or crashed.
Points == {"idle", "conflict", "inserted", "calling", "called", "refused",
           "done", "skipped", "gaveUp"}

Keys == [token : Nat, by : Attempts \cup {"anyone"}]

TypeOK ==
  /\ serial \in BOOLEAN
  /\ purging \in BOOLEAN
  /\ state \in States
  /\ tokens \in Nat
  /\ replay \in 0 .. tokens
  /\ pc \in [Attempts -> Points]
  /\ token \in [Attempts -> 0 .. tokens]
  /\ charged \subseteq Keys

Init ==
  /\ serial \in BOOLEAN
  /\ purging \in BOOLEAN
  /\ state = "absent"
  /\ replay = 0
  /\ tokens = 0
  /\ pc = [a \in Attempts |-> "idle"]
  /\ token = [a \in Attempts |-> 0]
  /\ charged = {}

Goto(a, p) == pc' = [pc EXCEPT ![a] = p]

Running(a) == pc[a] \notin {"idle", "done", "skipped", "gaveUp"}

\* INSERT .. ON CONFLICT DO NOTHING
acquireInsert(a) ==
  /\ pc[a] = "idle"
  /\ serial => ~ \E b \in Attempts : Running(b)
  /\ IF state = "absent"
       THEN /\ state' = "initiated"
            /\ tokens' = tokens + 1
            /\ replay' = tokens + 1
            /\ token' = [token EXCEPT ![a] = tokens + 1]
            /\ Goto(a, "inserted")
       ELSE /\ Goto(a, "conflict")
            /\ UNCHANGED <<state, replay, tokens, token>>
  /\ UNCHANGED <<setting, charged>>

\* Fault: a retry gets a token of its own.
acquireSelectNewToken(a) ==
  /\ pc[a] = "conflict"
  /\ Goto(a, "calling")
  /\ token' = [token EXCEPT ![a] = replay + 1]
  /\ UNCHANGED <<setting, state, replay, tokens, charged>>

\* SELECT of the entry that was in the way
acquireSelect(a) ==
  /\ pc[a] = "conflict"
  /\ CASE state = "absent"    -> Goto(a, "calling") /\ UNCHANGED token
       [] state = "completed" -> Goto(a, "skipped") /\ UNCHANGED token
       [] OTHER               -> /\ Goto(a, "calling")
                                 /\ token' = [token EXCEPT ![a] = replay]
  /\ UNCHANGED <<setting, state, replay, tokens, charged>>

\* UPDATE .. SET state, of whatever row the operation_key has now
SetState(s) == state' = IF state = "absent" THEN "absent" ELSE s

\* the transition to executing of the attempt that inserted the entry
acquireExecuting(a) ==
  /\ pc[a] = "inserted"
  /\ SetState("executing")
  /\ Goto(a, "calling")
  /\ UNCHANGED <<setting, replay, tokens, token, charged>>

\* A call without a token is a new operation to the provider.
EffectKey(a) == [token |-> token[a], by |-> IF token[a] = 0 THEN a ELSE "anyone"]

\* The provider carries out the call, whether or not its answer arrives, or
\* refuses it.
CallProvider(a) ==
  /\ pc[a] = "calling"
  /\ \/ Goto(a, "refused") /\ UNCHANGED charged
     \/ /\ charged' = charged \cup {EffectKey(a)}
        /\ Goto(a, "called") \/ Goto(a, "refused")
  /\ UNCHANGED <<setting, state, replay, tokens, token>>

completeSideEffect(a) ==
  /\ pc[a] = "called"
  /\ SetState("completed")
  /\ Goto(a, "done")
  /\ UNCHANGED <<setting, replay, tokens, token, charged>>

\* failSideEffect swallows its own errors, so the entry may stay as it is.
failSideEffect(a) ==
  /\ pc[a] = "refused"
  /\ SetState("failed") \/ UNCHANGED state
  /\ Goto(a, "gaveUp")
  /\ UNCHANGED <<setting, replay, tokens, token, charged>>

\* The worker dies, or a statement throws out of processItem.
Crash(a) ==
  /\ pc[a] \in {"conflict", "inserted", "calling", "called", "refused"}
  /\ Goto(a, "gaveUp")
  /\ UNCHANGED <<setting, state, replay, tokens, token, charged>>

\* External: completed entries are removed after their retention.
Purge ==
  /\ purging
  /\ state = "completed"
  /\ state' = "absent"
  /\ UNCHANGED <<setting, replay, tokens, pc, token, charged>>

Next ==
  \/ \E a \in Attempts : \/ acquireInsert(a)
                         \/ acquireSelect(a)
                         \/ acquireExecuting(a)
                         \/ CallProvider(a)
                         \/ completeSideEffect(a)
                         \/ failSideEffect(a)
                         \/ Crash(a)
  \/ Purge

Spec == Init /\ [][Next]_vars

--------------------------------------------------------------------------------
(* Properties *)

\* An entry that says completed, and an attempt that skipped or finished the
\* call, all rest on an effect the provider carried out.
CompletedMeansCharged ==
  (state = "completed" \/ \E a \in Attempts : pc[a] \in {"called", "done", "skipped"})
    => charged # {}

\* As long as the entry is kept, every attempt, including those that overlap or
\* retry after a crash, presents the one replay token, so the provider carries
\* the operation out at most once.
ChargedOnce == ~purging => Cardinality(charged) <= 1

\* "Exactly-once": the effect is neither repeated nor skipped.
ExactlyOnce == CompletedMeansCharged /\ ChargedOnce

================================================================================
