---------------------------- MODULE ConflictLimiter ----------------------------
(***************************************************************************)
(* The conflict counter and block flag of one address                      *)
(* (planbuddy_v9/middleware/Idempotencyconflictlimiter.js), two Redis keys *)
(* shared by all processes.  INCR and EXPIRE are separate commands, so     *)
(* other requests, a lost command or a crash come in between; SET ... EX   *)
(* is one.  conflictLimiter is mounted by no route of the repository; a    *)
(* request that meets it stands for one whose route does mount it.         *)
(***************************************************************************)
EXTENDS Naturals

CONSTANTS Conflicts,        \* requests that meet a lock held by another
          CONFLICT_LIMIT

VARIABLES counter,     \* abuse:idemp-conflict:<ip>, 0 when absent
          expires,     \* the counter has a TTL
          blocked,     \* abuse:idemp-blocked:<ip>
          ready,       \* redis.status = "ready"
          request,     \* [pc, conflicts]: "new", "conflict", "expire", "block", "answered", "refused"; the INCR reply
          lost         \* ghost: an EXPIRE was not carried out

keys == << counter, expires, blocked >>
vars == << keys, ready, request, lost >>

Init ==
    /\ counter = 0 /\ expires = FALSE /\ blocked = FALSE
    /\ ready = TRUE
    /\ request = [r \in Conflicts |-> [pc |-> "new", conflicts |-> 0]]
    /\ lost = FALSE

At(r, pc) == request[r].pc = pc
Goes(r, pc) == request' = [request EXCEPT ![r].pc = pc]

-----------------------------------------------------------------------------
\* isBlocked: no answer from Redis lets the request pass.
conflictLimiter(r) ==
    /\ At(r, "new")
    /\ \/ Goes(r, IF ready /\ blocked THEN "refused" ELSE "conflict")
       \/ Goes(r, "conflict")
    /\ UNCHANGED << keys, ready, lost >>

\* What comes after the INCR, by its reply.
AfterIncr(n) == IF n >= CONFLICT_LIMIT THEN "block" ELSE "answered"

\* trackConflict: INCR leaves a TTL alone.
trackConflict(r) ==
    /\ At(r, "conflict")
    /\ IF ready
       THEN /\ counter' = counter + 1
            /\ request' = [request EXCEPT ![r] =
                   [pc |-> IF counter' = 1 THEN "expire" ELSE AfterIncr(counter'), conflicts |-> counter']]
       ELSE Goes(r, "answered") /\ UNCHANGED counter
    /\ UNCHANGED << expires, blocked, ready, lost >>

\* Fault: the window is armed for a counter that was there already, by the request that reaches the limit.
ArmsAtLimit(r) ==
    /\ At(r, "expire")
    /\ expires' = (expires \/ request[r].conflicts >= CONFLICT_LIMIT)
    /\ Goes(r, AfterIncr(request[r].conflicts))
    /\ UNCHANGED << counter, blocked, ready, lost >>

\* EXPIRE arms the window of the counter, if there still is one.
Arm(r) ==
    /\ At(r, "expire")
    /\ expires' = (counter > 0)
    /\ Goes(r, AfterIncr(request[r].conflicts))
    /\ UNCHANGED << counter, blocked, ready, lost >>

Block(r) ==
    /\ At(r, "block")
    /\ blocked' = TRUE
    /\ Goes(r, "answered")
    /\ UNCHANGED << counter, expires, ready, lost >>

\* A command throws, or the process is gone: the rest of trackConflict is skipped.  An INCR may have arrived.
CommandLost(r) ==
    /\ request[r].pc \in {"conflict", "expire", "block"}
    /\ Goes(r, "answered")
    /\ \/ At(r, "conflict") /\ counter' = counter + 1
       \/ UNCHANGED counter
    /\ lost' = (lost \/ At(r, "expire") \/ (counter = 0 /\ counter' = 1))
    /\ UNCHANGED << expires, blocked, ready >>

CounterExpires ==
    /\ expires
    /\ counter' = 0 /\ expires' = FALSE
    /\ UNCHANGED << blocked, ready, request, lost >>

BlockExpires ==
    /\ blocked
    /\ blocked' = FALSE
    /\ UNCHANGED << counter, expires, ready, request, lost >>

ReadyChanges ==
    /\ ready' = ~ready
    /\ UNCHANGED << keys, request, lost >>

Next ==
    \/ \E r \in Conflicts : conflictLimiter(r) \/ trackConflict(r) \/ Arm(r) \/ Block(r) \/ CommandLost(r)
    \/ CounterExpires \/ BlockExpires \/ ReadyChanges

Spec == Init /\ [][Next]_vars

-----------------------------------------------------------------------------
TypeOK ==
    /\ counter \in Nat
    /\ expires \in BOOLEAN /\ blocked \in BOOLEAN /\ ready \in BOOLEAN /\ lost \in BOOLEAN
    /\ request \in [Conflicts -> [pc: {"new", "conflict", "expire", "block", "answered", "refused"}, conflicts: Nat]]

\* However the requests of several processes interleave their INCR and EXPIRE, a counter without a TTL is about to get one,
\* unless an EXPIRE was lost; then nothing else ever arms it, and every further conflict blocks the address again.
EveryWindowEnds == counter > 0 /\ ~expires => lost \/ \E r \in Conflicts : At(r, "expire")
=============================================================================
