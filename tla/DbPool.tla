------------------------------- MODULE DbPool -------------------------------
(***************************************************************************)
(* The database access layer (planbuddy_v9/config/db.js): single           *)
(* statements and transactions over a pg pool, with transactions repeated  *)
(* after a serialization failure or a deadlock.  The pool itself is        *)
(* external: it keeps up to max connections, queues callers in order,      *)
(* gives up on a caller after connectionTimeoutMillis, and drops a dead    *)
(* client when it is released.  A SET LOCAL before BEGIN changes nothing.  *)
(***************************************************************************)
EXTENDS Naturals, FiniteSets, SequencesExt

CONSTANTS Calls, Connections,   \* as many as DB_POOL_MAX
          MAX_RETRIES

\* What is in a client's place when nobody has it is no call; a transaction is tried at least once.
PoolAssumption ==
    /\ "idle" \notin Calls /\ "absent" \notin Calls
    /\ MAX_RETRIES \in Nat \ {0}

VARIABLES holder,     \* of each connection: the call that has it, "idle" or "absent"
          inTx,       \* connections with a transaction open (or aborted) on the server
          broken,     \* connections that died in somebody's hands
          queue,      \* calls waiting for a connection
          ending,     \* end() was called
          call,       \* [kind, pc, attempt, retryable]
          result,     \* "none", "returned", "threw"
          committed   \* ghost: how many times the writes of a call took effect

vars == << holder, inTx, broken, queue, ending, call, result, committed >>

Init ==
    /\ holder = [c \in Connections |-> "absent"]
    /\ inTx = {} /\ broken = {}
    /\ queue = << >> /\ ending = FALSE
    /\ call \in [Calls -> [kind: {"query", "admin", "transaction"}, pc: {"new"}, attempt: {0}, retryable: {FALSE}]]
    /\ result = [q \in Calls |-> "none"]
    /\ committed = [q \in Calls |-> 0]

At(q, pc) == call[q].pc = pc
Goes(q, pc) == call' = [call EXCEPT ![q].pc = pc]

\* client.release(): a dead client, or any client of a pool that ends, is removed.
release(c) ==
    /\ holder' = [holder EXCEPT ![c] = IF c \in broken \/ ending THEN "absent" ELSE "idle"]
    /\ inTx' = IF c \in broken \/ ending THEN inTx \ {c} ELSE inTx
    /\ broken' = broken \ {c}

Ends(q, how) == Goes(q, "done") /\ result' = [result EXCEPT ![q] = how]

Mine(c, q) == holder[c] = q

-----------------------------------------------------------------------------
(* pool.connect()                                                          *)

First(kind) == CASE kind = "query" -> "statement" [] kind = "admin" -> "set" [] kind = "transaction" -> "begin"

Call(q) ==
    /\ At(q, "new")
    /\ IF ending
       THEN Ends(q, "threw") /\ UNCHANGED queue
       ELSE /\ call' = [call EXCEPT ![q].pc = "waiting", ![q].attempt = 1]
            /\ queue' = Append(queue, q)
            /\ UNCHANGED result
    /\ UNCHANGED << holder, inTx, broken, ending, committed >>

\* The head of the queue gets an idle client, or a new one while there are fewer than max.
Connected(q, c) ==
    /\ queue # << >> /\ q = Head(queue) /\ At(q, "waiting") /\ ~ending
    /\ \/ holder[c] = "idle"
       \/ holder[c] = "absent" /\ \A d \in Connections : holder[d] # "idle"
    /\ queue' = Tail(queue)
    /\ holder' = [holder EXCEPT ![c] = q]
    /\ Goes(q, First(call[q].kind))
    /\ UNCHANGED << inTx, broken, ending, result, committed >>

\* The server refuses, or connectionTimeoutMillis is over: connect() rejects, outside the try of every caller.
ConnectFails(q) ==
    /\ At(q, "waiting")
    /\ \E i \in 1..Len(queue) : queue[i] = q /\ queue' = RemoveAt(queue, i)
    /\ Ends(q, "threw")
    /\ UNCHANGED << holder, inTx, broken, ending, committed >>

-----------------------------------------------------------------------------
(* query, adminQuery                                                       *)

\* SET LOCAL outside a transaction is a warning.
adminQuery(q, c) ==
    /\ At(q, "set") /\ Mine(c, q)
    /\ \/ Goes(q, "statement") /\ UNCHANGED << holder, inTx, broken, result >>
       \/ release(c) /\ Ends(q, "threw")
    /\ UNCHANGED << queue, ending, committed >>

\* The statement commits by itself; if the connection dies nobody knows whether it did.
query(q, c) ==
    /\ At(q, "statement") /\ Mine(c, q)
    /\ release(c)
    /\ \/ Ends(q, "returned") /\ committed' = [committed EXCEPT ![q] = @ + 1]
       \/ Ends(q, "threw") /\ UNCHANGED committed
    /\ UNCHANGED << queue, ending >>

\* The connection dies under whatever runs on it; a COMMIT or a single statement may still have arrived.
Breaks(q, c) ==
    /\ Mine(c, q) /\ c \notin broken
    /\ call[q].pc \notin {"rollback", "backoff"}
    /\ broken' = broken \union {c}
    /\ inTx' = inTx \ {c}
    /\ \/ /\ call[q].pc \in {"commit", "statement"}
          /\ committed' = [committed EXCEPT ![q] = @ + 1]
       \/ UNCHANGED committed
    /\ call' = [call EXCEPT ![q].pc = IF call[q].kind = "transaction" THEN "rollback" ELSE "lost", ![q].retryable = FALSE]
    /\ UNCHANGED << holder, queue, ending, result >>

Lost(q, c) ==
    /\ At(q, "lost") /\ Mine(c, q)
    /\ release(c) /\ Ends(q, "threw")
    /\ UNCHANGED << queue, ending, committed >>

-----------------------------------------------------------------------------
(* _runTransaction                                                         *)

Begin(q, c) ==
    /\ At(q, "begin") /\ Mine(c, q)
    /\ Goes(q, "callback")
    /\ inTx' = inTx \union {c}
    /\ UNCHANGED << holder, broken, queue, ending, result, committed >>

\* 40001 and 40P01 are retryable; any error leaves the transaction to be rolled back.
Callback(q, c) ==
    /\ At(q, "callback") /\ Mine(c, q)
    /\ \/ Goes(q, "commit")
       \/ \E retryable \in BOOLEAN : call' = [call EXCEPT ![q].pc = "rollback", ![q].retryable = retryable]
    /\ UNCHANGED << holder, inTx, broken, queue, ending, result, committed >>

\* COMMIT succeeds, or is refused with a serialization failure that undoes everything.
Commit(q, c) ==
    /\ At(q, "commit") /\ Mine(c, q)
    /\ \/ /\ Ends(q, "returned")
          /\ committed' = [committed EXCEPT ![q] = @ + 1]
          /\ holder' = [holder EXCEPT ![c] = IF ending THEN "absent" ELSE "idle"]
          /\ UNCHANGED broken
       \/ /\ call' = [call EXCEPT ![q].pc = "rollback", ![q].retryable = TRUE]
          /\ UNCHANGED << holder, broken, result, committed >>
    /\ inTx' = inTx \ {c}
    /\ UNCHANGED << queue, ending >>

\* Fault: every error is taken for a conflict.
RetriesAnything(q) == call[q].attempt < MAX_RETRIES

Retries(q) == call[q].retryable /\ call[q].attempt < MAX_RETRIES

\* Fault: the client goes back with its transaction open.
ReleasesOnly(q, c) ==
    /\ At(q, "rollback") /\ Mine(c, q)
    /\ IF Retries(q) THEN Goes(q, "backoff") /\ UNCHANGED << holder, inTx, broken, result >>
                     ELSE Ends(q, "threw") /\ release(c)
    /\ UNCHANGED << queue, ending, committed >>

\* ROLLBACK, whose own failure is swallowed: it fails only on a connection that is dead, or dies of it.
Rollback(q, c) ==
    /\ At(q, "rollback") /\ Mine(c, q)
    /\ \E dies \in BOOLEAN : LET dead == c \in broken \/ dies IN
         IF Retries(q)
         THEN /\ Goes(q, "backoff")
              /\ broken' = IF dead THEN broken \union {c} ELSE broken
              /\ inTx' = inTx \ {c}
              /\ UNCHANGED << holder, result >>
         ELSE /\ Ends(q, "threw")
              /\ holder' = [holder EXCEPT ![c] = IF dead \/ ending THEN "absent" ELSE "idle"]
              /\ inTx' = inTx \ {c}
              /\ broken' = broken \ {c}
    /\ UNCHANGED << queue, ending, committed >>

\* Fault: the counter is declared inside the loop.
NextAttemptFresh(attempt) == 1

NextAttempt(attempt) == attempt + 1

\* The client is held during the pause; it is released, and the loop connects again behind everybody who waits.
Again(q, c) ==
    /\ At(q, "backoff") /\ Mine(c, q)
    /\ release(c)
    /\ IF ending
       THEN Ends(q, "threw") /\ UNCHANGED queue
       ELSE /\ call' = [call EXCEPT ![q].pc = "waiting", ![q].attempt = NextAttempt(@), ![q].retryable = FALSE]
            /\ queue' = Append(queue, q)
            /\ UNCHANGED result
    /\ UNCHANGED << ending, committed >>

-----------------------------------------------------------------------------
\* An idle client errs, or has been idle for idleTimeoutMillis.
IdleGoes(c) ==
    /\ holder[c] = "idle"
    /\ holder' = [holder EXCEPT ![c] = "absent"]
    /\ inTx' = inTx \ {c}
    /\ UNCHANGED << broken, queue, ending, call, result, committed >>

\* Idle clients are closed, the others when they come back; waiting calls are left to their timeout.
end ==
    /\ ~ending /\ ending' = TRUE
    /\ holder' = [c \in Connections |-> IF holder[c] = "idle" THEN "absent" ELSE holder[c]]
    /\ inTx' = {c \in inTx : holder[c] # "idle"}
    /\ UNCHANGED << broken, queue, call, result, committed >>

Step(q, c) == adminQuery(q, c) \/ query(q, c) \/ Lost(q, c) \/ Begin(q, c) \/ Callback(q, c) \/ Commit(q, c)
                  \/ Rollback(q, c) \/ Again(q, c)

Next ==
    \/ \E q \in Calls : \/ Call(q) \/ ConnectFails(q)
                        \/ \E c \in Connections : Connected(q, c) \/ Step(q, c) \/ Breaks(q, c)
    \/ \E c \in Connections : IdleGoes(c)
    \/ end

Spec == Init /\ [][Next]_vars

-----------------------------------------------------------------------------
TypeOK ==
    /\ holder \in [Connections -> Calls \union {"idle", "absent"}]
    /\ inTx \subseteq Connections /\ broken \subseteq Connections
    /\ \A i \in 1..Len(queue) : queue[i] \in Calls
    /\ ending \in BOOLEAN
    /\ call \in [Calls -> [kind: {"query", "admin", "transaction"},
                           pc: {"new", "waiting", "set", "statement", "lost", "begin", "callback", "commit", "rollback",
                                "backoff", "done"},
                           attempt: 0..MAX_RETRIES, retryable: BOOLEAN]]
    /\ result \in [Calls -> {"none", "returned", "threw"}]
    /\ committed \in [Calls -> 0..MAX_RETRIES]

\* Whatever fails on the way, a client in the pool is in nobody's transaction, and a call that is over holds none.
ClientsComeBackClean ==
    \A c \in Connections :
        /\ holder[c] = "idle" => c \notin inTx \union broken
        /\ holder[c] \in Calls => result[holder[c]] = "none"

\* Repeating a transaction never applies its writes twice, also when the answer to a COMMIT was lost, and a call that
\* returns has applied them.
RetryIsSafe ==
    \A q \in Calls : committed[q] <= 1 /\ (result[q] = "returned" => committed[q] = 1)

\* Every call is over at some time, also during a conflict storm and when the pool ends under it.
CallsReturn == \A q \in Calls : call[q].pc \notin {"new", "done"} ~> call[q].pc = "done"
=============================================================================
