----------------------------- MODULE RuntimeProofs -----------------------------
(***************************************************************************)
(* Proofs about the parts that MCRuntime gathers - the database pool, the  *)
(* circuit breaker, the LISTEN connection and the outbox - for any number  *)
(* of calls, connections, clients, events, relays and retries, and about   *)
(* the behaviours in which any of them runs.                               *)
(***************************************************************************)
EXTENDS MCRuntime, FiniteSetTheorems, SequenceTheorems, TLAPS

--------------------------------------------------------------------------------
(* The database pool                                                       *)

\* A call with one of these has no client.
Outside == {"new", "waiting", "done"}
Stages == Outside \union {"set", "statement", "lost", "begin", "callback", "commit", "rollback", "backoff"}
CallType == [kind: {"query", "admin", "transaction"}, pc: Stages, attempt: Nat, retryable: BOOLEAN]

PoolTyped ==
    /\ holder \in [Connections -> Calls \union {"idle", "absent"}]
    /\ inTx \subseteq Connections /\ broken \subseteq Connections
    /\ ending \in BOOLEAN
    /\ call \in [Calls -> CallType]
    /\ result \in [Calls -> {"none", "returned", "threw"}]
    /\ committed \in [Calls -> {0, 1}]

\* Where a call is when its client may be dead, and when its client may be in a transaction.
MayBeBroken == {"lost", "rollback", "backoff"}
MayBeInTx == {"callback", "commit", "rollback"}

\* A client in a call's hands is what the stage of the call says; every other one is alive and in no transaction.
HeldBy(c) ==
    IF holder[c] \in Calls
    THEN /\ call[holder[c]].pc \notin Outside
         /\ c \in broken => call[holder[c]].pc \in MayBeBroken
         /\ c \in inTx => call[holder[c]].pc \in MayBeInTx
    ELSE c \notin inTx /\ c \notin broken
Held == \A c \in Connections : HeldBy(c)

\* A call has one client at most.
HeldOnce == \A c, d \in Connections : holder[c] \in Calls /\ holder[c] = holder[d] => c = d

\* The writes of a call have taken effect only where nothing repeats them.
OnceOf(q) ==
    /\ committed[q] = 1 => call[q].pc \in {"lost", "done"} \/ (call[q].pc = "rollback" /\ ~call[q].retryable)
    /\ (result[q] = "none") <=> (call[q].pc # "done")
    /\ result[q] = "returned" => committed[q] = 1
Once == \A q \in Calls : OnceOf(q)

PoolInv == PoolTyped /\ Held /\ HeldOnce /\ Once

\* Before the first call there is no client, and nothing has taken effect.
LEMMA PoolStart == ASSUME PoolAssumption, Init PROVE PoolInv
<1> USE DEF PoolAssumption, Init
<1>1. ASSUME NEW q \in Calls PROVE call[q] \in CallType /\ call[q].pc = "new"
  <2> DEFINE first == [kind: {"query", "admin", "transaction"}, pc: {"new"}, attempt: {0}, retryable: {FALSE}]
  <2>1. call[q] \in first OBVIOUS
  <2>2. \A r \in first : r.retryable \in BOOLEAN OBVIOUS
  <2>3. \A r \in first : r.pc = "new" /\ r.attempt \in Nat /\ r.kind \in {"query", "admin", "transaction"} OBVIOUS
  <2>4. \A r \in first : r = [kind |-> r.kind, pc |-> r.pc, attempt |-> r.attempt, retryable |-> r.retryable] OBVIOUS
  <2> HIDE DEF first
  <2>5. "new" \in Stages BY DEF Stages, Outside
  <2>6. QED BY <2>1, <2>2, <2>3, <2>4, <2>5 DEF CallType
<1>2. call \in [Calls -> CallType]
  BY <1>1
<1>3. PoolTyped BY <1>2 DEF PoolTyped
<1>4. QED BY <1>1, <1>3 DEF PoolInv, Held, HeldBy, HeldOnce, Once, OnceOf

\* A step of a call with its client leaves every other call and client as they are.
Others(q, c) ==
    /\ \A d \in Connections \ {c} : /\ holder'[d] = holder[d]
                                    /\ d \in inTx' <=> d \in inTx
                                    /\ d \in broken' <=> d \in broken
    /\ \A p \in Calls \ {q} : call'[p] = call[p] /\ result'[p] = result[p] /\ committed'[p] = committed[p]

\* What a step keeps of the invariant for its own call and client, it keeps for all.
LEMMA Frame ==
  ASSUME PoolAssumption, PoolInv, NEW q \in Calls, NEW c \in Connections,
         holder[c] = q, holder'[c] \in {q, "idle", "absent"}, Others(q, c), PoolTyped', HeldBy(c)', OnceOf(q)'
  PROVE  PoolInv'
<1>1. \A d \in Connections \ {c} : holder[d] # q
  BY DEF PoolInv, HeldOnce
<1>2. ASSUME NEW d \in Connections \ {c} PROVE HeldBy(d)'
  BY <1>1, <1>2 DEF PoolInv, Held, HeldBy, Others, PoolTyped
<1>3. HeldOnce'
  BY <1>1 DEF PoolInv, HeldOnce, Others, PoolAssumption
<1>4. ASSUME NEW p \in Calls \ {q} PROVE OnceOf(p)'
  BY <1>4 DEF PoolInv, Once, OnceOf, Others
<1>5. QED BY <1>2, <1>3, <1>4 DEF PoolInv, Held, Once

\* A call that is not in a client's hands, and that may be on its way to one.
LEMMA CallSteps ==
  ASSUME PoolAssumption, PoolInv, NEW q \in Calls, Call(q) \/ ConnectFails(q)
  PROVE  PoolInv'
<1> USE DEF At, Goes, Ends
<1>1. call[q].pc \in {"new", "waiting"} /\ UNCHANGED << holder, inTx, broken, ending, committed >>
  BY DEF Call, ConnectFails
<1>2. \A d \in Connections : holder[d] # q
  BY <1>1 DEF PoolInv, Held, HeldBy, Outside
<1>3. /\ call' \in [Calls -> CallType]
      /\ call'[q].pc \in {"waiting", "done"}
      /\ \A p \in Calls \ {q} : call'[p] = call[p]
  <2>1. call \in [Calls -> CallType] BY DEF PoolInv, PoolTyped
  <2>2. CASE Goes(q, "done") BY <2>1, <2>2 DEF CallType, Stages, Outside
  <2>3. CASE call' = [call EXCEPT ![q].pc = "waiting", ![q].attempt = 1]
    BY <2>1, <2>3 DEF CallType, Stages, Outside
  <2>4. QED BY <2>2, <2>3 DEF Call, ConnectFails
<1>4. /\ result' \in [Calls -> {"none", "returned", "threw"}]
      /\ \A p \in Calls \ {q} : result'[p] = result[p]
      /\ IF call'[q].pc = "done" THEN result'[q] = "threw" ELSE result'[q] = result[q]
  <2>1. call \in [Calls -> CallType] /\ result \in [Calls -> {"none", "returned", "threw"}]
    BY DEF PoolInv, PoolTyped
  <2>2. CASE Ends(q, "threw") BY <2>1, <2>2 DEF CallType
  <2>3. CASE call' = [call EXCEPT ![q].pc = "waiting", ![q].attempt = 1] /\ UNCHANGED result
    BY <2>1, <2>3 DEF CallType
  <2>4. QED BY <2>2, <2>3 DEF Call, ConnectFails
<1>5. PoolTyped'
  BY <1>1, <1>3, <1>4 DEF PoolInv, PoolTyped
<1>6. Held' /\ HeldOnce'
  BY <1>1, <1>2, <1>3 DEF PoolInv, Held, HeldBy, HeldOnce, PoolTyped
<1>7. OnceOf(q)'
  BY <1>1, <1>3, <1>4 DEF PoolInv, Once, OnceOf, PoolTyped
<1>8. ASSUME NEW p \in Calls \ {q} PROVE OnceOf(p)'
  BY <1>1, <1>3, <1>4, <1>8 DEF PoolInv, Once, OnceOf
<1>9. QED BY <1>5, <1>6, <1>7, <1>8 DEF PoolInv, Once

\* A call gets a client that was nobody's.
LEMMA ConnectedSteps ==
  ASSUME PoolAssumption, PoolInv, NEW q \in Calls, NEW c \in Connections, Connected(q, c)
  PROVE  PoolInv'
<1> DEFINE p == First(call[q].kind)
<1>1. p \in {"statement", "set", "begin"}
  BY DEF First, PoolInv, PoolTyped, CallType
<1>2. /\ call[q].pc = "waiting" /\ holder[c] \notin Calls
      /\ holder' = [holder EXCEPT ![c] = q] /\ call' = [call EXCEPT ![q].pc = p]
      /\ UNCHANGED << inTx, broken, ending, result, committed >>
  BY DEF Connected, At, Goes, PoolAssumption
<1> HIDE DEF p
<1>3. \A d \in Connections : holder[d] # q
  BY <1>2 DEF PoolInv, Held, HeldBy, Outside
<1>4. call' \in [Calls -> CallType] /\ call'[q].pc = p /\ \A r \in Calls \ {q} : call'[r] = call[r]
  BY <1>1, <1>2 DEF PoolInv, PoolTyped, CallType, Stages, Outside
<1>5. PoolTyped'
  BY <1>2, <1>4 DEF PoolInv, PoolTyped
<1>6. Held' /\ HeldOnce'
  BY <1>1, <1>2, <1>3, <1>4 DEF PoolInv, Held, HeldBy, HeldOnce, PoolTyped, Outside
<1>7. OnceOf(q)'
  BY <1>1, <1>2, <1>4 DEF PoolInv, Once, OnceOf
<1>8. ASSUME NEW r \in Calls \ {q} PROVE OnceOf(r)'
  BY <1>2, <1>4, <1>8 DEF PoolInv, Once, OnceOf
<1>9. QED BY <1>5, <1>6, <1>7, <1>8 DEF PoolInv, Once

\* What release makes of the client of a call that has no transaction open.
LEMMA Releases ==
  ASSUME PoolAssumption, PoolInv, NEW c \in Connections, release(c), c \notin inTx
  PROVE  /\ holder' \in [Connections -> Calls \union {"idle", "absent"}] /\ holder'[c] \in {"idle", "absent"}
         /\ inTx' \subseteq Connections /\ broken' \subseteq Connections
         /\ c \notin inTx' /\ c \notin broken'
         /\ \A d \in Connections \ {c} :
              holder'[d] = holder[d] /\ (d \in inTx' <=> d \in inTx) /\ (d \in broken' <=> d \in broken)
  BY DEF release, PoolInv, PoolTyped

\* The call of a step moves on.
Moves(q, stages) ==
    /\ call' \in [Calls -> CallType] /\ call'[q].pc \in stages
    /\ \A p \in Calls \ {q} : call'[p] = call[p]

\* A step that also says whether the failure is one to retry.
LEMMA Marked ==
  ASSUME call \in [Calls -> CallType], NEW q \in Calls, NEW p \in Stages, NEW b \in BOOLEAN,
         call' = [call EXCEPT ![q].pc = p, ![q].retryable = b]
  PROVE  Moves(q, {p}) /\ call'[q].retryable = b
<1>1. call' \in [Calls -> CallType] BY DEF CallType
<1>2. call'[q].pc = p /\ call'[q].retryable = b BY DEF CallType
<1>3. \A r \in Calls \ {q} : call'[r] = call[r] OBVIOUS
<1>4. QED BY <1>1, <1>2, <1>3 DEF Moves

\* Every step of a call that has a client, and the death of its connection.
LEMMA HandSteps ==
  ASSUME PoolAssumption, PoolInv, NEW q \in Calls, NEW c \in Connections, Step(q, c) \/ Breaks(q, c)
  PROVE  PoolInv'
<1> USE DEF At, Goes, Ends, Mine
<1>0. /\ holder[c] = q
      /\ call \in [Calls -> CallType] /\ result \in [Calls -> {"none", "returned", "threw"}]
      /\ committed \in [Calls -> {0, 1}] /\ holder \in [Connections -> Calls \union {"idle", "absent"}]
      /\ inTx \subseteq Connections /\ broken \subseteq Connections /\ ending \in BOOLEAN
      /\ HeldBy(c) /\ OnceOf(q)
  BY DEF Step, adminQuery, query, Lost, Begin, Callback, Commit, Rollback, Again, Breaks, PoolInv, PoolTyped, Held, Once
<1> USE DEF Stages, Outside, MayBeBroken, MayBeInTx
<1>1. CASE adminQuery(q, c)
  <2>0. c \notin inTx /\ committed[q] = 0 /\ UNCHANGED << ending, committed >>
    BY <1>0, <1>1 DEF adminQuery, HeldBy, OnceOf
  <2>1. CASE Goes(q, "statement") /\ UNCHANGED << holder, inTx, broken, result >>
    <3>1. Moves(q, {"statement"}) BY <1>0, <2>1 DEF Moves, CallType
    <3>2. PoolTyped' /\ Others(q, c) BY <1>0, <2>0, <2>1, <3>1 DEF PoolTyped, Others, Moves
    <3>3. HeldBy(c)' BY <1>0, <1>1, <2>0, <2>1, <3>1 DEF HeldBy, Moves, adminQuery
    <3>4. OnceOf(q)' BY <1>0, <1>1, <2>0, <2>1, <3>1 DEF OnceOf, Moves, adminQuery
    <3>5. QED BY <1>0, <2>1, <3>2, <3>3, <3>4, Frame
  <2>2. CASE release(c) /\ Ends(q, "threw")
    <3>1. Moves(q, {"done"}) BY <1>0, <2>2 DEF Moves, CallType
    <3>2. PoolTyped' /\ Others(q, c) BY <1>0, <2>0, <2>2, <3>1, Releases DEF PoolTyped, Others, Moves
    <3>3. HeldBy(c)' BY <2>0, <2>2, Releases DEF HeldBy, PoolAssumption
    <3>4. OnceOf(q)' BY <1>0, <2>0, <2>2, <3>1 DEF OnceOf, Moves
    <3>5. holder'[c] \in {q, "idle", "absent"} BY <2>0, <2>2, Releases
    <3>6. QED BY <1>0, <3>2, <3>3, <3>4, <3>5, Frame
  <2>3. QED BY <1>1, <2>1, <2>2 DEF adminQuery
<1>2. CASE query(q, c) \/ Lost(q, c)
  <2>1. c \notin inTx /\ release(c) /\ UNCHANGED ending
    BY <1>0, <1>2 DEF query, Lost, HeldBy
  <2>2. PICK how \in {"returned", "threw"} : Ends(q, how) /\ (how = "returned" => query(q, c))
    BY <1>2 DEF query, Lost
  <2>3. /\ committed' \in [Calls -> {0, 1}] /\ \A p \in Calls \ {q} : committed'[p] = committed[p]
        /\ how = "returned" => committed'[q] = 1
    BY <1>0, <1>2, <2>2 DEF query, Lost, OnceOf
  <2>4. Moves(q, {"done"}) BY <1>0, <2>2 DEF Moves, CallType
  <2>5. result' \in [Calls -> {"none", "returned", "threw"}] /\ result'[q] = how
        /\ \A p \in Calls \ {q} : result'[p] = result[p]
    BY <1>0, <2>2
  <2>6. PoolTyped' /\ Others(q, c) BY <1>0, <2>1, <2>3, <2>4, <2>5, Releases DEF PoolTyped, Others, Moves
  <2>7. HeldBy(c)' BY <2>1, Releases DEF HeldBy, PoolAssumption
  <2>8. OnceOf(q)' BY <2>3, <2>4, <2>5 DEF OnceOf, Moves
  <2>9. holder'[c] \in {q, "idle", "absent"} BY <2>1, Releases
  <2>10. QED BY <1>0, <2>6, <2>7, <2>8, <2>9, Frame
<1>3. CASE Begin(q, c)
  <2>1. Moves(q, {"callback"}) BY <1>0, <1>3 DEF Begin, Moves, CallType
  <2>2. committed[q] = 0 /\ result[q] = "none" /\ c \notin broken
    BY <1>0, <1>3 DEF Begin, OnceOf, HeldBy
  <2>3. PoolTyped' /\ Others(q, c) BY <1>0, <1>3, <2>1 DEF Begin, PoolTyped, Others, Moves
  <2>4. HeldBy(c)' BY <1>0, <1>3, <2>1, <2>2 DEF Begin, HeldBy, Moves
  <2>5. OnceOf(q)' BY <1>3, <2>1, <2>2 DEF Begin, OnceOf, Moves
  <2>6. QED BY <1>0, <1>3, <2>3, <2>4, <2>5, Frame DEF Begin
<1>4. CASE Callback(q, c)
  <2>1. Moves(q, {"commit", "rollback"})
    <3>1. CASE Goes(q, "commit") BY <1>0, <3>1 DEF Moves, CallType
    <3>2. CASE \E b \in BOOLEAN : call' = [call EXCEPT ![q].pc = "rollback", ![q].retryable = b]
      <4>1. "rollback" \in Stages OBVIOUS
      <4>2. CASE call' = [call EXCEPT ![q].pc = "rollback", ![q].retryable = TRUE]
        <5>1. Moves(q, {"rollback"}) BY <1>0, <4>1, <4>2, Marked
        <5>2. QED BY <5>1 DEF Moves
      <4>3. CASE call' = [call EXCEPT ![q].pc = "rollback", ![q].retryable = FALSE]
        <5>1. Moves(q, {"rollback"}) BY <1>0, <4>1, <4>3, Marked
        <5>2. QED BY <5>1 DEF Moves
      <4>4. QED BY <3>2, <4>2, <4>3
    <3>3. QED BY <1>4, <3>1, <3>2 DEF Callback
  <2>2. committed[q] = 0 /\ result[q] = "none" /\ c \notin broken
    BY <1>0, <1>4 DEF Callback, OnceOf, HeldBy
  <2>3. PoolTyped' /\ Others(q, c) BY <1>0, <1>4, <2>1 DEF Callback, PoolTyped, Others, Moves
  <2>4. HeldBy(c)' BY <1>0, <1>4, <2>1, <2>2 DEF Callback, HeldBy, Moves
  <2>5. OnceOf(q)' BY <1>4, <2>1, <2>2 DEF Callback, OnceOf, Moves
  <2>6. QED BY <1>0, <1>4, <2>3, <2>4, <2>5, Frame DEF Callback
<1>5. CASE Commit(q, c)
  <2>0. c \notin broken /\ committed[q] = 0 /\ result[q] = "none" /\ inTx' = inTx \ {c} /\ UNCHANGED ending
    BY <1>0, <1>5 DEF Commit, HeldBy, OnceOf
  <2>1. CASE /\ Ends(q, "returned") /\ committed' = [committed EXCEPT ![q] = @ + 1]
             /\ holder' = [holder EXCEPT ![c] = IF ending THEN "absent" ELSE "idle"] /\ UNCHANGED broken
    <3>1. Moves(q, {"done"}) BY <1>0, <2>1 DEF Moves, CallType
    <3>2. /\ committed' \in [Calls -> {0, 1}] /\ committed'[q] = 1
          /\ \A p \in Calls \ {q} : committed'[p] = committed[p]
      BY <1>0, <2>0, <2>1
    <3>3. /\ holder' \in [Connections -> Calls \union {"idle", "absent"}] /\ holder'[c] \in {"idle", "absent"}
          /\ \A d \in Connections \ {c} : holder'[d] = holder[d]
      BY <1>0, <2>1
    <3>4. PoolTyped' /\ Others(q, c) BY <1>0, <2>0, <2>1, <3>1, <3>2, <3>3 DEF PoolTyped, Others, Moves
    <3>5. HeldBy(c)' BY <2>0, <2>1, <3>3 DEF HeldBy, PoolAssumption
    <3>6. OnceOf(q)' BY <1>0, <2>1, <3>1, <3>2 DEF OnceOf, Moves
    <3>7. QED BY <1>0, <3>3, <3>4, <3>5, <3>6, Frame
  <2>2. CASE /\ call' = [call EXCEPT ![q].pc = "rollback", ![q].retryable = TRUE]
             /\ UNCHANGED << holder, broken, result, committed >>
    <3>1. Moves(q, {"rollback"})
      <4>1. "rollback" \in Stages OBVIOUS
      <4>2. QED BY <1>0, <2>2, <4>1, Marked
    <3>2. PoolTyped' /\ Others(q, c) BY <1>0, <2>0, <2>2, <3>1 DEF PoolTyped, Others, Moves
    <3>3. HeldBy(c)' BY <1>0, <2>0, <2>2, <3>1 DEF HeldBy, Moves
    <3>4. OnceOf(q)' BY <2>0, <2>2, <3>1 DEF OnceOf, Moves
    <3>5. QED BY <1>0, <2>2, <3>2, <3>3, <3>4, Frame
  <2>3. QED BY <1>5, <2>1, <2>2 DEF Commit
<1>6. CASE Rollback(q, c)
  <2>0. result[q] = "none" /\ inTx' = inTx \ {c} /\ UNCHANGED << ending, committed >>
    BY <1>0, <1>6 DEF Rollback, OnceOf
  <2>1. PICK dead_ \in BOOLEAN :
          IF Retries(q)
          THEN /\ Goes(q, "backoff") /\ broken' = IF dead_ THEN broken \union {c} ELSE broken
               /\ UNCHANGED << holder, result >>
          ELSE /\ Ends(q, "threw") /\ broken' = broken \ {c}
               /\ holder' = [holder EXCEPT ![c] = IF dead_ \/ ending THEN "absent" ELSE "idle"]
    BY <1>6 DEF Rollback
  <2>2. CASE Retries(q)
    <3>1. Moves(q, {"backoff"}) BY <1>0, <2>1, <2>2 DEF Moves, CallType
    <3>2. committed[q] = 0 BY <1>0, <1>6, <2>2 DEF Rollback, Retries, OnceOf
    <3>3. PoolTyped' /\ Others(q, c) BY <1>0, <2>0, <2>1, <2>2, <3>1 DEF PoolTyped, Others, Moves
    <3>4. HeldBy(c)' BY <1>0, <2>0, <2>1, <2>2, <3>1 DEF HeldBy, Moves
    <3>5. OnceOf(q)' BY <2>0, <2>1, <2>2, <3>1, <3>2 DEF OnceOf, Moves
    <3>6. QED BY <1>0, <2>1, <2>2, <3>3, <3>4, <3>5, Frame
  <2>3. CASE ~Retries(q)
    <3>1. Moves(q, {"done"}) BY <1>0, <2>1, <2>3 DEF Moves, CallType
    <3>2. /\ holder' \in [Connections -> Calls \union {"idle", "absent"}] /\ holder'[c] \in {"idle", "absent"}
          /\ \A d \in Connections \ {c} : holder'[d] = holder[d]
      BY <1>0, <2>1, <2>3
    <3>3. PoolTyped' /\ Others(q, c) BY <1>0, <2>0, <2>1, <2>3, <3>1, <3>2 DEF PoolTyped, Others, Moves
    <3>4. HeldBy(c)' BY <2>0, <2>1, <2>3, <3>2 DEF HeldBy, PoolAssumption
    <3>5. OnceOf(q)' BY <1>0, <2>0, <2>1, <2>3, <3>1 DEF OnceOf, Moves
    <3>6. QED BY <1>0, <3>2, <3>3, <3>4, <3>5, Frame
  <2>4. QED BY <2>2, <2>3
<1>7. CASE Again(q, c)
  <2>1. c \notin inTx /\ release(c) /\ UNCHANGED << ending, committed >> /\ committed[q] = 0 /\ result[q] = "none"
    BY <1>0, <1>7 DEF Again, HeldBy, OnceOf
  <2>2. Moves(q, {"done", "waiting"})
    <3>1. CASE Goes(q, "done") BY <1>0, <3>1 DEF Moves, CallType
    <3>2. CASE call' = [call EXCEPT ![q].pc = "waiting", ![q].attempt = NextAttempt(@), ![q].retryable = FALSE]
      BY <1>0, <3>2 DEF Moves, CallType, NextAttempt
    <3>3. QED BY <1>7, <3>1, <3>2 DEF Again
  <2>3. /\ result' \in [Calls -> {"none", "returned", "threw"}] /\ \A p \in Calls \ {q} : result'[p] = result[p]
        /\ IF call'[q].pc = "done" THEN result'[q] = "threw" ELSE result'[q] = "none"
    <3>1. CASE ending BY <1>0, <1>7, <2>2, <3>1 DEF Again, Moves, CallType
    <3>2. CASE ~ending BY <1>0, <1>7, <2>1, <3>2 DEF Again, CallType
    <3>3. QED BY <3>1, <3>2
  <2>4. PoolTyped' /\ Others(q, c) BY <1>0, <2>1, <2>2, <2>3, Releases DEF PoolTyped, Others, Moves
  <2>5. HeldBy(c)' BY <2>1, Releases DEF HeldBy, PoolAssumption
  <2>6. OnceOf(q)' BY <2>1, <2>2, <2>3 DEF OnceOf, Moves
  <2>7. holder'[c] \in {q, "idle", "absent"} BY <2>1, Releases
  <2>8. QED BY <1>0, <2>4, <2>5, <2>6, <2>7, Frame
<1>8. CASE Breaks(q, c)
  <2>1. PICK p \in {"rollback", "lost"} : call' = [call EXCEPT ![q].pc = p, ![q].retryable = FALSE]
    BY <1>8 DEF Breaks
  <2>2. Moves(q, {"rollback", "lost"}) /\ call'[q].retryable = FALSE
    <3>1. p \in Stages OBVIOUS
    <3>2. Moves(q, {p}) /\ call'[q].retryable = FALSE BY <1>0, <2>1, <3>1, Marked
    <3>3. QED BY <3>2 DEF Moves
  <2>3. /\ UNCHANGED << holder, ending, result >> /\ broken' = broken \union {c} /\ inTx' = inTx \ {c}
        /\ call[q].pc \notin Outside
    BY <1>0, <1>8 DEF Breaks, HeldBy
  <2>4. committed' \in [Calls -> {0, 1}] /\ \A r \in Calls \ {q} : committed'[r] = committed[r]
    <3>1. CASE UNCHANGED committed BY <1>0, <3>1
    <3>2. CASE call[q].pc \in {"commit", "statement"} /\ committed' = [committed EXCEPT ![q] = @ + 1]
      BY <1>0, <3>2 DEF OnceOf
    <3>3. QED BY <1>8, <3>1, <3>2 DEF Breaks
  <2>5. PoolTyped' /\ Others(q, c) BY <1>0, <2>2, <2>3, <2>4 DEF PoolTyped, Others, Moves
  <2>6. HeldBy(c)' BY <1>0, <2>2, <2>3 DEF HeldBy, Moves
  <2>7. result[q] = "none" BY <1>0, <2>3 DEF OnceOf
  <2>8. OnceOf(q)' BY <2>2, <2>3, <2>4, <2>7 DEF OnceOf, Moves
  <2>9. QED BY <1>0, <2>3, <2>5, <2>6, <2>8, Frame
<1>9. QED BY <1>1, <1>2, <1>3, <1>4, <1>5, <1>6, <1>7, <1>8 DEF Step

\* The pool drops clients that are nobody's.
LEMMA PoolSteps ==
  ASSUME PoolAssumption, PoolInv, end \/ \E c \in Connections : IdleGoes(c)
  PROVE  PoolInv'
<1> USE DEF PoolAssumption, PoolInv, PoolTyped, Held, HeldBy, HeldOnce, Once, OnceOf
<1>1. CASE end BY <1>1 DEF end
<1>2. ASSUME NEW c \in Connections, IdleGoes(c) PROVE PoolInv' BY <1>2 DEF IdleGoes
<1>3. QED BY <1>1, <1>2

\* The inductive invariant holds in every reachable state.
LEMMA PoolInvariant == ASSUME PoolAssumption PROVE Spec => []PoolInv
<1>1. Init => PoolInv BY PoolStart
<1>2. PoolInv /\ [Next]_vars => PoolInv'
  <2> SUFFICES ASSUME PoolInv, [Next]_vars PROVE PoolInv' OBVIOUS
  <2>1. CASE UNCHANGED vars
    BY <2>1 DEF vars, PoolInv, PoolTyped, Held, HeldBy, HeldOnce, Once, OnceOf
  <2>2. CASE Next
    BY <2>2, CallSteps, ConnectedSteps, HandSteps, PoolSteps DEF Next
  <2>3. QED BY <2>1, <2>2
<1>3. QED BY <1>1, <1>2, PTL DEF Spec

\* A client is in a transaction only in the hands of a call that is in one, and a call returns only with its writes.
LEMMA PoolShown == PoolAssumption /\ PoolInv => ClientsComeBackClean /\ RetryIsSafe
<1> SUFFICES ASSUME PoolAssumption, PoolInv PROVE ClientsComeBackClean /\ RetryIsSafe
  OBVIOUS
<1>1. ClientsComeBackClean
  BY DEF PoolAssumption, PoolInv, PoolTyped, Held, HeldBy, Once, OnceOf, Outside, ClientsComeBackClean
<1>2. RetryIsSafe
  BY DEF PoolInv, PoolTyped, Once, OnceOf, RetryIsSafe
<1>3. QED BY <1>1, <1>2

\* Whatever fails on the way, a client in the pool is in nobody's transaction, and a call that is over holds none.
THEOREM ClientsAreClean == ASSUME PoolAssumption PROVE Spec => []ClientsComeBackClean
<1>1. PoolInv => ClientsComeBackClean BY PoolShown
<1>2. QED BY <1>1, PoolInvariant, PTL

\* Repeating a transaction never applies its writes twice, and a call that returns has applied them.
THEOREM RetriesAreSafe == ASSUME PoolAssumption PROVE Spec => []RetryIsSafe
<1>1. PoolInv => RetryIsSafe BY PoolShown
<1>2. QED BY <1>1, PoolInvariant, PTL

\* A transaction is tried MAX_RETRIES times at most: it backs off only before another try.
AttemptOf(q) == call[q].attempt <= MAX_RETRIES /\ (call[q].pc = "backoff" => call[q].attempt < MAX_RETRIES)
PoolBounded == (\A q \in Calls : AttemptOf(q)) /\ queue \in Seq(Calls)

\* Taking a member out of a sequence leaves a sequence.
LEMMA TakenOut ==
  ASSUME NEW S, NEW s \in Seq(S), NEW i \in 1 .. Len(s)
  PROVE  RemoveAt(s, i) \in Seq(S)
<1>1. SubSeq(s, 1, i-1) \in Seq(S) /\ SubSeq(s, i+1, Len(s)) \in Seq(S)
  OBVIOUS
<1>2. QED BY <1>1 DEF RemoveAt

\* Every step keeps the tries of a call and the queue within their bounds.
LEMMA PoolStaysBounded ==
  ASSUME PoolAssumption, PoolInv, PoolBounded, Next
  PROVE  PoolBounded'
<1>1. call \in [Calls -> CallType] /\ MAX_RETRIES \in Nat \ {0} /\ queue \in Seq(Calls)
  BY DEF PoolAssumption, PoolInv, PoolTyped, PoolBounded
<1>2. ASSUME NEW q \in Calls, NEW to, call' = [call EXCEPT ![q] = to], to.attempt <= MAX_RETRIES,
             to.pc = "backoff" => to.attempt < MAX_RETRIES
      PROVE  \A p \in Calls : AttemptOf(p)'
  BY <1>1, <1>2 DEF PoolBounded, AttemptOf
<1>3. ASSUME NEW q \in Calls, NEW p, Goes(q, p), p = "backoff" => call[q].attempt < MAX_RETRIES
      PROVE  \A r \in Calls : AttemptOf(r)'
  BY <1>1, <1>3 DEF Goes, PoolBounded, AttemptOf, CallType
<1>4. ASSUME NEW q \in Calls, NEW b \in BOOLEAN, call' = [call EXCEPT ![q].pc = "rollback", ![q].retryable = b]
      PROVE  \A r \in Calls : AttemptOf(r)'
  BY <1>1, <1>4 DEF PoolBounded, AttemptOf, CallType
<1>5. ASSUME NEW q \in Calls, Call(q) PROVE PoolBounded'
  <2>1. CASE Ends(q, "threw") /\ UNCHANGED queue BY <1>1, <1>3, <2>1 DEF Ends, PoolBounded
  <2>2. CASE call' = [call EXCEPT ![q].pc = "waiting", ![q].attempt = 1] /\ queue' = Append(queue, q)
    <3>1. \A r \in Calls : AttemptOf(r)' BY <1>1, <2>2 DEF PoolBounded, AttemptOf, CallType
    <3>2. queue' \in Seq(Calls) BY <1>1, <2>2
    <3>3. QED BY <3>1, <3>2 DEF PoolBounded
  <2>3. QED BY <1>5, <2>1, <2>2 DEF Call
<1>6. ASSUME NEW q \in Calls, ConnectFails(q) PROVE PoolBounded'
  <2>1. queue' \in Seq(Calls) BY <1>1, <1>6, TakenOut DEF ConnectFails
  <2>2. QED BY <1>3, <1>6, <2>1 DEF ConnectFails, Ends, PoolBounded
<1>7. ASSUME NEW q \in Calls, NEW c \in Connections, Connected(q, c) PROVE PoolBounded'
  <2>1. queue' \in Seq(Calls) BY <1>1, <1>7 DEF Connected
  <2>2. First(call[q].kind) \in {"statement", "set", "begin"} BY <1>1 DEF First, CallType
  <2>3. Goes(q, First(call[q].kind)) BY <1>7 DEF Connected
  <2>4. QED BY <1>3, <2>1, <2>2, <2>3 DEF PoolBounded
<1>8. ASSUME NEW q \in Calls, NEW c \in Connections, Step(q, c) \/ Breaks(q, c) PROVE PoolBounded'
  <2>1. ASSUME UNCHANGED queue, \A r \in Calls : AttemptOf(r)' PROVE PoolBounded'
    BY <2>1 DEF PoolBounded
  <2>2. CASE adminQuery(q, c) \/ query(q, c) \/ Lost(q, c) \/ Begin(q, c)
    BY <1>3, <2>1, <2>2 DEF adminQuery, query, Lost, Begin, Ends
  <2>3. CASE Callback(q, c) \/ Commit(q, c)
    BY <1>3, <1>4, <2>1, <2>3 DEF Callback, Commit, Ends
  <2>4. CASE Rollback(q, c)
    BY <1>3, <2>1, <2>4 DEF Rollback, Retries, Ends
  <2>5. CASE Again(q, c)
    <3>1. CASE Ends(q, "threw") /\ UNCHANGED queue BY <1>3, <2>1, <3>1 DEF Ends
    <3>2. CASE /\ call' = [call EXCEPT ![q].pc = "waiting", ![q].attempt = NextAttempt(@), ![q].retryable = FALSE]
               /\ queue' = Append(queue, q)
      <4>1. call[q].pc = "backoff" /\ call[q].attempt < MAX_RETRIES
        BY <2>5 DEF Again, At, PoolBounded, AttemptOf
      <4>2. \A r \in Calls : AttemptOf(r)'
        BY <1>1, <3>2, <4>1 DEF PoolBounded, AttemptOf, CallType, NextAttempt
      <4>3. queue' \in Seq(Calls) BY <1>1, <3>2
      <4>4. QED BY <4>2, <4>3 DEF PoolBounded
    <3>3. QED BY <2>5, <3>1, <3>2 DEF Again
  <2>6. CASE Breaks(q, c)
    <3>1. PICK p \in {"rollback", "lost"} : call' = [call EXCEPT ![q].pc = p, ![q].retryable = FALSE]
      BY <2>6 DEF Breaks
    <3>2. \A r \in Calls : AttemptOf(r)'
      BY <1>1, <3>1 DEF PoolBounded, AttemptOf, CallType
    <3>3. QED BY <2>1, <2>6, <3>2 DEF Breaks
  <2>7. QED BY <1>8, <2>2, <2>3, <2>4, <2>5, <2>6 DEF Step
<1>9. CASE end \/ \E c \in Connections : IdleGoes(c)
  BY <1>9 DEF end, IdleGoes, PoolBounded, AttemptOf
<1>10. QED BY <1>5, <1>6, <1>7, <1>8, <1>9 DEF Next

\* What the pool keeps, whoever moves.
LEMMA PoolKeeps == PoolAssumption /\ PoolInv /\ PoolBounded /\ [Next]_vars => PoolInv' /\ PoolBounded'
<1>1. PoolInv /\ PoolBounded /\ UNCHANGED vars => PoolInv' /\ PoolBounded'
  BY DEF vars, PoolInv, PoolTyped, Held, HeldBy, HeldOnce, Once, OnceOf, PoolBounded, AttemptOf
<1>2. QED BY <1>1, PoolStaysBounded, CallSteps, ConnectedSteps, HandSteps, PoolSteps DEF Next

--------------------------------------------------------------------------------
(* The circuit breaker                                                     *)

\* Below its threshold a counter has not moved the circuit yet.
BreakerInv ==
    /\ Cb!TypeOK
    /\ state = "CLOSED" => failureCount < failureThreshold
    /\ state = "HALF_OPEN" => successCount < successThreshold

\* The circuit starts closed, with no failure counted.
LEMMA BreakerStarts == Cb!ThresholdAssumption /\ Cb!Init => BreakerInv
  BY DEF Cb!ThresholdAssumption, Cb!Init, BreakerInv, Cb!TypeOK

\* Every call that begins or ends, every reset and every timeout keeps the counters below their thresholds.
LEMMA BreakerKeeps == Cb!ThresholdAssumption /\ BreakerInv /\ [Cb!Next]_(Cb!vars) => BreakerInv'
<1> SUFFICES ASSUME Cb!ThresholdAssumption, BreakerInv, [Cb!Next]_(Cb!vars) PROVE BreakerInv'
  OBVIOUS
<1>1. /\ failureThreshold \in Nat \ {0} /\ successThreshold \in Nat \ {0}
      /\ state \in {"CLOSED", "OPEN", "HALF_OPEN"} /\ due \in BOOLEAN /\ healthy \in BOOLEAN
      /\ failureCount \in 0..failureThreshold /\ successCount \in 0..successThreshold
      /\ running \in [Callers -> {"no", "succeeds", "fails"}]
  BY DEF Cb!ThresholdAssumption, BreakerInv, Cb!TypeOK
<1> DEFINE Kept == /\ state' \in {"CLOSED", "OPEN", "HALF_OPEN"} /\ due' \in BOOLEAN
                   /\ failureCount' \in 0..failureThreshold /\ successCount' \in 0..successThreshold
                   /\ state' = "CLOSED" => failureCount' < failureThreshold
                   /\ state' = "HALF_OPEN" => successCount' < successThreshold
<1>2. ASSUME Kept, healthy' \in BOOLEAN, running' \in [Callers -> {"no", "succeeds", "fails"}] PROVE BreakerInv'
  BY <1>2 DEF BreakerInv, Cb!TypeOK
<1>3. ASSUME UNCHANGED Cb!counters PROVE Kept
  BY <1>1, <1>3 DEF Cb!counters, BreakerInv
<1>4. ASSUME Cb!Open, failureCount' \in 0..failureThreshold, UNCHANGED successCount PROVE Kept
  <2>1. due' = FALSE BY <1>4 DEF Cb!Open
  <2>2. due' \in BOOLEAN BY ONLY <2>1, Zenon
  <2>3. QED BY <1>1, <1>4, <2>2 DEF Cb!Open
<1> HIDE DEF Kept
<1>5. ASSUME NEW c \in Callers, Cb!execute(c) PROVE BreakerInv'
  <2>1. Cb!HalfOpen /\ UNCHANGED healthy BY <1>5 DEF Cb!execute
  <2>2. Kept
    <3>1. CASE state = "OPEN" BY <1>1, <2>1, <3>1 DEF Cb!HalfOpen, Kept
    <3>2. CASE state # "OPEN" BY <1>3, <2>1, <3>2 DEF Cb!HalfOpen
    <3>3. QED BY <3>1, <3>2
  <2>3. PICK outcome \in {"succeeds", "fails"} : running' = [running EXCEPT ![c] = outcome]
    BY <1>5 DEF Cb!execute
  <2>4. QED BY <1>1, <1>2, <2>1, <2>2, <2>3
<1>6. ASSUME NEW c \in Callers, Cb!_recordSuccess(c) PROVE BreakerInv'
  <2>1. running' \in [Callers -> {"no", "succeeds", "fails"}] /\ healthy' \in BOOLEAN
    BY <1>1, <1>6 DEF Cb!_recordSuccess
  <2>2. CASE state = "HALF_OPEN"
    <3>1. successCount < successThreshold BY <2>2 DEF BreakerInv
    <3>2. /\ successCount' = successCount + 1 /\ UNCHANGED due
          /\ IF successCount' >= successThreshold THEN state' = "CLOSED" /\ failureCount' = 0
                                                  ELSE UNCHANGED << state, failureCount >>
      BY <1>6, <2>2 DEF Cb!_recordSuccess
    <3>3. Kept BY <1>1, <2>2, <3>1, <3>2 DEF Kept
    <3>4. QED BY <1>2, <2>1, <3>3
  <2>3. CASE state = "CLOSED"
    <3>1. failureCount' = 0 /\ UNCHANGED << state, successCount, due >>
      BY <1>6, <2>3 DEF Cb!_recordSuccess
    <3>2. Kept BY <1>1, <2>3, <3>1 DEF Kept
    <3>3. QED BY <1>2, <2>1, <3>2
  <2>4. CASE state = "OPEN"
    BY <1>2, <1>3, <1>6, <2>1, <2>4 DEF Cb!_recordSuccess
  <2>5. QED BY <1>1, <2>2, <2>3, <2>4
<1>7. ASSUME NEW c \in Callers, Cb!_recordFailure(c) PROVE BreakerInv'
  <2>1. running' \in [Callers -> {"no", "succeeds", "fails"}] /\ healthy' \in BOOLEAN
    BY <1>1, <1>7 DEF Cb!_recordFailure
  <2>2. CASE state = "HALF_OPEN"
    <3>1. Cb!Open /\ failureCount' = 0 /\ UNCHANGED successCount
      BY <1>7, <2>2 DEF Cb!_recordFailure
    <3>2. QED BY <1>1, <1>2, <1>4, <2>1, <3>1
  <2>3. CASE state = "CLOSED"
    <3>1. /\ failureCount' = failureCount + 1 /\ UNCHANGED successCount
          /\ IF failureCount' >= failureThreshold THEN Cb!Open ELSE UNCHANGED << state, due >>
      BY <1>7, <2>3 DEF Cb!_recordFailure
    <3>2. failureCount' \in 0..failureThreshold
      BY <1>1, <2>3, <3>1 DEF BreakerInv
    <3>3. CASE failureCount' >= failureThreshold
      BY <1>2, <1>4, <2>1, <3>1, <3>2, <3>3
    <3>4. CASE ~(failureCount' >= failureThreshold)
      <4>1. Kept BY <1>1, <2>3, <3>1, <3>2, <3>4 DEF Kept
      <4>2. QED BY <1>2, <2>1, <4>1
    <3>5. QED BY <3>3, <3>4
  <2>4. CASE state = "OPEN"
    BY <1>2, <1>3, <1>7, <2>1, <2>4 DEF Cb!_recordFailure
  <2>5. QED BY <1>1, <2>2, <2>3, <2>4
<1>8. CASE Cb!reset
  <2>1. state' = "CLOSED" /\ failureCount' = 0 /\ successCount' = 0 /\ due' = TRUE /\ UNCHANGED << running, healthy >>
    BY <1>8 DEF Cb!reset
  <2>2. due' \in BOOLEAN BY ONLY <2>1, Zenon
  <2>3. Kept BY <1>1, <2>1, <2>2 DEF Kept
  <2>4. QED BY <1>1, <1>2, <2>1, <2>3
<1>9. CASE Cb!TimeoutOver
  <2>1. due' = TRUE /\ UNCHANGED << state, failureCount, successCount, running, healthy >>
    BY <1>9 DEF Cb!TimeoutOver
  <2>2. due' \in BOOLEAN BY ONLY <2>1, Zenon
  <2>3. Kept BY <1>1, <2>1, <2>2 DEF Kept, BreakerInv
  <2>4. QED BY <1>1, <1>2, <2>1, <2>3
<1>10. CASE Cb!ApiChanges
  <2>1. healthy' = ~healthy BY <1>10 DEF Cb!ApiChanges
  <2>2. healthy' \in BOOLEAN BY ONLY <2>1, Zenon
  <2>3. QED BY <1>1, <1>2, <1>3, <1>10, <2>2 DEF Cb!ApiChanges
<1>11. CASE UNCHANGED Cb!vars
  BY <1>1, <1>2, <1>3, <1>11 DEF Cb!vars
<1>12. QED BY <1>5, <1>6, <1>7, <1>8, <1>9, <1>10, <1>11 DEF Cb!Next

\* The counters of the circuit never pass their thresholds, however late the results of calls arrive.
THEOREM CountersBounded == Cb!Spec => []Cb!TypeOK
<1>1. Cb!Init => BreakerInv BY BreakerStarts, RuntimeConstants
<1>2. BreakerInv /\ [Cb!Next]_(Cb!vars) => BreakerInv' BY BreakerKeeps, RuntimeConstants
<1>3. BreakerInv => Cb!TypeOK BY DEF BreakerInv
<1>4. QED BY <1>1, <1>2, <1>3, PTL DEF Cb!Spec

--------------------------------------------------------------------------------
(* The LISTEN connection                                                   *)

ListenerTyped ==
    /\ _client \in Clients \union {None}
    /\ _connected \in BOOLEAN /\ _reconnectTimer \in BOOLEAN /\ _stopping \in BOOLEAN
    /\ _debounceTimer \in BOOLEAN /\ unlisten \in BOOLEAN
    /\ getting \in {0, 1} /\ linkFaults \in 0..MaxLinkFaults
    /\ listens \subseteq Clients /\ out \subseteq Clients /\ heard \subseteq Clients /\ dead \subseteq Clients
    /\ events \subseteq ({"error", "end"} \X Clients)

\* The listener has no client but its own, and nobody asks for one while it has; a reconnect is scheduled only when no
\* client is asked for and no LISTEN can still succeed, and an event to come is about a broken connection.
ClientOwned ==
    /\ out \subseteq {_client} /\ wired \subseteq out
    /\ getting = 1 => _client = None
    /\ ~_stopping => listens \subseteq out
    /\ unlisten => _stopping
    /\ _reconnectTimer => ~_stopping /\ getting = 0 /\ listens \subseteq dead
    /\ \A kind \in {"error", "end"}, c \in Clients : << kind, c >> \in events => c \in dead

ListenerInv == ListenerTyped /\ ClientOwned

\* One _connect waits for its client.
LEMMA ListenerStarts == Nl!ListenerAssumption /\ Nl!Init => ListenerInv
<1> SUFFICES ASSUME Nl!ListenerAssumption, Nl!Init PROVE ListenerInv
  OBVIOUS
<1>1. /\ _connected = FALSE /\ _reconnectTimer = FALSE /\ _stopping = FALSE /\ _debounceTimer = FALSE /\ unlisten = FALSE
  BY DEF Nl!Init
<1>2. /\ _connected \in BOOLEAN /\ _reconnectTimer \in BOOLEAN /\ _stopping \in BOOLEAN /\ _debounceTimer \in BOOLEAN
      /\ unlisten \in BOOLEAN
  BY ONLY <1>1, Zenon
<1>3. QED BY <1>1, <1>2 DEF Nl!ListenerAssumption, Nl!Init, ListenerInv, ListenerTyped, ClientOwned

\* Scheduling a reconnect leaves the timer on or, when the listener stops, as it is.
LEMMA TimerSet ==
  ASSUME ListenerInv, Nl!_scheduleReconnect
  PROVE  _reconnectTimer' \in BOOLEAN /\ (_reconnectTimer' => _reconnectTimer \/ ~_stopping)
  BY Zenon DEF Nl!_scheduleReconnect, ListenerInv, ListenerTyped

\* No step gives the listener a second client, or loses the one it has.
LEMMA ListenerKeeps == Nl!ListenerAssumption /\ ListenerInv /\ [Nl!Next]_(Nl!vars) => ListenerInv'
<1> SUFFICES ASSUME Nl!ListenerAssumption, ListenerInv, [Nl!Next]_(Nl!vars) PROVE ListenerInv'
  OBVIOUS
<1>1. ListenerTyped /\ ClientOwned /\ None \notin Clients /\ MaxLinkFaults \in Nat
  BY DEF Nl!ListenerAssumption, ListenerInv
<1>2. Nl!Fault => linkFaults' \in 0..MaxLinkFaults
  BY <1>1 DEF Nl!Fault, ListenerTyped
<1>3. ASSUME Nl!GotClient PROVE ListenerInv'
  <2>1. PICK c \in Clients \ (out \union listens) :
          /\ ~\E kind \in {"error", "end"} : << kind, c >> \in events
          /\ _client' = c /\ out' = out \union {c} /\ wired' = wired \union {c}
          /\ listens' = listens \union {c} /\ dead' = dead \ {c}
    BY <1>3 DEF Nl!GotClient
  <2>2. /\ getting = 1 /\ getting' = 0 /\ _client = None
        /\ UNCHANGED << _connected, _reconnectTimer, _stopping, _debounceTimer, heard, events, unlisten, linkFaults >>
    BY <1>1, <1>3 DEF Nl!GotClient, ListenerTyped, ClientOwned
  <2>3. out = {} /\ ~_reconnectTimer
    BY <1>1, <2>2 DEF ListenerTyped, ClientOwned
  <2>4. ListenerTyped' BY <1>1, <2>1, <2>2 DEF ListenerTyped
  <2>5. ClientOwned' BY <1>1, <2>1, <2>2, <2>3 DEF ClientOwned
  <2>6. QED BY <2>4, <2>5 DEF ListenerInv
<1>4. ASSUME Nl!NoClient PROVE ListenerInv'
  <2>1. /\ getting = 1 /\ getting' = 0 /\ _client = None /\ Nl!_scheduleReconnect /\ Nl!Fault
        /\ UNCHANGED << _client, _connected, _stopping, _debounceTimer, listens, out, wired, heard, dead, events, unlisten >>
    BY <1>1, <1>4 DEF Nl!NoClient, Nl!Link, ListenerTyped, ClientOwned
  <2>2. ListenerTyped' BY <1>1, <1>2, <2>1, TimerSet DEF ListenerTyped
  <2>3. out = {} BY <1>1, <2>1 DEF ListenerTyped, ClientOwned
  <2>4. ClientOwned' BY <1>1, <2>1, <2>3, TimerSet DEF ClientOwned
  <2>5. QED BY <2>2, <2>4 DEF ListenerInv
<1>5. ASSUME NEW c \in Clients, Nl!Listening(c) PROVE ListenerInv'
  <2>1. /\ c \in listens \ dead /\ listens' = listens \ {c} /\ heard' = heard \union {c} /\ _connected' = TRUE
        /\ UNCHANGED << _client, _reconnectTimer, _stopping, _debounceTimer, getting, out, wired, dead, events, unlisten,
                        linkFaults >>
    BY <1>5 DEF Nl!Listening
  <2>2. _connected' \in BOOLEAN BY ONLY <2>1, Zenon
  <2>3. ListenerTyped' BY <1>1, <2>1, <2>2 DEF ListenerTyped
  <2>4. ClientOwned' BY <1>1, <2>1 DEF ClientOwned
  <2>5. QED BY <2>3, <2>4 DEF ListenerInv
<1>6. ASSUME NEW c \in Clients, Nl!ListenFails(c) PROVE ListenerInv'
  <2>1. /\ c \in listens /\ listens' = listens \ {c} /\ Nl!_scheduleReconnect
        /\ UNCHANGED << _client, _connected, _stopping, _debounceTimer, getting, out, wired, heard, dead, events, unlisten >>
    BY <1>6 DEF Nl!ListenFails, Nl!Link
  <2>2. linkFaults' \in 0..MaxLinkFaults BY <1>1, <1>2, <1>6 DEF Nl!ListenFails, ListenerTyped
  <2>3. ListenerTyped' BY <1>1, <2>1, <2>2, TimerSet DEF ListenerTyped
  <2>4. ~_stopping => getting = 0 /\ listens' = {}
    BY <1>1, <2>1 DEF ListenerTyped, ClientOwned
  <2>5. ClientOwned' BY <1>1, <2>1, <2>4, TimerSet DEF ClientOwned
  <2>6. QED BY <2>3, <2>5 DEF ListenerInv
<1>7. ASSUME NEW c \in Clients, Nl!Breaks(c) PROVE ListenerInv'
  <2>1. /\ dead' = dead \union {c} /\ heard' = heard \ {c} /\ Nl!Fault
        /\ events' = events \union {<< "error", c >>, << "end", c >>}
        /\ UNCHANGED << _client, _connected, _reconnectTimer, _stopping, _debounceTimer, getting, listens, out, wired,
                        unlisten >>
    BY <1>7 DEF Nl!Breaks
  <2>2. ListenerTyped' BY <1>1, <1>2, <2>1 DEF ListenerTyped
  <2>3. ClientOwned' BY <1>1, <2>1 DEF ClientOwned
  <2>4. QED BY <2>2, <2>3 DEF ListenerInv
<1>8. ASSUME NEW c \in Clients, Nl!_onError(c) \/ Nl!_onEnd(c) PROVE ListenerInv'
  <2>1. /\ c \in dead /\ events' \subseteq events
        /\ \/ c \in wired /\ _connected' = FALSE /\ Nl!_scheduleReconnect
           \/ UNCHANGED << _connected, _reconnectTimer >>
        /\ UNCHANGED << _client, _stopping, _debounceTimer, getting, listens, out, wired, heard, dead, unlisten,
                        linkFaults >>
    BY <1>1, <1>8 DEF Nl!_onError, Nl!_onEnd, ClientOwned
  <2>2. CASE c \in wired /\ _connected' = FALSE /\ Nl!_scheduleReconnect
    <3>1. _connected' \in BOOLEAN BY ONLY <2>2, Zenon
    <3>2. ListenerTyped' BY <1>1, <2>1, <2>2, <3>1, TimerSet DEF ListenerTyped
    <3>3. _client = c /\ getting = 0 /\ (~_stopping => listens \subseteq dead)
      BY <1>1, <2>1, <2>2 DEF ListenerTyped, ClientOwned
    <3>4. ClientOwned' BY <1>1, <2>1, <2>2, <3>3, TimerSet DEF ClientOwned
    <3>5. QED BY <3>2, <3>4 DEF ListenerInv
  <2>3. CASE UNCHANGED << _connected, _reconnectTimer >>
    <3>1. ListenerTyped' BY <1>1, <2>1, <2>3 DEF ListenerTyped
    <3>2. ClientOwned' BY <1>1, <2>1, <2>3 DEF ClientOwned
    <3>3. QED BY <3>1, <3>2 DEF ListenerInv
  <2>4. QED BY <2>1, <2>2, <2>3
<1>9. /\ out \ {_client} = {} /\ wired \ {_client} = {} /\ (_client = None => out = {} /\ wired = {})
  BY <1>1 DEF ListenerTyped, ClientOwned
<1>10. ASSUME Nl!TimerFires PROVE ListenerInv'
  <2>1. /\ _reconnectTimer /\ ~_stopping /\ getting = 0 /\ listens = {} /\ events = {}
        /\ _reconnectTimer' = FALSE /\ _client' = None /\ getting' = 1
        /\ UNCHANGED << _connected, _stopping, _debounceTimer, listens, unlisten, linkFaults, events >>
    BY <1>1, <1>10 DEF Nl!TimerFires, Nl!Link, ListenerTyped, ClientOwned
  <2>2. out' = {} /\ wired' = {} /\ heard' \subseteq heard /\ dead' = dead
    BY <1>9, <1>10, <2>1 DEF Nl!TimerFires, Nl!Release, Nl!Link
  <2>3. _reconnectTimer' \in BOOLEAN BY ONLY <2>1, Zenon
  <2>4. ListenerTyped' BY <1>1, <2>1, <2>2, <2>3 DEF ListenerTyped
  <2>5. ClientOwned' BY <1>1, <2>1, <2>2 DEF ClientOwned
  <2>6. QED BY <2>4, <2>5 DEF ListenerInv
<1>11. ASSUME Nl!_onNotification \/ Nl!DebounceFires PROVE ListenerInv'
  <2>1. /\ _debounceTimer' = TRUE \/ _debounceTimer' = FALSE
        /\ UNCHANGED << _client, _connected, _reconnectTimer, _stopping, getting, listens, out, wired, heard, dead, events,
                        unlisten, linkFaults >>
    BY <1>11 DEF Nl!_onNotification, Nl!DebounceFires, Nl!Link
  <2>2. _debounceTimer' \in BOOLEAN BY ONLY <2>1, Zenon
  <2>3. ListenerTyped' BY <1>1, <2>1, <2>2 DEF ListenerTyped
  <2>4. ClientOwned' BY <1>1, <2>1 DEF ClientOwned
  <2>5. QED BY <2>3, <2>4 DEF ListenerInv
<1>12. ASSUME Nl!stop PROVE ListenerInv'
  <2>1. /\ _stopping' = TRUE /\ _reconnectTimer' = FALSE /\ unlisten' = (_client # None)
        /\ UNCHANGED << _client, _connected, _debounceTimer, getting, listens, out, wired, heard, dead, events, linkFaults >>
    BY <1>12 DEF Nl!stop, Nl!Link
  <2>2. _stopping' \in BOOLEAN /\ _reconnectTimer' \in BOOLEAN /\ unlisten' \in BOOLEAN
    BY ONLY <2>1, Zenon
  <2>3. ListenerTyped' BY <1>1, <2>1, <2>2 DEF ListenerTyped
  <2>4. ClientOwned' BY <1>1, <2>1 DEF ClientOwned
  <2>5. QED BY <2>3, <2>4 DEF ListenerInv
<1>13. ASSUME Nl!Unlistened PROVE ListenerInv'
  <2>1. /\ unlisten' = FALSE
        /\ UNCHANGED << _client, _connected, _reconnectTimer, _stopping, _debounceTimer, getting, listens, events,
                        linkFaults >>
        /\ \/ UNCHANGED << out, wired, heard, dead >>
           \/ Nl!Release(_client)
    BY <1>13 DEF Nl!Unlistened, Nl!Link
  <2>2. unlisten' \in BOOLEAN BY ONLY <2>1, Zenon
  <2>3. /\ out' \subseteq out /\ wired' \subseteq out' /\ heard' \subseteq heard
        /\ dead \subseteq dead' /\ dead' \subseteq Clients
    BY <1>1, <1>9, <2>1 DEF Nl!Release, ListenerTyped, ClientOwned
  <2>4. _stopping
    BY <1>1, <1>13 DEF Nl!Unlistened, ClientOwned
  <2>5. ListenerTyped' BY <1>1, <2>1, <2>2, <2>3 DEF ListenerTyped
  <2>6. ClientOwned' BY <1>1, <2>1, <2>3, <2>4 DEF ClientOwned
  <2>7. QED BY <2>5, <2>6 DEF ListenerInv
<1>14. CASE UNCHANGED Nl!vars
  BY <1>1, <1>14 DEF Nl!vars, ListenerInv, ListenerTyped, ClientOwned
<1>15. QED BY <1>3, <1>4, <1>5, <1>6, <1>7, <1>8, <1>10, <1>11, <1>12, <1>13, <1>14 DEF Nl!Next

\* The client that is out is the listener's own, and while it is there nobody asks for another.
LEMMA ConnectionShown == ListenerInv => OneConnection
<1> SUFFICES ASSUME ListenerInv PROVE OneConnection
  OBVIOUS
<1>1. Nl!Cardinality(out) = Cardinality(out)
  BY DEF Nl!Cardinality, Cardinality
<1>2. out = {} \/ (out = {_client} /\ getting = 0)
  BY RuntimeConstants DEF ListenerInv, ListenerTyped, ClientOwned, Nl!ListenerAssumption
<1>3. Cardinality(out) + getting <= 1
  <2>1. CASE out = {}
    <3>1. Cardinality(out) = 0 BY <2>1, FS_EmptySet
    <3>2. QED BY <3>1 DEF ListenerInv, ListenerTyped
  <2>2. CASE out = {_client} /\ getting = 0
    <3>1. Cardinality(out) = 1 BY <2>2, FS_Singleton
    <3>2. QED BY <2>2, <3>1
  <2>3. QED BY <1>2, <2>1, <2>2
<1>4. QED BY <1>1, <1>3 DEF OneConnection, Nl!OneConnection, ListenerInv, ClientOwned

\* OneConnection, for any number of clients and faults: at most one client is checked out or asked for, and it is the
\* one that the next reconnect will release.
THEOREM OneConnectionHolds == Nl!Spec => []OneConnection
<1>1. Nl!Init => ListenerInv BY ListenerStarts, RuntimeConstants
<1>2. ListenerInv /\ [Nl!Next]_(Nl!vars) => ListenerInv' BY ListenerKeeps, RuntimeConstants
<1>3. QED BY <1>1, <1>2, ConnectionShown, PTL DEF Nl!Spec

--------------------------------------------------------------------------------
(* The outbox                                                              *)

OutboxTyped ==
    /\ status \in [Events -> Ob!Statuses]
    /\ seq \in [Events -> Nat] /\ next_seq \in Nat
    /\ lease \in [Events -> {"none", "live", "expired"}]
    /\ lease_version \in [Events -> Nat]
    /\ delivery_attempt \in [Events -> 0..MaxAttempts]
    /\ retryDue \in [Events -> BOOLEAN]
    /\ deliveries \subseteq Ob!Delivery
    /\ late \subseteq Events
    /\ outboxFaults \in 0..MaxOutboxFaults

\* An event is fenced from its first claim on, is put off only after a claim, and settles at its last attempt at the
\* latest.
RowOf(e) ==
    /\ status[e] \in {"absent", "open"} => lease_version[e] = 0
    /\ status[e] \in {"processing"} \union Ob!Settled => lease_version[e] > 0
    /\ lease_version[e] = 0 => retryDue[e]
    /\ status[e] \notin Ob!Settled => delivery_attempt[e] < MaxAttempts

\* A relay holds events that are committed: pending ones while its claim is open, fenced ones afterwards.
DeliveryOf(d) ==
    /\ status[d.event] \notin {"absent", "open"}
    /\ d.pc = "claiming" => status[d.event] = "pending"
    /\ d.pc # "claiming" => lease_version[d.event] > 0
    /\ d.pc = "retry" => d.read < MaxAttempts

RowsKept == \A e \in Events : RowOf(e)
DeliveriesKept == \A d \in deliveries : DeliveryOf(d)

\* SKIP LOCKED: the claims that are open have no event in common.
ClaimsApart ==
    \A d, g \in deliveries : d.pc = "claiming" /\ g.pc = "claiming" /\ d.event = g.event => d.relay = g.relay

\* FirstClaimsInOrder counts an event as claimed when its claim commits; what the steps keep counts open claims too.
Taken(f) == lease_version[f] > 0 \/ \E d \in deliveries : d.event = f
InOrder ==
    outboxFaults > 0
    \/ \A e, f \in Events :
           status[e] = "pending" /\ lease_version[e] = 0 /\ Taken(f) /\ seq[e] < seq[f] => e \in late \/ Ob!Locked(e)

OutboxInv == OutboxTyped /\ RowsKept /\ DeliveriesKept /\ ClaimsApart /\ InOrder

\* Before the first event there is nothing to order.
LEMMA OutboxStarts == Ob!OutboxAssumption /\ Ob!Init => OutboxInv
<1> SUFFICES ASSUME Ob!OutboxAssumption, Ob!Init PROVE OutboxInv
  OBVIOUS
<1> USE DEF Ob!OutboxAssumption, Ob!Init
<1>1. retryDue \in [Events -> BOOLEAN] /\ \A e \in Events : retryDue[e]
  <2>1. retryDue = [e \in Events |-> TRUE] /\ TRUE \in BOOLEAN OBVIOUS
  <2>2. QED BY ONLY <2>1, Zenon
<1>2. OutboxTyped BY <1>1 DEF OutboxTyped, Ob!Statuses, Ob!Delivery
<1>3. RowsKept BY <1>1 DEF RowsKept, RowOf, Ob!Settled
<1>4. QED BY <1>2, <1>3 DEF OutboxInv, DeliveriesKept, ClaimsApart, InOrder

\* A step that commits no pending event, claims none and numbers none keeps the order.
LEMMA OrderKept ==
  ASSUME InOrder, UNCHANGED << seq, late, outboxFaults >>,
         \A e \in Events : Taken(e)' => Taken(e),
         \A e \in Events : status'[e] = "pending" /\ lease_version'[e] = 0 =>
                              status[e] = "pending" /\ lease_version[e] = 0 /\ (Ob!Locked(e) => Ob!Locked(e)')
  PROVE  InOrder'
  BY DEF InOrder

\* After a fault the order is off.
LEMMA OrderOff ==
  ASSUME OutboxTyped, Ob!Fault
  PROVE  InOrder' /\ (Ob!OutboxAssumption => outboxFaults' \in 0..MaxOutboxFaults)
  BY DEF Ob!Fault, OutboxTyped, InOrder, Ob!OutboxAssumption

\* One delivery past its claim moves on or ends, and its event may settle or go back to pending.
LEMMA DeliveryMoves ==
  ASSUME OutboxInv, NEW d \in deliveries, d.pc # "claiming", NEW after,
         deliveries' = (deliveries \ {d}) \union after,
         \A g \in after : /\ g.event = d.event /\ g.pc # "claiming"
                          /\ g.pc = "retry" => g.read < MaxAttempts,
         UNCHANGED << seq, lease_version >>,
         \A e \in Events : \/ status'[e] = status[e]
                           \/ status[e] = "processing" /\ status'[e] \in {"pending", "delivered", "dead_letter"},
         InOrder' \/ UNCHANGED << late, outboxFaults >>
  PROVE  DeliveriesKept' /\ ClaimsApart' /\ InOrder'
<1>1. d.event \in Events /\ lease_version[d.event] > 0 /\ \A g \in deliveries : g.event \in Events
  BY DEF OutboxInv, OutboxTyped, DeliveriesKept, DeliveryOf, Ob!Delivery
<1>2. ASSUME NEW g \in deliveries' PROVE DeliveryOf(g)'
  <2>1. CASE g \in after
    <3>1. g.event = d.event /\ g.pc # "claiming" /\ (g.pc = "retry" => g.read < MaxAttempts)
      BY <2>1
    <3>2. status'[d.event] \notin {"absent", "open"} /\ lease_version'[d.event] > 0
      BY <1>1 DEF OutboxInv, DeliveriesKept, DeliveryOf
    <3>3. QED BY <3>1, <3>2 DEF DeliveryOf
  <2>2. CASE g \in deliveries
    <3>1. DeliveryOf(g) BY <2>2 DEF OutboxInv, DeliveriesKept
    <3>2. QED BY <1>1, <2>2, <3>1 DEF DeliveryOf
  <2>3. QED BY <1>2, <2>1, <2>2
<1>3. ClaimsApart'
  BY DEF OutboxInv, ClaimsApart
<1>4. InOrder'
  <2> SUFFICES ASSUME UNCHANGED << late, outboxFaults >> PROVE InOrder'
    OBVIOUS
  <2>1. \A e \in Events : Taken(e)' => Taken(e)
    BY <1>1 DEF Taken
  <2>2. \A e \in Events : Ob!Locked(e) => Ob!Locked(e)'
    BY DEF Ob!Locked
  <2>3. \A e \in Events : status'[e] = "pending" /\ lease_version'[e] = 0 => status[e] = "pending" /\ lease_version[e] = 0
    BY DEF OutboxInv, RowsKept, RowOf, OutboxTyped
  <2>4. QED BY <2>1, <2>2, <2>3, OrderKept DEF OutboxInv
<1>5. QED BY <1>2, <1>3, <1>4 DEF DeliveriesKept

\* What a writer does.
LEMMA WriterKeeps ==
  ASSUME Ob!OutboxAssumption, OutboxInv, NEW e \in Events,
         Ob!writeOutboxEvent(e) \/ Ob!CommitWriter(e) \/ Ob!RollbackWriter(e)
  PROVE  OutboxInv'
<1>1. /\ OutboxTyped /\ RowsKept /\ DeliveriesKept /\ ClaimsApart /\ InOrder
      /\ \A d \in deliveries : d.event \in Events
  BY DEF OutboxInv, OutboxTyped, Ob!Delivery
<1>2. PICK to \in {"absent", "open", "pending"} : status' = [status EXCEPT ![e] = to]
  BY DEF Ob!writeOutboxEvent, Ob!CommitWriter, Ob!RollbackWriter
<1>3. /\ status[e] \in {"absent", "open"}
      /\ UNCHANGED << lease, lease_version, delivery_attempt, retryDue, deliveries >>
  BY DEF Ob!writeOutboxEvent, Ob!CommitWriter, Ob!RollbackWriter, Ob!Writers
<1>4. /\ lease_version[e] = 0 /\ delivery_attempt[e] < MaxAttempts /\ \A d \in deliveries : d.event # e
      /\ ~Taken(e)
  BY <1>1, <1>3 DEF RowsKept, RowOf, Ob!Settled, DeliveriesKept, DeliveryOf, OutboxTyped, Taken
<1>5. status' \in [Events -> Ob!Statuses]
  BY <1>1, <1>2 DEF OutboxTyped, Ob!Statuses
<1>6. RowsKept'
  BY <1>1, <1>2, <1>3, <1>4 DEF RowsKept, RowOf, Ob!Settled, OutboxTyped
<1>7. DeliveriesKept' /\ ClaimsApart'
  BY <1>1, <1>2, <1>3, <1>4 DEF DeliveriesKept, DeliveryOf, ClaimsApart, OutboxTyped
<1>8. \A f \in Events : (Taken(f)' <=> Taken(f)) /\ (Ob!Locked(f)' <=> Ob!Locked(f))
  BY <1>3 DEF Taken, Ob!Locked
<1>9. CASE Ob!writeOutboxEvent(e)
  <2>1. /\ seq' = [seq EXCEPT ![e] = next_seq] /\ next_seq' = next_seq + 1 /\ UNCHANGED << late, outboxFaults >>
        /\ status' = [status EXCEPT ![e] = "open"]
    BY <1>9 DEF Ob!writeOutboxEvent
  <2>2. OutboxTyped' BY <1>1, <1>3, <1>5, <2>1 DEF OutboxTyped
  <2>3. InOrder' BY <1>1, <1>3, <1>4, <1>8, <2>1 DEF InOrder, OutboxTyped
  <2>4. QED BY <1>6, <1>7, <2>2, <2>3 DEF OutboxInv
<1>10. CASE Ob!CommitWriter(e)
  <2>1. /\ status' = [status EXCEPT ![e] = "pending"] /\ UNCHANGED << seq, next_seq, outboxFaults >>
        /\ late' = IF \E f \in Events : seq[f] > seq[e] /\ Taken(f) THEN late \union {e} ELSE late
    BY <1>10 DEF Ob!CommitWriter, Taken
  <2>2. OutboxTyped' BY <1>1, <1>3, <1>5, <2>1 DEF OutboxTyped
  <2>3. late \subseteq late' /\ \A f \in Events : Taken(f) /\ seq[e] < seq[f] => e \in late'
    BY <1>1, <2>1 DEF OutboxTyped
  <2>4. InOrder' BY <1>1, <1>3, <1>8, <2>1, <2>3 DEF InOrder, OutboxTyped
  <2>5. QED BY <1>6, <1>7, <2>2, <2>4 DEF OutboxInv
<1>11. CASE Ob!RollbackWriter(e)
  <2>1. Ob!Fault /\ UNCHANGED << seq, next_seq, late >>
    BY <1>11 DEF Ob!RollbackWriter, Ob!Writers
  <2>2. InOrder' /\ outboxFaults' \in 0..MaxOutboxFaults
    BY <1>1, <2>1, OrderOff
  <2>3. OutboxTyped' BY <1>1, <1>3, <1>5, <2>1, <2>2 DEF OutboxTyped
  <2>4. QED BY <1>6, <1>7, <2>2, <2>3 DEF OutboxInv
<1>12. QED BY <1>9, <1>10, <1>11

\* A claim takes the events that come first among those nobody has locked.
LEMMA ClaimKeeps ==
  ASSUME Ob!OutboxAssumption, OutboxInv, NEW r \in Relays, Ob!claimOutboxBatch(r)
  PROVE  OutboxInv'
<1>1. /\ OutboxTyped /\ RowsKept /\ DeliveriesKept /\ ClaimsApart /\ InOrder
      /\ \A d \in deliveries : d.event \in Events
  BY DEF OutboxInv, OutboxTyped, Ob!Delivery
<1> DEFINE Open(e) == [event |-> e, relay |-> r, version |-> lease_version[e] + 1, read |-> 0, pc |-> "claiming"]
<1>2. PICK b \in SUBSET Events : Ob!Batch(b) /\ deliveries' = deliveries \union {Open(e) : e \in b}
  BY DEF Ob!claimOutboxBatch
<1>3. UNCHANGED << status, lease, lease_version, delivery_attempt, retryDue, seq, next_seq, late, outboxFaults >>
  BY DEF Ob!claimOutboxBatch, Ob!Rows, Ob!Writers
<1>4. /\ \A e \in b : status[e] = "pending" /\ ~Ob!Locked(e)
      /\ \A e \in b, f \in Events \ b : status[f] = "pending" /\ retryDue[f] /\ ~Ob!Locked(f) => seq[e] < seq[f]
  BY <1>2 DEF Ob!Batch, Ob!Claimable
<1>5. ASSUME NEW d \in deliveries' \ deliveries
      PROVE  d.event \in b /\ d.relay = r /\ d.pc = "claiming" /\ d \in Ob!Delivery
  <2>1. PICK e \in b : d = Open(e) BY <1>2, <1>5
  <2>2. lease_version[e] + 1 \in Nat BY <1>1, <2>1 DEF OutboxTyped
  <2>3. QED BY <2>1, <2>2 DEF Ob!Delivery
<1>6. deliveries \subseteq deliveries' /\ \A e \in b : \E d \in deliveries' : d.event = e /\ d.pc = "claiming"
  <2>1. ASSUME NEW e \in b PROVE Open(e) \in deliveries' /\ Open(e).event = e /\ Open(e).pc = "claiming"
    BY <1>2
  <2> HIDE DEF Open
  <2>2. QED BY <1>2, <2>1
<1> HIDE DEF Open
<1>7. OutboxTyped'
  BY <1>1, <1>3, <1>5 DEF OutboxTyped
<1>8. RowsKept'
  BY <1>1, <1>3 DEF RowsKept, RowOf
<1>9. DeliveriesKept'
  BY <1>1, <1>3, <1>4, <1>5 DEF DeliveriesKept, DeliveryOf
<1>10. ClaimsApart'
  BY <1>1, <1>4, <1>5 DEF ClaimsApart, Ob!Locked
<1>11. InOrder'
  <2> SUFFICES ASSUME outboxFaults = 0, NEW e \in Events, NEW f \in Events,
                      status[e] = "pending", lease_version[e] = 0, Taken(f)', seq[e] < seq[f], e \notin late
               PROVE  Ob!Locked(e)'
    BY <1>1, <1>3 DEF InOrder, OutboxTyped
  <2>1. CASE e \in b \/ Ob!Locked(e)
    BY <1>6, <2>1 DEF Ob!Locked
  <2>2. CASE e \notin b /\ ~Ob!Locked(e)
    <3>1. ~Taken(f) BY <1>1, <2>2 DEF InOrder
    <3>2. f \in b BY <1>3, <1>5, <3>1 DEF Taken
    <3>3. retryDue[e] BY <1>1 DEF RowsKept, RowOf
    <3>4. seq[f] < seq[e] BY <1>4, <2>2, <3>2, <3>3
    <3>5. QED BY <1>1, <3>4 DEF OutboxTyped
  <2>3. QED BY <2>1, <2>2
<1>12. QED BY <1>7, <1>8, <1>9, <1>10, <1>11 DEF OutboxInv

\* A claim that takes effect fences its events; no other claim has them.
LEMMA LeasedKeeps ==
  ASSUME OutboxInv, NEW r \in Relays, Ob!Leased(Ob!ClaimOf(r)), UNCHANGED << seq, next_seq, late >>
  PROVE  /\ status' \in [Events -> Ob!Statuses] /\ lease' \in [Events -> {"none", "live", "expired"}]
         /\ lease_version' \in [Events -> Nat] /\ UNCHANGED << delivery_attempt, retryDue >>
         /\ RowsKept' /\ \A d \in deliveries \ Ob!ClaimOf(r) : DeliveryOf(d)'
         /\ \A d \in Ob!ClaimOf(r) : status'[d.event] = "processing" /\ lease_version'[d.event] > 0
         /\ \A e \in Events : status'[e] = "pending" /\ lease_version'[e] = 0 =>
                               /\ status[e] = "pending" /\ lease_version[e] = 0
                               /\ \A d \in Ob!ClaimOf(r) : d.event # e
         /\ \A e \in Events : lease_version'[e] > 0 => lease_version[e] > 0 \/ \E d \in Ob!ClaimOf(r) : d.event = e
<1>1. /\ OutboxTyped /\ RowsKept /\ DeliveriesKept /\ ClaimsApart
      /\ \A d \in deliveries : d.event \in Events
  BY DEF OutboxInv, OutboxTyped, Ob!Delivery
<1> DEFINE taken == {d.event : d \in Ob!ClaimOf(r)}
<1>2. /\ status' = [e \in Events |-> IF e \in taken THEN "processing" ELSE status[e]]
      /\ lease' = [e \in Events |-> IF e \in taken THEN "live" ELSE lease[e]]
      /\ lease_version' = [e \in Events |-> IF e \in taken THEN lease_version[e] + 1 ELSE lease_version[e]]
      /\ UNCHANGED << delivery_attempt, retryDue >>
  BY DEF Ob!Leased
<1>3. /\ taken \subseteq Events /\ \A d \in Ob!ClaimOf(r) : d.event \in taken
      /\ \A e \in taken : status[e] = "pending" /\ \E d \in Ob!ClaimOf(r) : d.event = e
  BY <1>1 DEF Ob!ClaimOf, DeliveriesKept, DeliveryOf
<1>4. ASSUME NEW d \in deliveries \ Ob!ClaimOf(r), d.pc = "claiming" PROVE d.event \notin taken
  BY <1>1, <1>3, <1>4 DEF Ob!ClaimOf, ClaimsApart
<1> HIDE DEF taken
<1>5. /\ status' \in [Events -> Ob!Statuses] /\ lease' \in [Events -> {"none", "live", "expired"}]
      /\ lease_version' \in [Events -> Nat]
  BY <1>1, <1>2 DEF OutboxTyped, Ob!Statuses
<1>6. RowsKept'
  BY <1>1, <1>2, <1>3 DEF RowsKept, RowOf, OutboxTyped, Ob!Settled
<1>7. ASSUME NEW d \in deliveries \ Ob!ClaimOf(r) PROVE DeliveryOf(d)'
  <2>1. DeliveryOf(d) /\ d.event \in Events BY <1>1 DEF DeliveriesKept
  <2>2. QED BY <1>1, <1>2, <1>3, <1>4, <2>1 DEF DeliveryOf, OutboxTyped
<1>8. QED BY <1>1, <1>2, <1>3, <1>5, <1>6, <1>7 DEF OutboxTyped

\* The claim commits, fails, or takes effect without its relay learning it.
LEMMA ClaimEnds ==
  ASSUME Ob!OutboxAssumption, OutboxInv, NEW r \in Relays, Ob!ClaimCommits(r) \/ Ob!ClaimThrows(r)
  PROVE  OutboxInv'
<1>1. /\ OutboxTyped /\ RowsKept /\ DeliveriesKept /\ ClaimsApart /\ InOrder
      /\ \A d \in deliveries : d.event \in Events
      /\ UNCHANGED << seq, next_seq, late >>
  BY DEF OutboxInv, OutboxTyped, Ob!Delivery, Ob!ClaimCommits, Ob!ClaimThrows, Ob!Writers
<1>2. CASE Ob!ClaimCommits(r)
  <2>1. /\ Ob!Leased(Ob!ClaimOf(r)) /\ outboxFaults' = outboxFaults
        /\ deliveries' = (deliveries \ Ob!ClaimOf(r)) \union {[d EXCEPT !.pc = "publish"] : d \in Ob!ClaimOf(r)}
    BY <1>2 DEF Ob!ClaimCommits
  <2>2. ASSUME NEW d \in deliveries' \ (deliveries \ Ob!ClaimOf(r))
        PROVE  d \in Ob!Delivery /\ d.pc = "publish" /\ \E g \in Ob!ClaimOf(r) : d.event = g.event
    <3>1. PICK g \in Ob!ClaimOf(r) : d = [g EXCEPT !.pc = "publish"] BY <2>1, <2>2
    <3>2. g \in Ob!Delivery BY <1>1 DEF Ob!ClaimOf, OutboxTyped
    <3>3. QED BY <3>1, <3>2 DEF Ob!Delivery
  <2>3. OutboxTyped'
    BY <1>1, <2>1, <2>2, LeasedKeeps DEF OutboxTyped
  <2>4. ASSUME NEW d \in deliveries' PROVE DeliveryOf(d)'
    <3>1. CASE d \in deliveries \ Ob!ClaimOf(r) BY <1>1, <2>1, <3>1, LeasedKeeps
    <3>2. CASE d \notin deliveries \ Ob!ClaimOf(r)
      <4>1. PICK g \in Ob!ClaimOf(r) : d.event = g.event BY <2>2, <2>4, <3>2
      <4>2. status'[d.event] = "processing" /\ lease_version'[d.event] > 0
        BY <1>1, <2>1, <4>1, LeasedKeeps
      <4>3. d.pc = "publish" BY <2>2, <2>4, <3>2
      <4>4. QED BY <4>2, <4>3 DEF DeliveryOf
    <3>3. QED BY <3>1, <3>2
  <2>5. ClaimsApart'
    BY <1>1, <2>2 DEF ClaimsApart
  <2>6. InOrder'
    <3>1. ASSUME NEW e \in Events, Taken(e)' PROVE Taken(e)
      <4>1. CASE lease_version'[e] > 0 BY <1>1, <2>1, <4>1, LeasedKeeps DEF Taken, Ob!ClaimOf
      <4>2. CASE \E d \in deliveries' : d.event = e BY <2>2, <4>2 DEF Taken, Ob!ClaimOf
      <4>3. QED BY <3>1, <4>1, <4>2 DEF Taken
    <3>2. ASSUME NEW e \in Events, status'[e] = "pending", lease_version'[e] = 0
          PROVE  status[e] = "pending" /\ lease_version[e] = 0 /\ (Ob!Locked(e) => Ob!Locked(e)')
      <4>1. status[e] = "pending" /\ lease_version[e] = 0 /\ \A d \in Ob!ClaimOf(r) : d.event # e
        BY <1>1, <2>1, <3>2, LeasedKeeps
      <4>2. QED BY <2>1, <4>1 DEF Ob!Locked
    <3>3. QED BY <1>1, <2>1, <3>1, <3>2, OrderKept
  <2>7. RowsKept' BY <1>1, <2>1, LeasedKeeps
  <2>8. QED BY <2>3, <2>4, <2>5, <2>6, <2>7 DEF OutboxInv, DeliveriesKept
<1>3. CASE Ob!ClaimThrows(r)
  <2>1. /\ Ob!Fault /\ deliveries' = deliveries \ Ob!ClaimOf(r)
        /\ \/ UNCHANGED << status, lease, lease_version, delivery_attempt, retryDue >>
           \/ Ob!Leased(Ob!ClaimOf(r))
    BY <1>3 DEF Ob!ClaimThrows, Ob!Rows
  <2>2. InOrder' /\ outboxFaults' \in 0..MaxOutboxFaults
    BY <1>1, <2>1, OrderOff
  <2>3. ClaimsApart' BY <1>1, <2>1 DEF ClaimsApart
  <2>4. CASE UNCHANGED << status, lease, lease_version, delivery_attempt, retryDue >>
    <3>1. OutboxTyped' BY <1>1, <2>1, <2>2, <2>4 DEF OutboxTyped
    <3>2. RowsKept' BY <1>1, <2>4 DEF RowsKept, RowOf
    <3>3. DeliveriesKept' BY <1>1, <2>1, <2>4 DEF DeliveriesKept, DeliveryOf
    <3>4. QED BY <2>2, <2>3, <3>1, <3>2, <3>3 DEF OutboxInv
  <2>5. CASE Ob!Leased(Ob!ClaimOf(r))
    <3>1. OutboxTyped' BY <1>1, <2>1, <2>2, <2>5, LeasedKeeps DEF OutboxTyped
    <3>2. RowsKept' /\ DeliveriesKept' BY <1>1, <2>1, <2>5, LeasedKeeps DEF DeliveriesKept
    <3>3. QED BY <2>2, <2>3, <3>1, <3>2 DEF OutboxInv
  <2>6. QED BY <2>1, <2>4, <2>5
<1>4. QED BY <1>2, <1>3

\* What a relay records of a delivery, also when the statement throws.
LEMMA RecordKeeps ==
  ASSUME Ob!OutboxAssumption, OutboxInv, NEW d \in deliveries, Ob!Record(d) \/ Ob!RecordThrows(d)
  PROVE  OutboxInv'
<1>1. /\ OutboxTyped /\ RowsKept /\ DeliveriesKept /\ ClaimsApart /\ InOrder
      /\ d \in Ob!Delivery /\ d.event \in Events /\ DeliveryOf(d)
  BY DEF OutboxInv, OutboxTyped, DeliveriesKept, Ob!Delivery
<1>2. d.pc # "claiming" /\ UNCHANGED << seq, next_seq, late >>
  BY DEF Ob!Record, Ob!RecordThrows, Ob!Publish, Ob!commitOutboxSuccess, Ob!ReadAttempt, Ob!commitOutboxFailure, Ob!Writers
<1>3. ASSUME UNCHANGED << status, lease, lease_version, delivery_attempt, retryDue >>
      PROVE  RowsKept'
  BY <1>1, <1>3 DEF RowsKept, RowOf
<1>4. ASSUME NEW pc_ \in {"success", "failure", "retry"}, NEW n \in 0..MaxAttempts, pc_ = "retry" => n < MaxAttempts,
             Ob!Moves(d, pc_, n), UNCHANGED << status, lease, lease_version, delivery_attempt, retryDue, outboxFaults >>
      PROVE  OutboxInv'
  <2> DEFINE after == {[d EXCEPT !.pc = pc_, !.read = n]}
  <2>1. n \in Nat /\ pc_ \in {"claiming", "publish", "success", "failure", "retry"}
    BY DEF Ob!OutboxAssumption
  <2>2. \A g \in after : /\ g \in Ob!Delivery /\ g.event = d.event /\ g.pc # "claiming"
                         /\ g.pc = "retry" => g.read < MaxAttempts
    BY <1>1, <1>4, <2>1 DEF Ob!Delivery
  <2>3. deliveries' = (deliveries \ {d}) \union after BY <1>4 DEF Ob!Moves
  <2> HIDE DEF after
  <2>4. OutboxTyped' BY <1>1, <1>2, <1>4, <2>2, <2>3 DEF OutboxTyped
  <2>5. DeliveriesKept' /\ ClaimsApart' /\ InOrder'
    BY <1>2, <1>4, <2>2, <2>3, DeliveryMoves
  <2>6. QED BY <1>3, <1>4, <2>4, <2>5 DEF OutboxInv
<1>5. ASSUME Ob!Ends(d), UNCHANGED << status, lease, lease_version, delivery_attempt, retryDue >>,
             UNCHANGED outboxFaults \/ Ob!Fault
      PROVE  OutboxInv'
  <2> DEFINE after == {}
  <2>1. deliveries' = (deliveries \ {d}) \union after /\ after = {} BY <1>5 DEF Ob!Ends
  <2> HIDE DEF after
  <2>2. (InOrder' \/ UNCHANGED << late, outboxFaults >>) /\ outboxFaults' \in 0..MaxOutboxFaults
    BY <1>1, <1>2, <1>5, OrderOff DEF OutboxTyped
  <2>3. OutboxTyped' BY <1>1, <1>2, <1>5, <2>1, <2>2 DEF OutboxTyped
  <2>4. DeliveriesKept' /\ ClaimsApart' /\ InOrder'
    BY <1>2, <1>5, <2>1, <2>2, DeliveryMoves
  <2>5. QED BY <1>3, <1>5, <2>3, <2>4 DEF OutboxInv
<1>6. ASSUME NEW to \in {"pending", "delivered", "dead_letter"}, NEW n \in 0..MaxAttempts, NEW b \in BOOLEAN,
             Ob!Ends(d), Ob!Fenced(d), to = "pending" => n < MaxAttempts,
             status' = [status EXCEPT ![d.event] = to],
             lease' = [lease EXCEPT ![d.event] = "none"],
             delivery_attempt' = [delivery_attempt EXCEPT ![d.event] = n],
             retryDue' = [retryDue EXCEPT ![d.event] = b], UNCHANGED << lease_version, outboxFaults >>
      PROVE  OutboxInv'
  <2> DEFINE after == {}
  <2>1. deliveries' = (deliveries \ {d}) \union after /\ after = {} BY <1>6 DEF Ob!Ends
  <2> HIDE DEF after
  <2>2. status[d.event] = "processing" /\ lease_version[d.event] > 0
    BY <1>1, <1>6 DEF Ob!Fenced, RowsKept, RowOf
  <2>3. OutboxTyped' BY <1>1, <1>2, <1>6, <2>1 DEF OutboxTyped, Ob!Statuses
  <2>4. ASSUME NEW e \in Events PROVE RowOf(e)'
    <3>1. CASE e = d.event BY <1>1, <1>6, <2>2, <3>1 DEF RowOf, OutboxTyped, Ob!Settled
    <3>2. CASE e # d.event BY <1>1, <1>6, <3>2 DEF RowsKept, RowOf, OutboxTyped
    <3>3. QED BY <3>1, <3>2
  <2>5. \A e \in Events : \/ status'[e] = status[e]
                          \/ status[e] = "processing" /\ status'[e] \in {"pending", "delivered", "dead_letter"}
    BY <1>1, <1>6, <2>2 DEF OutboxTyped
  <2>6. DeliveriesKept' /\ ClaimsApart' /\ InOrder'
    BY <1>2, <1>6, <2>1, <2>5, DeliveryMoves
  <2>7. QED BY <2>3, <2>4, <2>6 DEF OutboxInv, RowsKept
<1>7. CASE Ob!Publish(d)
  <2>1. 0 \in 0..MaxAttempts BY DEF Ob!OutboxAssumption
  <2>2. QED BY <1>4, <1>7, <2>1 DEF Ob!Publish, Ob!Rows
<1>8. CASE Ob!commitOutboxSuccess(d)
  <2>1. CASE Ob!Fenced(d)
    <3>1. /\ delivery_attempt' = [delivery_attempt EXCEPT ![d.event] = delivery_attempt[d.event]]
          /\ retryDue' = [retryDue EXCEPT ![d.event] = retryDue[d.event]]
          /\ delivery_attempt[d.event] \in 0..MaxAttempts /\ retryDue[d.event] \in BOOLEAN
      BY <1>1, <1>8, <2>1 DEF Ob!commitOutboxSuccess, OutboxTyped
    <3>2. QED BY <1>6, <1>8, <2>1, <3>1 DEF Ob!commitOutboxSuccess
  <2>2. CASE ~Ob!Fenced(d)
    BY <1>5, <1>8, <2>2 DEF Ob!commitOutboxSuccess, Ob!Rows
  <2>3. QED BY <2>1, <2>2
<1>9. CASE Ob!ReadAttempt(d)
  <2>1. CASE Ob!Fenced(d)
    <3>1. delivery_attempt[d.event] \in 0..MaxAttempts /\ delivery_attempt[d.event] < MaxAttempts
      BY <1>1, <2>1 DEF Ob!Fenced, OutboxTyped, RowsKept, RowOf, Ob!Settled
    <3>2. QED BY <1>4, <1>9, <2>1, <3>1 DEF Ob!ReadAttempt, Ob!Rows
  <2>2. CASE ~Ob!Fenced(d)
    BY <1>5, <1>9, <2>2 DEF Ob!ReadAttempt, Ob!Rows
  <2>3. QED BY <2>1, <2>2
<1>10. CASE Ob!commitOutboxFailure(d)
  <2>1. CASE Ob!Fenced(d)
    <3>1. d.read + 1 \in 0..MaxAttempts
      BY <1>1, <1>10 DEF Ob!commitOutboxFailure, DeliveryOf, Ob!Delivery, Ob!OutboxAssumption
    <3>2. PICK forced \in BOOLEAN :
            IF d.read + 1 >= MaxAttempts \/ forced
            THEN status' = [status EXCEPT ![d.event] = "dead_letter"] /\ UNCHANGED retryDue
            ELSE status' = [status EXCEPT ![d.event] = "pending"] /\ retryDue' = [retryDue EXCEPT ![d.event] = FALSE]
      BY <1>10, <2>1 DEF Ob!commitOutboxFailure
    <3>3. /\ Ob!Ends(d) /\ lease' = [lease EXCEPT ![d.event] = "none"]
          /\ delivery_attempt' = [delivery_attempt EXCEPT ![d.event] = d.read + 1]
          /\ UNCHANGED << lease_version, outboxFaults >>
      BY <1>10, <2>1 DEF Ob!commitOutboxFailure
    <3>4. CASE d.read + 1 >= MaxAttempts \/ forced
      <4>1. retryDue' = [retryDue EXCEPT ![d.event] = retryDue[d.event]] /\ retryDue[d.event] \in BOOLEAN
        BY <1>1, <3>2, <3>4 DEF OutboxTyped
      <4>2. QED BY <1>6, <2>1, <3>1, <3>2, <3>3, <3>4, <4>1
    <3>5. CASE ~(d.read + 1 >= MaxAttempts \/ forced)
      <4>1. d.read + 1 < MaxAttempts BY <3>1, <3>5 DEF Ob!OutboxAssumption
      <4>2. QED BY <1>6, <2>1, <3>1, <3>2, <3>3, <3>5, <4>1
    <3>6. QED BY <3>4, <3>5
  <2>2. CASE ~Ob!Fenced(d)
    BY <1>5, <1>10, <2>2 DEF Ob!commitOutboxFailure, Ob!Rows
  <2>3. QED BY <2>1, <2>2
<1>11. CASE Ob!RecordThrows(d)
  BY <1>5, <1>11 DEF Ob!RecordThrows, Ob!Rows
<1>12. QED BY <1>7, <1>8, <1>9, <1>10, <1>11 DEF Ob!Record

\* A relay crashes, a lease runs out, a retry falls due, and recovery takes back what nobody renewed.
LEMMA RecoveryKeeps ==
  ASSUME Ob!OutboxAssumption, OutboxInv,
         \/ \E r \in Relays : Ob!CrashRelay(r)
         \/ \E e \in Events : Ob!LeaseExpires(e) \/ Ob!RetryDue(e)
         \/ Ob!reclaimExpiredOutboxLeases
  PROVE  OutboxInv'
<1>1. /\ OutboxTyped /\ RowsKept /\ DeliveriesKept /\ ClaimsApart /\ InOrder
      /\ \A d \in deliveries : d.event \in Events
  BY DEF OutboxInv, OutboxTyped, Ob!Delivery
<1>2. ASSUME NEW r \in Relays, Ob!CrashRelay(r) PROVE OutboxInv'
  <2>1. /\ Ob!Fault /\ deliveries' \subseteq deliveries
        /\ UNCHANGED << status, lease, lease_version, delivery_attempt, retryDue, seq, next_seq, late >>
    BY <1>2 DEF Ob!CrashRelay, Ob!Rows, Ob!Writers
  <2>2. InOrder' /\ outboxFaults' \in 0..MaxOutboxFaults BY <1>1, <2>1, OrderOff
  <2>3. OutboxTyped' BY <1>1, <2>1, <2>2 DEF OutboxTyped
  <2>4. RowsKept' BY <1>1, <2>1 DEF RowsKept, RowOf
  <2>5. DeliveriesKept' /\ ClaimsApart' BY <1>1, <2>1 DEF DeliveriesKept, DeliveryOf, ClaimsApart
  <2>6. QED BY <2>2, <2>3, <2>4, <2>5 DEF OutboxInv
<1>3. ASSUME NEW e \in Events, Ob!LeaseExpires(e) PROVE OutboxInv'
  <2>1. /\ Ob!Fault \/ UNCHANGED outboxFaults
        /\ lease' = [lease EXCEPT ![e] = "expired"]
        /\ UNCHANGED << status, lease_version, delivery_attempt, retryDue, deliveries, seq, next_seq, late >>
    BY <1>3 DEF Ob!LeaseExpires, Ob!Writers
  <2>2. outboxFaults' \in 0..MaxOutboxFaults BY <1>1, <2>1, OrderOff DEF OutboxTyped
  <2>3. OutboxTyped' BY <1>1, <2>1, <2>2 DEF OutboxTyped
  <2>4. InOrder'
    <3>1. CASE Ob!Fault BY <1>1, <3>1, OrderOff
    <3>2. CASE UNCHANGED outboxFaults BY <1>1, <2>1, <3>2 DEF InOrder, Taken, Ob!Locked
    <3>3. QED BY <2>1, <3>1, <3>2
  <2>5. RowsKept' BY <1>1, <2>1 DEF RowsKept, RowOf
  <2>6. DeliveriesKept' /\ ClaimsApart' BY <1>1, <2>1 DEF DeliveriesKept, DeliveryOf, ClaimsApart
  <2>7. QED BY <2>3, <2>4, <2>5, <2>6 DEF OutboxInv
<1>4. ASSUME NEW e \in Events, Ob!RetryDue(e) PROVE OutboxInv'
  <2>1. /\ retryDue' = [retryDue EXCEPT ![e] = TRUE]
        /\ UNCHANGED << status, lease, lease_version, delivery_attempt, deliveries, seq, next_seq, late, outboxFaults >>
    BY <1>4 DEF Ob!RetryDue, Ob!Writers
  <2>2. retryDue' \in [Events -> BOOLEAN] /\ \A f \in Events : retryDue[f] => retryDue'[f]
    BY <1>1, <2>1 DEF OutboxTyped
  <2>3. OutboxTyped' BY <1>1, <2>1, <2>2 DEF OutboxTyped
  <2>4. RowsKept' BY <1>1, <2>1, <2>2 DEF RowsKept, RowOf
  <2>5. InOrder' BY <1>1, <2>1 DEF InOrder, Taken, Ob!Locked
  <2>6. DeliveriesKept' /\ ClaimsApart' BY <1>1, <2>1 DEF DeliveriesKept, DeliveryOf, ClaimsApart
  <2>7. QED BY <2>3, <2>4, <2>5, <2>6 DEF OutboxInv
<1>5. CASE Ob!reclaimExpiredOutboxLeases
  <2>1. /\ status' = [e \in Events |-> IF e \in Ob!Reclaimed THEN "pending" ELSE status[e]]
        /\ lease' = [e \in Events |-> IF e \in Ob!Reclaimed THEN "none" ELSE lease[e]]
        /\ lease_version' = [e \in Events |-> IF e \in Ob!Reclaimed THEN lease_version[e] + 1 ELSE lease_version[e]]
        /\ UNCHANGED << delivery_attempt, retryDue, deliveries, seq, next_seq, late, outboxFaults >>
    BY <1>5 DEF Ob!reclaimExpiredOutboxLeases, Ob!Writers
  <2>2. \A e \in Ob!Reclaimed : e \in Events /\ status[e] = "processing" /\ lease_version[e] > 0
    BY <1>1 DEF Ob!Reclaimed, Ob!Reclaimable, RowsKept, RowOf
  <2>3. OutboxTyped' BY <1>1, <2>1 DEF OutboxTyped, Ob!Statuses
  <2>4. RowsKept' BY <1>1, <2>1, <2>2 DEF RowsKept, RowOf, OutboxTyped, Ob!Settled
  <2>5. ASSUME NEW d \in deliveries PROVE DeliveryOf(d)'
    <3>1. DeliveryOf(d) /\ d.event \in Events BY <1>1 DEF DeliveriesKept
    <3>2. QED BY <1>1, <2>1, <2>2, <3>1 DEF DeliveryOf, OutboxTyped
  <2>6. DeliveriesKept' /\ ClaimsApart' BY <1>1, <2>1, <2>5 DEF DeliveriesKept, ClaimsApart
  <2>7. InOrder'
    <3>1. \A e \in Events : Taken(e)' => Taken(e) BY <1>1, <2>1, <2>2 DEF Taken, OutboxTyped
    <3>2. \A e \in Events : status'[e] = "pending" /\ lease_version'[e] = 0 =>
                            status[e] = "pending" /\ lease_version[e] = 0 /\ (Ob!Locked(e) => Ob!Locked(e)')
      BY <1>1, <2>1, <2>2 DEF Ob!Locked, OutboxTyped
    <3>3. QED BY <1>1, <2>1, <3>1, <3>2, OrderKept
  <2>8. QED BY <2>3, <2>4, <2>6, <2>7 DEF OutboxInv
<1>6. QED BY <1>2, <1>3, <1>4, <1>5

\* What the outbox keeps, whoever moves.
LEMMA OutboxKeeps == Ob!OutboxAssumption /\ OutboxInv /\ [Ob!Next]_(Ob!vars) => OutboxInv'
<1> SUFFICES ASSUME Ob!OutboxAssumption, OutboxInv, [Ob!Next]_(Ob!vars) PROVE OutboxInv'
  OBVIOUS
<1>1. CASE UNCHANGED Ob!vars
  <2>1. UNCHANGED << status, seq, next_seq, lease, lease_version, delivery_attempt, retryDue, deliveries, late, outboxFaults >>
    BY <1>1 DEF Ob!vars
  <2>2. OutboxTyped' BY <2>1 DEF OutboxInv, OutboxTyped
  <2>3. RowsKept' /\ DeliveriesKept' /\ ClaimsApart'
    BY <2>1 DEF OutboxInv, RowsKept, RowOf, DeliveriesKept, DeliveryOf, ClaimsApart
  <2>4. InOrder' BY <2>1 DEF OutboxInv, InOrder, Taken, Ob!Locked
  <2>5. QED BY <2>2, <2>3, <2>4 DEF OutboxInv
<1>2. CASE Ob!Next
  BY <1>2, WriterKeeps, ClaimKeeps, ClaimEnds, RecordKeeps, RecoveryKeeps DEF Ob!Next, Ob!Relay
<1>3. QED BY <1>1, <1>2

\* An event whose claim has committed counts among those that are taken.
LEMMA OrderShown == OutboxInv => FirstClaimsInOrder
  BY DEF OutboxInv, OutboxTyped, InOrder, Taken, FirstClaimsInOrder, Ob!FirstClaimsInOrder

\* FirstClaimsInOrder, for any number of events, relays and attempts, and any size of a batch: until something goes wrong,
\* an event that was never claimed waits behind a later one only if its writer was late or its own claim is under way.
THEOREM ClaimsGoInOrder == Ob!Spec => []FirstClaimsInOrder
<1>1. Ob!Init => OutboxInv BY OutboxStarts, RuntimeConstants
<1>2. OutboxInv /\ [Ob!Next]_(Ob!vars) => OutboxInv' BY OutboxKeeps, RuntimeConstants
<1>3. QED BY <1>1, <1>2, OrderShown, PTL DEF Ob!Spec

\* A claim that is open carries the next version of its event; every other delivery carries one that was issued.
VersionOf(d) ==
    IF d.pc = "claiming" THEN d.version = lease_version[d.event] + 1 /\ d.read = 0
                         ELSE d.version <= lease_version[d.event]

\* A version of an event is in one relay's hands.
VersionsKept ==
    /\ \A d \in deliveries : VersionOf(d)
    /\ \A d, g \in deliveries : d.event = g.event /\ d.version = g.version => d = g

\* No step issues a version twice.
LEMMA VersionsStay ==
  ASSUME Ob!OutboxAssumption, OutboxInv, VersionsKept, Ob!Next
  PROVE  VersionsKept'
<1>1. /\ OutboxTyped /\ RowsKept /\ DeliveriesKept /\ ClaimsApart
      /\ \A d \in deliveries : d \in Ob!Delivery /\ d.event \in Events
  BY DEF OutboxInv, OutboxTyped, Ob!Delivery
<1>2. ASSUME deliveries' \subseteq deliveries,
             \A d \in deliveries' : IF d.pc = "claiming" THEN lease_version'[d.event] = lease_version[d.event]
                                    ELSE lease_version'[d.event] >= lease_version[d.event]
      PROVE  VersionsKept'
  <2>1. ASSUME NEW d \in deliveries' PROVE VersionOf(d)'
    <3>1. VersionOf(d) /\ lease_version[d.event] \in Nat /\ d.version \in Nat /\ d.event \in Events /\ d \in deliveries
      BY <1>1, <1>2, <2>1 DEF VersionsKept, OutboxTyped, Ob!Delivery
    <3>2. CASE d.pc = "claiming" BY <1>2, <2>1, <3>1, <3>2 DEF VersionOf
    <3>3. CASE d.pc # "claiming" /\ lease_version'[d.event] \in Nat BY <1>2, <2>1, <3>1, <3>3 DEF VersionOf
    <3>4. lease_version'[d.event] \in Nat
      <4>1. OutboxInv'
        BY WriterKeeps, ClaimKeeps, ClaimEnds, RecordKeeps, RecoveryKeeps DEF Ob!Next, Ob!Relay
      <4>2. QED BY <3>1, <4>1 DEF OutboxInv, OutboxTyped
    <3>5. QED BY <3>2, <3>3, <3>4
  <2>2. QED BY <1>2, <2>1 DEF VersionsKept
<1>3. CASE UNCHANGED << deliveries, lease_version >>
  BY <1>3 DEF VersionsKept, VersionOf
<1>4. CASE \E e \in Events : \/ Ob!writeOutboxEvent(e) \/ Ob!CommitWriter(e) \/ Ob!RollbackWriter(e)
                           \/ Ob!LeaseExpires(e) \/ Ob!RetryDue(e)
  <2>1. UNCHANGED << deliveries, lease_version >>
    BY <1>4 DEF Ob!writeOutboxEvent, Ob!CommitWriter, Ob!RollbackWriter, Ob!LeaseExpires, Ob!RetryDue
  <2>2. QED BY <1>3, <2>1
<1>5. ASSUME NEW r \in Relays, Ob!claimOutboxBatch(r) PROVE VersionsKept'
  <2> DEFINE Open(e) == [event |-> e, relay |-> r, version |-> lease_version[e] + 1, read |-> 0, pc |-> "claiming"]
  <2>1. PICK b \in SUBSET Events : Ob!Batch(b) /\ deliveries' = deliveries \union {Open(e) : e \in b}
    BY <1>5 DEF Ob!claimOutboxBatch
  <2>2. lease_version' = lease_version BY <1>5 DEF Ob!claimOutboxBatch, Ob!Rows
  <2>3. ASSUME NEW d \in deliveries' \ deliveries
        PROVE  /\ d = Open(d.event) /\ d.event \in b
               /\ d.pc = "claiming" /\ d.version = lease_version[d.event] + 1 /\ d.read = 0
    <3>1. PICK e \in b : d = Open(e) BY <2>1, <2>3
    <3>2. QED BY <3>1
  <2> HIDE DEF Open
  <2>4. ASSUME NEW d \in deliveries, d.event \in b PROVE d.version <= lease_version[d.event]
    <3>1. d.pc # "claiming" BY <2>1, <2>4 DEF Ob!Batch, Ob!Claimable, Ob!Locked
    <3>2. QED BY <3>1 DEF VersionsKept, VersionOf
  <2>5. \A d \in deliveries' : VersionOf(d)' BY <2>2, <2>3 DEF VersionsKept, VersionOf
  <2>6. ASSUME NEW d \in deliveries', NEW g \in deliveries', d.event = g.event, d.version = g.version PROVE d = g
    <3>1. CASE d \in deliveries /\ g \in deliveries BY <2>6, <3>1 DEF VersionsKept
    <3>2. CASE d \notin deliveries /\ g \notin deliveries BY <2>3, <2>6, <3>2
    <3>3. CASE d \in deliveries /\ g \notin deliveries
      <4>1. lease_version[d.event] \in Nat /\ d.version \in Nat BY <1>1, <3>3 DEF OutboxTyped, Ob!Delivery
      <4>2. QED BY <2>3, <2>4, <2>6, <3>3, <4>1
    <3>4. CASE d \notin deliveries /\ g \in deliveries
      <4>1. lease_version[g.event] \in Nat /\ g.version \in Nat BY <1>1, <3>4 DEF OutboxTyped, Ob!Delivery
      <4>2. QED BY <2>3, <2>4, <2>6, <3>4, <4>1
    <3>5. QED BY <3>1, <3>2, <3>3, <3>4
  <2>7. QED BY <2>5, <2>6 DEF VersionsKept
<1>6. ASSUME NEW r \in Relays, Ob!Leased(Ob!ClaimOf(r))
      PROVE  \A d \in deliveries : IF d \in Ob!ClaimOf(r) THEN lease_version'[d.event] = lease_version[d.event] + 1
                                   ELSE IF d.pc = "claiming" THEN lease_version'[d.event] = lease_version[d.event]
                                   ELSE lease_version'[d.event] >= lease_version[d.event]
  <2> DEFINE taken == {d.event : d \in Ob!ClaimOf(r)}
  <2>1. lease_version' = [e \in Events |-> IF e \in taken THEN lease_version[e] + 1 ELSE lease_version[e]]
    BY <1>6 DEF Ob!Leased
  <2>2. /\ \A d \in Ob!ClaimOf(r) : d.event \in taken
        /\ \A d \in deliveries \ Ob!ClaimOf(r) : d.pc = "claiming" => d.event \notin taken
    BY <1>1 DEF Ob!ClaimOf, ClaimsApart
  <2> HIDE DEF taken
  <2>3. QED BY <1>1, <2>1, <2>2 DEF OutboxTyped
<1>7. ASSUME NEW r \in Relays, Ob!ClaimCommits(r) PROVE VersionsKept'
  <2>1. /\ Ob!Leased(Ob!ClaimOf(r))
        /\ deliveries' = (deliveries \ Ob!ClaimOf(r)) \union {[d EXCEPT !.pc = "publish"] : d \in Ob!ClaimOf(r)}
    BY <1>7 DEF Ob!ClaimCommits
  <2> DEFINE Rest == deliveries \ Ob!ClaimOf(r)
  <2>2. ASSUME NEW d \in deliveries' \ Rest
        PROVE  \E g \in Ob!ClaimOf(r) : /\ d = [g EXCEPT !.pc = "publish"] /\ g \in deliveries /\ g.pc = "claiming"
                                        /\ d.event = g.event /\ d.version = g.version /\ d.pc = "publish"
    <3>1. PICK g \in Ob!ClaimOf(r) : d = [g EXCEPT !.pc = "publish"] BY <2>1, <2>2
    <3>2. g \in deliveries /\ g.pc = "claiming" /\ g \in Ob!Delivery BY <1>1 DEF Ob!ClaimOf
    <3>3. QED BY <3>1, <3>2 DEF Ob!Delivery
  <2>3. ASSUME NEW d \in deliveries' \ Rest PROVE d.version = lease_version'[d.event] /\ d.pc = "publish"
    <3>1. PICK g \in Ob!ClaimOf(r) : /\ g \in deliveries /\ g.pc = "claiming"
                                     /\ d.event = g.event /\ d.version = g.version /\ d.pc = "publish"
      BY <2>2
    <3>2. g.version = lease_version[g.event] + 1 BY <3>1 DEF VersionsKept, VersionOf
    <3>3. QED BY <1>6, <2>1, <3>1, <3>2
  <2>4. ASSUME NEW d \in Rest
        PROVE  /\ VersionOf(d)'
               /\ \A g \in Ob!ClaimOf(r) : d.event = g.event => d.version < lease_version'[d.event]
    <3>1. /\ d \in deliveries /\ VersionOf(d) /\ d.event \in Events
          /\ lease_version[d.event] \in Nat /\ lease_version'[d.event] \in Nat /\ d.version \in Nat
      BY <1>1, <1>6, <2>1, LeasedKeeps, <1>7 DEF VersionsKept, OutboxTyped, Ob!Delivery, Ob!ClaimCommits, Ob!Writers
    <3>2. VersionOf(d)' BY <1>6, <2>1, <3>1 DEF VersionOf
    <3>3. ASSUME NEW g \in Ob!ClaimOf(r), d.event = g.event PROVE d.version < lease_version'[d.event]
      <4>1. g \in deliveries /\ d.pc # "claiming" BY <1>1, <3>3 DEF Ob!ClaimOf, ClaimsApart
      <4>2. lease_version'[d.event] = lease_version[d.event] + 1 BY <1>6, <2>1, <3>3, <4>1
      <4>3. QED BY <3>1, <4>1, <4>2 DEF VersionOf
    <3>4. QED BY <3>2, <3>3
  <2>5. ASSUME NEW d \in deliveries' PROVE VersionOf(d)'
    <3>1. CASE d \in Rest BY <2>4, <3>1
    <3>2. CASE d \notin Rest
      <4>1. d.version = lease_version'[d.event] /\ d.pc = "publish" BY <2>3, <2>5, <3>2
      <4>2. PICK g \in Ob!ClaimOf(r) : d.event = g.event /\ d.version = g.version /\ g \in deliveries BY <2>2, <2>5, <3>2
      <4>3. d.version \in Nat BY <1>1, <4>2 DEF Ob!Delivery
      <4>4. QED BY <4>1, <4>3 DEF VersionOf
    <3>3. QED BY <3>1, <3>2
  <2>6. ASSUME NEW d \in Rest, NEW g \in deliveries' \ Rest, d.event = g.event PROVE d.version # g.version
    <3>1. PICK h \in Ob!ClaimOf(r) : g.event = h.event BY <2>2
    <3>2. d.version < lease_version'[d.event] BY <2>4, <2>6, <3>1
    <3>3. lease_version'[d.event] = g.version BY <2>3, <2>6
    <3>4. d.version \in Nat BY <1>1 DEF Ob!Delivery
    <3>5. QED BY <3>2, <3>3, <3>4
  <2>7. ASSUME NEW d \in deliveries' \ Rest, NEW g \in deliveries' \ Rest, d.event = g.event, d.version = g.version
        PROVE  d = g
    <3>1. PICK c \in Ob!ClaimOf(r) : d = [c EXCEPT !.pc = "publish"] /\ c \in deliveries
                                     /\ d.event = c.event /\ d.version = c.version
      BY <2>2
    <3>2. PICK h \in Ob!ClaimOf(r) : g = [h EXCEPT !.pc = "publish"] /\ h \in deliveries
                                     /\ g.event = h.event /\ g.version = h.version
      BY <2>2
    <3>3. c = h BY <2>7, <3>1, <3>2 DEF VersionsKept
    <3>4. QED BY <3>1, <3>2, <3>3
  <2>8. \A d, g \in Rest : d.event = g.event /\ d.version = g.version => d = g
    BY DEF VersionsKept
  <2> HIDE DEF Rest
  <2>9. QED BY <2>5, <2>6, <2>7, <2>8 DEF VersionsKept
<1>8. ASSUME NEW r \in Relays, Ob!ClaimThrows(r) \/ Ob!CrashRelay(r) PROVE VersionsKept'
  <2>1. CASE UNCHANGED lease_version /\ deliveries' \subseteq deliveries
    BY <1>1, <1>2, <2>1 DEF OutboxTyped
  <2>2. CASE Ob!Leased(Ob!ClaimOf(r)) /\ deliveries' = deliveries \ Ob!ClaimOf(r)
    BY <1>2, <1>6, <2>2
  <2>3. QED BY <1>8, <2>1, <2>2 DEF Ob!ClaimThrows, Ob!CrashRelay, Ob!Rows
<1>9. ASSUME NEW d \in deliveries, Ob!Record(d) \/ Ob!RecordThrows(d) PROVE VersionsKept'
  <2>1. /\ d.pc # "claiming" /\ UNCHANGED lease_version
        /\ Ob!Ends(d) \/ \E pc_ \in {"success", "failure", "retry"}, n \in Nat : Ob!Moves(d, pc_, n)
    <3>1. delivery_attempt[d.event] \in Nat /\ 0 \in Nat
      BY <1>1 DEF OutboxTyped, Ob!OutboxAssumption
    <3>2. CASE Ob!Publish(d) BY <3>1, <3>2 DEF Ob!Publish, Ob!Rows
    <3>3. CASE Ob!ReadAttempt(d) BY <3>1, <3>3 DEF Ob!ReadAttempt, Ob!Rows
    <3>4. CASE Ob!commitOutboxSuccess(d) \/ Ob!commitOutboxFailure(d) \/ Ob!RecordThrows(d)
      BY <3>4 DEF Ob!commitOutboxSuccess, Ob!commitOutboxFailure, Ob!RecordThrows, Ob!Rows
    <3>5. QED BY <1>9, <3>2, <3>3, <3>4 DEF Ob!Record
  <2>2. CASE Ob!Ends(d)
    BY <1>1, <1>2, <2>1, <2>2 DEF Ob!Ends, OutboxTyped
  <2>3. ASSUME NEW pc_ \in {"success", "failure", "retry"}, NEW n \in Nat, Ob!Moves(d, pc_, n) PROVE VersionsKept'
    <3> DEFINE after == [d EXCEPT !.pc = pc_, !.read = n]
    <3>1. after.event = d.event /\ after.version = d.version /\ after.pc # "claiming"
      BY <1>1 DEF Ob!Delivery
    <3>2. deliveries' = (deliveries \ {d}) \union {after} BY <2>3 DEF Ob!Moves
    <3> HIDE DEF after
    <3>3. \A g \in deliveries' : VersionOf(g)' BY <2>1, <3>1, <3>2 DEF VersionsKept, VersionOf
    <3>4. QED BY <3>1, <3>2, <3>3 DEF VersionsKept
  <2>4. QED BY <2>1, <2>2, <2>3
<1>10. CASE Ob!reclaimExpiredOutboxLeases
  <2>1. /\ lease_version' = [e \in Events |-> IF e \in Ob!Reclaimed THEN lease_version[e] + 1 ELSE lease_version[e]]
        /\ deliveries' = deliveries
    BY <1>10 DEF Ob!reclaimExpiredOutboxLeases
  <2>2. \A d \in deliveries : d.pc = "claiming" => d.event \notin Ob!Reclaimed
    BY <1>1 DEF DeliveriesKept, DeliveryOf, Ob!Reclaimed, Ob!Reclaimable
  <2>3. QED BY <1>1, <1>2, <2>1, <2>2 DEF OutboxTyped
<1>11. QED BY <1>4, <1>5, <1>7, <1>8, <1>9, <1>10 DEF Ob!Next, Ob!Relay

\* The fence of the outbox: of the relays that may still hold an event, one at most can record its outcome.
OneRecorder ==
    \A d, g \in deliveries : Ob!Fenced(d) /\ Ob!Fenced(g) /\ d.event = g.event => d = g

\* However leases are lost, claims overlap and answers of COMMIT go astray, the WHERE clauses of commitOutboxSuccess and
\* commitOutboxFailure let one relay at a time through with the outcome of an event.
THEOREM OutcomesAreSingle == Ob!Spec => []OneRecorder
<1>1. Ob!Init => OutboxInv /\ VersionsKept
  BY OutboxStarts, RuntimeConstants DEF Ob!Init, VersionsKept
<1>2. OutboxInv /\ VersionsKept /\ [Ob!Next]_(Ob!vars) => OutboxInv' /\ VersionsKept'
  <2>1. VersionsKept /\ UNCHANGED Ob!vars => VersionsKept'
    BY DEF Ob!vars, VersionsKept, VersionOf
  <2>2. QED BY <2>1, RuntimeConstants, OutboxKeeps, VersionsStay
<1>3. VersionsKept => OneRecorder
  BY DEF VersionsKept, OneRecorder, Ob!Fenced
<1>4. QED BY <1>1, <1>2, <1>3, PTL DEF Ob!Spec

\* What has settled is never touched again.
SettledStays == \A e \in Events : status[e] \in Ob!Settled => status'[e] = status[e] /\ lease_version'[e] = lease_version[e]

\* An event that was delivered or dead-lettered stays so: no late outcome, recovery or claim brings it back.
THEOREM SettledIsFinal == Ob!Spec => [][SettledStays]_(Ob!vars)
<1>1. OutboxInv /\ [Ob!Next]_(Ob!vars) => [SettledStays]_(Ob!vars)
  <2> SUFFICES ASSUME OutboxInv, Ob!Next PROVE SettledStays
    OBVIOUS
  <2>1. /\ OutboxTyped /\ DeliveriesKept /\ \A d \in deliveries : d.event \in Events
    BY DEF OutboxInv, OutboxTyped, Ob!Delivery
  <2> USE DEF SettledStays, Ob!Settled
  <2>2. CASE \E e \in Events : \/ Ob!writeOutboxEvent(e) \/ Ob!CommitWriter(e) \/ Ob!RollbackWriter(e)
                             \/ Ob!LeaseExpires(e) \/ Ob!RetryDue(e)
    BY <2>1, <2>2 DEF Ob!writeOutboxEvent, Ob!CommitWriter, Ob!RollbackWriter, Ob!LeaseExpires, Ob!RetryDue, OutboxTyped
  <2>3. ASSUME NEW r \in Relays, Ob!Leased(Ob!ClaimOf(r)) PROVE SettledStays
    <3> DEFINE taken == {d.event : d \in Ob!ClaimOf(r)}
    <3>1. /\ status' = [e \in Events |-> IF e \in taken THEN "processing" ELSE status[e]]
          /\ lease_version' = [e \in Events |-> IF e \in taken THEN lease_version[e] + 1 ELSE lease_version[e]]
      BY <2>3 DEF Ob!Leased
    <3>2. \A e \in taken : status[e] = "pending" BY <2>1 DEF Ob!ClaimOf, DeliveriesKept, DeliveryOf
    <3> HIDE DEF taken
    <3>3. QED BY <3>1, <3>2
  <2>4. ASSUME NEW r \in Relays, Ob!Relay(r) \/ Ob!ClaimThrows(r) \/ Ob!CrashRelay(r) PROVE SettledStays
    BY <2>3, <2>4 DEF Ob!Relay, Ob!claimOutboxBatch, Ob!ClaimCommits, Ob!ClaimThrows, Ob!CrashRelay, Ob!Rows
  <2>5. ASSUME NEW d \in deliveries, Ob!Record(d) \/ Ob!RecordThrows(d) PROVE SettledStays
    <3>1. UNCHANGED lease_version /\ (UNCHANGED status \/ (Ob!Fenced(d) /\ \E to \in Ob!Statuses :
                                                             status' = [status EXCEPT ![d.event] = to]))
      BY <2>5 DEF Ob!Record, Ob!RecordThrows, Ob!Publish, Ob!commitOutboxSuccess, Ob!ReadAttempt, Ob!commitOutboxFailure,
                  Ob!Rows, Ob!Statuses
    <3>2. QED BY <2>1, <3>1 DEF Ob!Fenced, OutboxTyped
  <2>6. CASE Ob!reclaimExpiredOutboxLeases
    BY <2>6 DEF Ob!reclaimExpiredOutboxLeases, Ob!Reclaimed, Ob!Reclaimable
  <2>7. QED BY <2>2, <2>4, <2>5, <2>6 DEF Ob!Next
<1>2. Ob!Init => OutboxInv BY OutboxStarts, RuntimeConstants
<1>3. OutboxInv /\ [Ob!Next]_(Ob!vars) => OutboxInv' BY OutboxKeeps, RuntimeConstants
<1>4. QED BY <1>1, <1>2, <1>3, PTL DEF Ob!Spec

--------------------------------------------------------------------------------
(* The parts together                                                      *)

RuntimeInv == PoolInv /\ PoolBounded /\ BreakerInv /\ ListenerInv /\ OutboxInv

\* The parts start as each of them does.
LEMMA RuntimeStarts == RuntimeInit => RuntimeInv
<1> SUFFICES ASSUME RuntimeInit PROVE RuntimeInv
  OBVIOUS
<1>1. PoolAssumption /\ Init BY RuntimeConstants DEF RuntimeInit
<1>2. PoolInv BY <1>1, PoolStart
<1>3. PoolBounded
  <2>1. \A q \in Calls : call[q].attempt = 0 /\ call[q].pc = "new" BY <1>1 DEF Init
  <2>2. MAX_RETRIES \in Nat /\ queue = << >> BY <1>1 DEF Init, PoolAssumption
  <2>3. QED BY <2>1, <2>2 DEF PoolBounded, AttemptOf
<1>4. BreakerInv /\ ListenerInv /\ OutboxInv
  BY RuntimeConstants, BreakerStarts, ListenerStarts, OutboxStarts DEF RuntimeInit
<1>5. QED BY <1>2, <1>3, <1>4 DEF RuntimeInv

\* A step of one part leaves the others as they are.
LEMMA RuntimeKeeps == RuntimeInv /\ [RuntimeNext]_runtime => RuntimeInv'
<1> SUFFICES ASSUME RuntimeInv, [RuntimeNext]_runtime PROVE RuntimeInv'
  OBVIOUS
<1>1. [Next]_vars /\ [Cb!Next]_(Cb!vars) /\ [Nl!Next]_(Nl!vars) /\ [Ob!Next]_(Ob!vars)
  <2> USE DEF outbox, listener, pool, breaker, vars, Cb!vars, Cb!counters, Nl!vars, Ob!vars
  <2>1. CASE OutboxStep(Ob!Next) BY <2>1 DEF OutboxStep
  <2>2. CASE ListenerStep(Nl!Next) BY <2>2 DEF ListenerStep
  <2>3. CASE PoolStep(Next) BY <2>3 DEF PoolStep
  <2>4. CASE BreakerStep(Cb!Next) BY <2>4 DEF BreakerStep
  <2>5. CASE UNCHANGED runtime BY <2>5 DEF runtime
  <2>6. QED BY <2>1, <2>2, <2>3, <2>4, <2>5 DEF RuntimeNext
<1>2. QED BY <1>1, RuntimeConstants, PoolKeeps, BreakerKeeps, ListenerKeeps, OutboxKeeps DEF RuntimeInv

\* The state of every part is well typed and its invariants hold, whichever part a behaviour follows.
THEOREM RuntimeHolds ==
  RuntimeSpec => [](RuntimeTypeOK /\ FirstClaimsInOrder /\ OneConnection /\ ClientsComeBackClean /\ RetryIsSafe)
<1>1. RuntimeInv => TypeOK
  <2> SUFFICES ASSUME RuntimeInv PROVE TypeOK
    OBVIOUS
  <2>1. PoolTyped /\ PoolBounded /\ MAX_RETRIES \in Nat \ {0} /\ PoolInv
    BY RuntimeConstants DEF RuntimeInv, PoolInv, PoolAssumption
  <2>2. call \in [Calls -> [kind: {"query", "admin", "transaction"}, pc: Stages, attempt: 0..MAX_RETRIES,
                            retryable: BOOLEAN]]
    <3>1. ASSUME NEW q \in Calls
          PROVE  call[q] \in [kind: {"query", "admin", "transaction"}, pc: Stages, attempt: 0..MAX_RETRIES,
                              retryable: BOOLEAN]
      <4>1. call[q] \in CallType BY <2>1 DEF PoolTyped
      <4>2. call[q].attempt \in 0..MAX_RETRIES BY <2>1, <4>1 DEF PoolBounded, AttemptOf, CallType
      <4>3. QED BY <4>1, <4>2 DEF CallType
    <3>2. QED BY <2>1, <3>1 DEF PoolTyped
  <2>3. \A i \in 1..Len(queue) : queue[i] \in Calls BY <2>1 DEF PoolBounded
  <2>4. committed \in [Calls -> 0..MAX_RETRIES] BY <2>1 DEF PoolTyped
  <2>5. QED BY <2>1, <2>2, <2>3, <2>4 DEF TypeOK, PoolTyped, Stages, Outside
<1>2. RuntimeInv => Ob!TypeOK /\ Cb!TypeOK
  BY DEF RuntimeInv, OutboxInv, OutboxTyped, Ob!TypeOK, BreakerInv
<1>3. RuntimeInv => Nl!TypeOK
  BY DEF RuntimeInv, ListenerInv, ListenerTyped, ClientOwned, Nl!TypeOK
<1>4. RuntimeInv => RuntimeTypeOK
  BY <1>1, <1>2, <1>3 DEF RuntimeTypeOK
<1>5. RuntimeInv => FirstClaimsInOrder /\ OneConnection /\ ClientsComeBackClean /\ RetryIsSafe
  BY RuntimeConstants, OrderShown, ConnectionShown, PoolShown DEF RuntimeInv
<1>6. QED BY RuntimeStarts, RuntimeKeeps, <1>4, <1>5, PTL DEF RuntimeSpec

================================================================================
