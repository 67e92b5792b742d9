------------------------------ MODULE MCRuntime ------------------------------
(* Parts of the worker and API processes that share no state: the outbox     *)
(* with its relays, the LISTEN connection, the database pool and the circuit *)
(* breaker of an external API.  A behaviour follows one of them; the others  *)
(* stay where they start.                                                    *)
EXTENDS DbPool

CONSTANTS Events, Relays, BatchSize, MaxAttempts, MaxOutboxFaults,
          Clients, None, MaxLinkFaults,
          Callers, failureThreshold, successThreshold

VARIABLES part,
          status, seq, next_seq, lease, lease_version, delivery_attempt, retryDue, deliveries, late, outboxFaults,
          _client, _connected, _reconnectTimer, _stopping, _debounceTimer, getting, listens, out, wired, heard, dead,
          events, unlisten, linkFaults,
          state, failureCount, successCount, due, running, healthy

Ob == INSTANCE Outbox WITH faults <- outboxFaults, MaxFaults <- MaxOutboxFaults, due <- retryDue
Nl == INSTANCE NotifyListener WITH faults <- linkFaults, MaxFaults <- MaxLinkFaults
Cb == INSTANCE CircuitBreaker

ASSUME RuntimeConstants == PoolAssumption /\ Ob!OutboxAssumption /\ Nl!ListenerAssumption /\ Cb!ThresholdAssumption

outbox == << status, seq, next_seq, lease, lease_version, delivery_attempt, retryDue, deliveries, late, outboxFaults >>
listener == << _client, _connected, _reconnectTimer, _stopping, _debounceTimer, getting, listens, out, wired, heard,
               dead, events, unlisten, linkFaults >>
pool == << holder, inTx, broken, queue, ending, call, result, committed >>
breaker == << state, failureCount, successCount, due, running, healthy >>
runtime == << part, outbox, listener, pool, breaker >>

\* A part that is not followed needs one initial state only.
RuntimeInit ==
    /\ part \in {"outbox", "listener", "pool", "breaker"}
    /\ Ob!Init
    /\ Nl!Init
    /\ Init /\ (part # "pool" => \A q \in Calls : call[q].kind = "query")
    /\ Cb!Init

\* A step of one part.
OutboxStep(A) == part = "outbox" /\ A /\ UNCHANGED << part, listener, pool, breaker >>
ListenerStep(A) == part = "listener" /\ A /\ UNCHANGED << part, outbox, pool, breaker >>
PoolStep(A) == part = "pool" /\ A /\ UNCHANGED << part, outbox, listener, breaker >>
BreakerStep(A) == part = "breaker" /\ A /\ UNCHANGED << part, outbox, listener, pool >>

RuntimeNext ==
    \/ OutboxStep(Ob!Next)
    \/ ListenerStep(Nl!Next)
    \/ PoolStep(Next)
    \/ BreakerStep(Cb!Next)

\* Writers commit, relays and their database answer, clocks run; a relay goes on to claim.
OutboxFairness ==
    /\ WF_runtime(OutboxStep(\E e \in Events : Ob!CommitWriter(e)))
    /\ WF_runtime(OutboxStep(\E e \in Events : Ob!Clock(e)))
    /\ \A r \in Relays : WF_runtime(OutboxStep(Ob!Relay(r)))
    /\ WF_runtime(OutboxStep(\E d \in deliveries : Ob!Record(d)))
    /\ WF_runtime(OutboxStep(Ob!reclaimExpiredOutboxLeases))

\* The pool and the server answer, pg emits what it has to, and timers fire.
ListenerFairness ==
    /\ WF_runtime(ListenerStep(Nl!Connecting))
    /\ WF_runtime(ListenerStep(Nl!Emitting))
    /\ WF_runtime(ListenerStep(Nl!TimerFires))

\* Statements are answered, and a caller in the queue is served or given up on.
PoolFairness ==
    \A q \in Calls : WF_runtime(PoolStep(ConnectFails(q) \/ \E c \in Connections : Connected(q, c) \/ Step(q, c)))

\* The clock runs, the API is called, and its calls end.
BreakerFairness ==
    /\ WF_runtime(BreakerStep(Cb!TimeoutOver))
    /\ \A c \in Callers : WF_runtime(BreakerStep(Cb!execute(c) \/ Cb!_recordSuccess(c) \/ Cb!_recordFailure(c)))

RuntimeSpec == RuntimeInit /\ [][RuntimeNext]_runtime /\ OutboxFairness /\ ListenerFairness /\ PoolFairness /\ BreakerFairness

RuntimeTypeOK == TypeOK /\ Ob!TypeOK /\ Nl!TypeOK /\ Cb!TypeOK

FirstClaimsInOrder == Ob!FirstClaimsInOrder
EveryEventSettles == Ob!EveryEventSettles
OneConnection == Nl!OneConnection
Reconnects == part = "listener" => Nl!Reconnects
CircuitRecovers == Cb!CircuitRecovers
==============================================================================
