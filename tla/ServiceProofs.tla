----------------------------- MODULE ServiceProofs -----------------------------
(***************************************************************************)
(* Proofs about the parts of MCService, each for its own specification:    *)
(* the server for any number of requests, any limit and any number of      *)
(* Redis clients, the queue's client for any limit and any times, the      *)
(* queue health for any number of workers, logins, tokens and their        *)
(* revocations, the cached is_active flag and the v3 load shedding for any *)
(* number of requests.                                                     *)
(***************************************************************************)
EXTENDS MCService, IdempotencyProofs, FiniteSetTheorems

-----------------------------------------------------------------------------
(* The server and its requests                                             *)

\* The admitted requests whose client still waits.
WaitingFor == {r \in Requests : request[r] = "answered" \/ (request[r] = "handling" /\ r \notin hungUp)}

\* A request that is handled for a client that still waits has its socket, one whose client is gone was admitted, nobody has
\* a socket once the drain is over, and the pool is not ended before that.
Attended ==
    /\ \A r \in hungUp : request[r] \in {"handling", "done"}
    /\ \A r \in Requests : request[r] = "handling" /\ r \notin hungUp => r \in connections
    /\ phase \in {"queues", "redis", "db"} => connections = {}
    /\ pool = "ending" => connections = {} /\ phase \in {"db", "exited"}

ServerInv == Sv!TypeOK /\ SlotsCounted /\ Attended

\* The maximum of a count and zero is the count, unless it is below zero.
LEMMA NeverHidden == ASSUME NEW n \in Nat PROVE Sv!Max({0, n}) = n
<1>1. n \in {0, n} /\ \A y \in {0, n} : n >= y
  OBVIOUS
<1>2. \A x \in {0, n} : (\A y \in {0, n} : x >= y) => x = n
  OBVIOUS
<1>3. QED BY <1>1, <1>2 DEF Sv!Max

\* The sets of requests are finite, and their sizes are numbers.
LEMMA Sizes ==
  /\ \A S : Sv!Cardinality(S) = Cardinality(S)
  /\ \A S \in SUBSET Requests : IsFiniteSet(S) /\ Cardinality(S) \in Nat
<1>1. \A S : Sv!Cardinality(S) = Cardinality(S)
  BY DEF Sv!Cardinality, Cardinality
<1>2. ASSUME NEW S \in SUBSET Requests PROVE IsFiniteSet(S) /\ Cardinality(S) \in Nat
  BY ServiceConstants, FS_Subset, FS_CardinalityType DEF IdempotencyAssumption
<1>3. QED BY <1>1, <1>2

\* The counter is the number of those who wait, and of the slots that are lost.
LEMMA CounterIs == SlotsCounted <=> activeRequests = leaked + Cardinality(WaitingFor)
  BY Sizes DEF SlotsCounted, Sv!SlotsCounted, WaitingFor

\* Nobody waits to begin with, but earlier requests may have left the counter up.
LEMMA ServerStart == Sv!Init => ServerInv
<1> SUFFICES ASSUME Sv!Init PROVE ServerInv
  OBVIOUS
<1> USE ServiceConstants DEF Sv!ServerAssumption, Sv!BackpressureAssumption
<1>1. /\ leaked \in EarlierLeaks /\ activeRequests = leaked /\ request = [r \in Requests |-> "idle"] /\ hungUp = {}
      /\ phase = "checkDatabase" /\ exitCode = -1 /\ connections = {} /\ holding = {} /\ quitting = -1 /\ pool = "open"
  BY DEF Sv!Init, Sv!BackpressureInit
<1>2. IS_PROD \in BOOLEAN /\ draining \in BOOLEAN /\ dying \in BOOLEAN
  BY Zenon DEF Sv!Init
<1>3. Sv!BackpressureTypeOK
  BY <1>1 DEF Sv!BackpressureTypeOK
<1>4. Sv!TypeOK
  BY <1>1, <1>2, <1>3 DEF Sv!TypeOK, Sv!Phases, Sv!Checks, Sv!ShutdownPhases
<1>5. WaitingFor = {}
  BY <1>1 DEF WaitingFor
<1>6. SlotsCounted
  BY <1>1, <1>5, FS_EmptySet, CounterIs
<1>7. Attended
  BY <1>1 DEF Attended
<1>8. QED BY <1>4, <1>6, <1>7 DEF ServerInv

\* The counter, with the sets of those who wait after a step.
LEMMA CounterIsPrime == SlotsCounted' <=> activeRequests' = leaked' + Cardinality(WaitingFor')
  BY Sizes DEF SlotsCounted, Sv!SlotsCounted, WaitingFor

\* An admitted request leaves room below the limit.
LEMMA AdmittedBelowLimit ==
  ASSUME NEW tier \in {"LOW", "MEDIUM", "HIGH"}, NEW dbCritical, NEW lagging, NEW active \in Nat,
         Sv!Allows(tier, active, dbCritical, lagging)
  PROVE  active < maxConcurrentRequests
<1> USE ServiceConstants DEF Sv!ServerAssumption, Sv!BackpressureAssumption
<1>1. ~Sv!AtLeast(active, 70) \/ ~Sv!AtLeast(active, 90) \/ ~Sv!AtLeast(active, 98)
  BY DEF Sv!Allows
<1>2. QED BY <1>1 DEF Sv!AtLeast

\* Steps that touch neither the requests nor the counter.
LEMMA CounterUntouched ==
  ASSUME ServerInv, UNCHANGED << activeRequests, request, hungUp, leaked >>
  PROVE  Sv!BackpressureTypeOK' /\ SlotsCounted'
<1>1. WaitingFor' = WaitingFor
  BY DEF WaitingFor
<1>2. SlotsCounted'
  BY <1>1, CounterIs, CounterIsPrime DEF ServerInv
<1>3. QED BY <1>2 DEF ServerInv, Sv!TypeOK, Sv!BackpressureTypeOK

\* Sockets that close: whoever waited is counted out, unless the response was ended; then the slot is lost.
LEMMA CloseCounts ==
  ASSUME ServerInv, NEW rs \in SUBSET Requests, Sv!onClose(rs)
  PROVE  /\ Sv!BackpressureTypeOK' /\ SlotsCounted'
         /\ \A r \in Requests : request'[r] = "handling" /\ r \notin hungUp' =>
                request[r] = "handling" /\ r \notin hungUp /\ r \notin rs
         /\ \A r \in hungUp' : request'[r] \in {"handling", "done"}
<1> DEFINE unended == {r \in rs : request[r] = "handling" /\ r \notin hungUp}
           finished == {r \in rs : request[r] = "answered"}
<1>1. /\ activeRequests' = Sv!Max({0, activeRequests - Cardinality(unended)})
      /\ hungUp' = hungUp \union unended
      /\ leaked' = leaked + Cardinality(finished)
      /\ request' = [r \in Requests |-> IF r \in finished THEN "done" ELSE request[r]]
  BY Sizes DEF Sv!onClose
<1>2. /\ unended \subseteq WaitingFor /\ finished \subseteq WaitingFor /\ unended \intersect finished = {}
      /\ WaitingFor \subseteq Requests /\ unended \subseteq Requests /\ finished \subseteq Requests
  BY DEF WaitingFor
<1>3. WaitingFor' = (WaitingFor \ unended) \ finished
  BY <1>1 DEF WaitingFor
<1>4. /\ request' \in [Requests -> {"idle", "handling", "answered", "done"}] /\ hungUp' \subseteq Requests
      /\ \A r \in Requests : request'[r] = "handling" /\ r \notin hungUp' =>
             request[r] = "handling" /\ r \notin hungUp /\ r \notin rs
      /\ \A r \in hungUp' : request'[r] \in {"handling", "done"}
  BY <1>1 DEF ServerInv, Sv!TypeOK, Sv!BackpressureTypeOK, Attended
<1> HIDE DEF unended, finished
<1>5. /\ Cardinality(WaitingFor) \in Nat /\ IsFiniteSet(WaitingFor)
      /\ Cardinality(unended) \in Nat /\ Cardinality(finished) \in Nat
      /\ IsFiniteSet(unended) /\ IsFiniteSet(finished) /\ IsFiniteSet(WaitingFor \ unended)
  BY <1>2, Sizes
<1>6. Cardinality(WaitingFor \ unended) = Cardinality(WaitingFor) - Cardinality(unended)
  <2>1. WaitingFor \intersect unended = unended
    BY <1>2
  <2>2. QED BY <1>5, <2>1, FS_Difference
<1>7. Cardinality(WaitingFor') = Cardinality(WaitingFor) - Cardinality(unended) - Cardinality(finished)
  <2>1. (WaitingFor \ unended) \intersect finished = finished
    BY <1>2
  <2>2. Cardinality((WaitingFor \ unended) \ finished) = Cardinality(WaitingFor \ unended) - Cardinality(finished)
    BY <1>5, <2>1, FS_Difference
  <2>3. QED BY <1>3, <1>6, <2>2
<1>8. Cardinality(WaitingFor') \in Nat
  <2>1. (WaitingFor \ unended) \ finished \in SUBSET Requests
    BY <1>2
  <2>2. QED BY <1>3, <2>1, Sizes
<1>9. activeRequests = leaked + Cardinality(WaitingFor) /\ leaked \in Nat
      /\ activeRequests \in 0..(maxConcurrentRequests - 1)
  BY CounterIs DEF ServerInv, Sv!TypeOK, Sv!BackpressureTypeOK
<1>10. activeRequests - Cardinality(unended) \in Nat
  BY <1>5, <1>7, <1>8, <1>9
<1>11. activeRequests' = activeRequests - Cardinality(unended)
  BY <1>1, <1>10, NeverHidden
<1>12. SlotsCounted'
  BY <1>1, <1>5, <1>7, <1>9, <1>11, CounterIsPrime
<1>13. leaked' \in Nat /\ activeRequests' \in 0..(maxConcurrentRequests - 1)
  BY <1>1, <1>5, <1>9, <1>10, <1>11, ServiceConstants DEF Sv!ServerAssumption, Sv!BackpressureAssumption
<1>14. QED BY <1>4, <1>12, <1>13 DEF Sv!BackpressureTypeOK

\* A request that comes in is counted in or refused.
LEMMA AdmissionCounts ==
  ASSUME ServerInv, NEW r \in Requests, Sv!backpressureMiddleware(r)
  PROVE  /\ Sv!BackpressureTypeOK' /\ SlotsCounted' /\ hungUp' = hungUp
         /\ \A q \in Requests \ {r} : request'[q] = request[q]
         /\ r \notin hungUp
<1> USE DEF ServerInv, Sv!TypeOK, Sv!BackpressureTypeOK
<1>0. /\ activeRequests = leaked + Cardinality(WaitingFor) /\ leaked \in Nat
      /\ Cardinality(WaitingFor) \in Nat /\ IsFiniteSet(WaitingFor) /\ maxConcurrentRequests \in Nat
  <2>1. WaitingFor \in SUBSET Requests
    BY DEF WaitingFor
  <2>2. QED BY <2>1, CounterIs, Sizes, ServiceConstants DEF Sv!ServerAssumption, Sv!BackpressureAssumption
<1>1. request[r] = "idle" /\ UNCHANGED << hungUp, leaked >>
  BY DEF Sv!backpressureMiddleware
<1>2. PICK tier \in {"LOW", "MEDIUM", "HIGH"}, dbCritical \in BOOLEAN, lagging \in BOOLEAN :
        IF Sv!Allows(tier, activeRequests + 1, dbCritical, lagging)
        THEN activeRequests' = activeRequests + 1 /\ request' = [request EXCEPT ![r] = "handling"]
        ELSE request' = [request EXCEPT ![r] = "done"] /\ UNCHANGED activeRequests
  BY DEF Sv!backpressureMiddleware
<1>3. CASE Sv!Allows(tier, activeRequests + 1, dbCritical, lagging)
  <2>1. activeRequests' = activeRequests + 1 /\ request' = [request EXCEPT ![r] = "handling"]
    BY <1>2, <1>3
  <2>2. activeRequests + 1 < maxConcurrentRequests
    <3>1. activeRequests + 1 \in Nat
      BY <1>0
    <3>2. QED BY <1>3, <3>1, AdmittedBelowLimit
  <2>3. r \notin hungUp /\ r \notin WaitingFor
    BY <1>1 DEF Attended, WaitingFor
  <2>4. WaitingFor' = WaitingFor \union {r}
    BY <1>1, <2>1, <2>3 DEF WaitingFor
  <2>5. Cardinality(WaitingFor') = Cardinality(WaitingFor) + 1
    BY <1>0, <2>3, <2>4, FS_AddElement
  <2>6. SlotsCounted'
    BY <1>0, <1>1, <2>1, <2>5, CounterIsPrime
  <2>7. Sv!BackpressureTypeOK'
    BY <1>0, <1>1, <2>1, <2>2
  <2>8. QED BY <1>1, <2>1, <2>3, <2>6, <2>7
<1>4. CASE ~Sv!Allows(tier, activeRequests + 1, dbCritical, lagging)
  <2>1. activeRequests' = activeRequests /\ request' = [request EXCEPT ![r] = "done"]
    BY <1>2, <1>4
  <2>2. WaitingFor' = WaitingFor
    BY <1>1, <2>1 DEF WaitingFor
  <2>3. SlotsCounted'
    BY <1>0, <1>1, <2>1, <2>2, CounterIsPrime
  <2>4. Sv!BackpressureTypeOK'
    BY <1>1, <2>1
  <2>5. r \notin hungUp
    BY <1>1 DEF Attended
  <2>6. QED BY <1>1, <2>1, <2>3, <2>4, <2>5
<1>5. QED BY <1>3, <1>4

\* A response that ends, and one whose last byte is handed over.
LEMMA AnswersCount ==
  ASSUME ServerInv, NEW r \in Requests, Sv!HandlerEnds(r) \/ Sv!onFinish(r)
  PROVE  /\ Sv!BackpressureTypeOK' /\ SlotsCounted' /\ hungUp' = hungUp
         /\ \A q \in Requests \ {r} : request'[q] = request[q]
         /\ request'[r] \in {"answered", "done"} /\ (r \in hungUp => request'[r] = "done")
<1> USE DEF ServerInv, Sv!TypeOK, Sv!BackpressureTypeOK
<1>0. /\ activeRequests = leaked + Cardinality(WaitingFor) /\ leaked \in Nat
      /\ Cardinality(WaitingFor) \in Nat /\ IsFiniteSet(WaitingFor) /\ maxConcurrentRequests \in Nat
  <2>1. WaitingFor \in SUBSET Requests
    BY DEF WaitingFor
  <2>2. QED BY <2>1, CounterIs, Sizes, ServiceConstants DEF Sv!ServerAssumption, Sv!BackpressureAssumption
<1>1. CASE Sv!HandlerEnds(r)
  <2>1. /\ request[r] = "handling" /\ UNCHANGED << activeRequests, hungUp, leaked >>
        /\ request' = [request EXCEPT ![r] = IF r \in hungUp THEN "done" ELSE "answered"]
    BY <1>1 DEF Sv!HandlerEnds
  <2>2. WaitingFor' = WaitingFor
    BY <2>1 DEF WaitingFor, Attended
  <2>3. SlotsCounted'
    BY <1>0, <2>1, <2>2, CounterIsPrime
  <2>4. Sv!BackpressureTypeOK'
    BY <2>1
  <2>5. QED BY <2>1, <2>3, <2>4
<1>2. CASE Sv!onFinish(r)
  <2>1. /\ request[r] = "answered" /\ UNCHANGED << hungUp, leaked >>
        /\ request' = [request EXCEPT ![r] = "done"]
        /\ activeRequests' = Sv!Max({0, activeRequests - 1})
    BY <1>2 DEF Sv!onFinish
  <2>2. r \in WaitingFor /\ WaitingFor' = WaitingFor \ {r}
    BY <2>1 DEF WaitingFor
  <2>3. Cardinality(WaitingFor') = Cardinality(WaitingFor) - 1 /\ Cardinality(WaitingFor') \in Nat
    <3>1. Cardinality(WaitingFor \ {r}) = Cardinality(WaitingFor) - 1
      BY <1>0, <2>2, FS_RemoveElement
    <3>2. WaitingFor \ {r} \in SUBSET Requests
      BY DEF WaitingFor
    <3>3. QED BY <2>2, <3>1, <3>2, Sizes
  <2>4. activeRequests - 1 \in Nat
    BY <1>0, <2>3
  <2>5. activeRequests' = activeRequests - 1
    BY <2>1, <2>4, NeverHidden
  <2>6. SlotsCounted'
    BY <1>0, <2>1, <2>3, <2>5, CounterIsPrime
  <2>7. Sv!BackpressureTypeOK'
    BY <1>0, <2>1, <2>4, <2>5
  <2>8. QED BY <2>1, <2>6, <2>7
<1>3. QED BY <1>1, <1>2

\* Every step of the start, of a request and of the shutdown.
LEMMA ServerKeeps == ServerInv /\ [Sv!Next]_(Sv!vars) => ServerInv'
<1> SUFFICES ASSUME ServerInv, [Sv!Next]_(Sv!vars) PROVE ServerInv'
  OBVIOUS
<1> USE ServiceConstants DEF Sv!ServerAssumption, Sv!Phases, Sv!Checks, Sv!ShutdownPhases, Sv!Background, Sv!Exits
<1>1. ASSUME UNCHANGED Sv!bpVars,
             \/ Sv!verifyDependencies \/ Sv!CheckFails \/ Sv!gracefulShutdown \/ Sv!drainRequests \/ Sv!drainQueues
             \/ Sv!closeRedis \/ Sv!closeDatabase \/ Sv!QueueTimeout \/ Sv!RedisTimeout \/ Sv!DatabaseTimeout
             \/ Sv!Fatal \/ Sv!FatalExit
      PROVE  ServerInv'
  <2>1. UNCHANGED << activeRequests, request, hungUp, leaked >>
    BY <1>1 DEF Sv!bpVars
  <2>2. Sv!BackpressureTypeOK' /\ SlotsCounted'
    BY <2>1, CounterUntouched
  <2> USE DEF ServerInv, Sv!TypeOK, Attended
  <2>3. CASE Sv!verifyDependencies
    BY <2>1, <2>2, <2>3 DEF Sv!verifyDependencies, Sv!AfterCheck
  <2>4. CASE Sv!CheckFails
    BY <2>1, <2>2, <2>4 DEF Sv!CheckFails
  <2>5. CASE Sv!gracefulShutdown
    BY <2>1, <2>2, <2>5 DEF Sv!gracefulShutdown
  <2>6. CASE Sv!drainRequests
    BY <2>1, <2>2, <2>6 DEF Sv!drainRequests, Sv!Drained
  <2>7. CASE Sv!drainQueues
    <3>1. draining' \in BOOLEAN
      BY <2>7, Zenon DEF Sv!drainQueues
    <3>2. /\ UNCHANGED << IS_PROD, exitCode, connections, holding, pool, dying >>
          /\ \/ phase = "queues" /\ phase' = "redis" /\ quitting' = 0
             \/ UNCHANGED << phase, quitting >>
      BY <2>7 DEF Sv!drainQueues
    <3>3. QED BY <2>1, <2>2, <3>1, <3>2
  <2>8. CASE Sv!closeRedis
    BY <2>1, <2>2, <2>8 DEF Sv!closeRedis
  <2>9. CASE Sv!closeDatabase
    BY <2>1, <2>2, <2>9 DEF Sv!closeDatabase
  <2>10. CASE Sv!QueueTimeout
    BY <2>1, <2>2, <2>10 DEF Sv!QueueTimeout
  <2>11. CASE Sv!RedisTimeout
    BY <2>1, <2>2, <2>11 DEF Sv!RedisTimeout
  <2>12. CASE Sv!DatabaseTimeout
    BY <2>1, <2>2, <2>12 DEF Sv!DatabaseTimeout
  <2>13. CASE Sv!Fatal
    BY <2>1, <2>2, <2>13 DEF Sv!Fatal
  <2>14. CASE Sv!FatalExit
    BY <2>1, <2>2, <2>14 DEF Sv!FatalExit
  <2>15. QED
    BY <1>1, <2>3, <2>4, <2>5, <2>6, <2>7, <2>8, <2>9, <2>10, <2>11, <2>12, <2>13, <2>14
<1>2. ASSUME NEW r \in Requests, Sv!Connect(r) PROVE ServerInv'
  <2>1. /\ Sv!backpressureMiddleware(r) /\ phase = "listening"
        /\ connections' = (IF request'[r] = "handling" THEN connections \union {r} ELSE connections)
        /\ UNCHANGED << phase, IS_PROD, exitCode, holding, draining, quitting, pool, dying >>
    BY <1>2 DEF Sv!Connect
  <2>2. /\ Sv!BackpressureTypeOK' /\ SlotsCounted' /\ hungUp' = hungUp
        /\ \A q \in Requests \ {r} : request'[q] = request[q]
        /\ r \notin hungUp
    BY <2>1, AdmissionCounts
  <2>3. QED BY <2>1, <2>2 DEF ServerInv, Sv!TypeOK, Attended, Sv!BackpressureTypeOK
<1>3. ASSUME NEW r \in Requests, Sv!TakesClient(r) PROVE ServerInv'
  <2>1. UNCHANGED << activeRequests, request, hungUp, leaked >>
    BY <1>3 DEF Sv!TakesClient, Sv!bpVars
  <2>2. Sv!BackpressureTypeOK' /\ SlotsCounted'
    BY <2>1, CounterUntouched
  <2>3. QED BY <1>3, <2>1, <2>2 DEF Sv!TakesClient, ServerInv, Sv!TypeOK, Attended
<1>4. ASSUME NEW r \in Requests, Sv!Answers(r) \/ Sv!Flushed(r) PROVE ServerInv'
  <2>1. /\ Sv!BackpressureTypeOK' /\ SlotsCounted' /\ hungUp' = hungUp
        /\ \A q \in Requests \ {r} : request'[q] = request[q]
        /\ request'[r] \in {"answered", "done"} /\ (r \in hungUp => request'[r] = "done")
    BY <1>4, AnswersCount DEF Sv!Answers, Sv!Flushed
  <2>2. /\ connections' \in {connections, connections \ {r}} /\ holding' \in {holding, holding \ {r}}
        /\ UNCHANGED << phase, IS_PROD, exitCode, draining, quitting, pool, dying >>
    BY <1>4 DEF Sv!Answers, Sv!Flushed
  <2>3. QED BY <2>1, <2>2 DEF ServerInv, Sv!TypeOK, Attended, Sv!BackpressureTypeOK
<1>5. ASSUME NEW r \in Requests, Sv!HangsUp(r) PROVE ServerInv'
  <2>1. Sv!onClose({r}) /\ connections' = connections \ {r}
        /\ UNCHANGED << phase, IS_PROD, exitCode, holding, draining, quitting, pool, dying >>
    BY <1>5 DEF Sv!HangsUp
  <2>2. /\ Sv!BackpressureTypeOK' /\ SlotsCounted'
        /\ \A q \in Requests : request'[q] = "handling" /\ q \notin hungUp' =>
               request[q] = "handling" /\ q \notin hungUp /\ q \notin {r}
        /\ \A q \in hungUp' : request'[q] \in {"handling", "done"}
    BY <2>1, CloseCounts
  <2>3. QED BY <2>1, <2>2 DEF ServerInv, Sv!TypeOK, Attended
<1>6. CASE Sv!DrainTimeout
  <2>1. /\ Sv!onClose(connections) /\ connections' = {} /\ phase = "drain" /\ phase' = "queues" /\ draining' = TRUE
        /\ UNCHANGED << IS_PROD, exitCode, holding, quitting, pool, dying >>
    BY <1>6 DEF Sv!DrainTimeout
  <2>2. connections \in SUBSET Requests
    BY DEF ServerInv, Sv!TypeOK
  <2>3. /\ Sv!BackpressureTypeOK' /\ SlotsCounted'
        /\ \A q \in Requests : request'[q] = "handling" /\ q \notin hungUp' =>
               request[q] = "handling" /\ q \notin hungUp /\ q \notin connections
        /\ \A q \in hungUp' : request'[q] \in {"handling", "done"}
    BY <2>1, <2>2, CloseCounts
  <2>4. QED BY <2>1, <2>3 DEF ServerInv, Sv!TypeOK, Attended
<1>7. CASE UNCHANGED Sv!vars
  <2>1. UNCHANGED << activeRequests, request, hungUp, leaked >>
        /\ UNCHANGED << phase, IS_PROD, exitCode, connections, holding, draining, quitting, pool, dying >>
    BY <1>7 DEF Sv!vars, Sv!bpVars, Sv!slVars
  <2>2. Sv!BackpressureTypeOK' /\ SlotsCounted'
    BY <2>1, CounterUntouched
  <2>3. QED BY <2>1, <2>2 DEF ServerInv, Sv!TypeOK, Attended
<1>8. ASSUME Sv!Next PROVE ServerInv'
  <2>1. CASE \/ Sv!verifyDependencies \/ Sv!CheckFails \/ Sv!gracefulShutdown \/ Sv!drainRequests \/ Sv!drainQueues
             \/ Sv!closeRedis \/ Sv!closeDatabase \/ Sv!QueueTimeout \/ Sv!RedisTimeout \/ Sv!DatabaseTimeout
             \/ Sv!Fatal \/ Sv!FatalExit
    <3>1. UNCHANGED Sv!bpVars
      BY <2>1 DEF Sv!verifyDependencies, Sv!CheckFails, Sv!gracefulShutdown, Sv!drainRequests, Sv!drainQueues,
                  Sv!closeRedis, Sv!closeDatabase, Sv!QueueTimeout, Sv!RedisTimeout, Sv!DatabaseTimeout, Sv!Fatal, Sv!FatalExit
    <3>2. QED BY <1>1, <2>1, <3>1
  <2>2. QED BY <1>2, <1>3, <1>4, <1>5, <1>6, <1>8, <2>1 DEF Sv!Next
<1>9. QED BY <1>7, <1>8

\* Whatever the order in which responses end, bytes are flushed and clients hang up, at any limit: the counter is the number
\* of the admitted requests whose client still waits, and of the slots that were lost; max(0, ...) hides nothing.
THEOREM CounterIsExact == Sv!Spec => []SlotsCounted
<1>1. ServerInv => SlotsCounted
  BY DEF ServerInv
<1>2. QED BY ServerStart, ServerKeeps, <1>1, PTL DEF Sv!Spec

\* Who still waits has a socket.
LEMMA PoolEnds == ServerInv => PoolOutlivesClients
  BY DEF ServerInv, Attended, PoolOutlivesClients, Sv!PoolOutlivesClients

\* Whichever phase of the shutdown loses its race with its timer, pool.end() is not called under a request whose client
\* still waits.
THEOREM PoolEndsLast == Sv!Spec => []PoolOutlivesClients
  BY ServerStart, ServerKeeps, PoolEnds, PTL DEF Sv!Spec

-----------------------------------------------------------------------------
(* The queue's Redis client and the queue health                           *)

\* While the circuit is closed the attempts it counts are the reconnects; once it is open, whatever attempt is under way
\* fails before it has cooled down.
AttemptsKnown ==
    /\ status = "connected" => tries = 0 /\ attemptsSinceOpen = 0
    /\ status = "connecting" /\ ~open => attemptsSinceOpen = tries /\ tries < MAX_RECONNECT_ATTEMPTS
    /\ status = "reconnecting" /\ ~open => attemptsSinceOpen = tries + 1 /\ tries + 1 < MAX_RECONNECT_ATTEMPTS
    /\ status = "connecting" /\ open => tries <= MAX_RECONNECT_ATTEMPTS /\ openFor + left <= MaxDelay + ConnectTimeout
    /\ status = "reconnecting" /\ open => tries + 1 <= MAX_RECONNECT_ATTEMPTS /\ openFor + left <= MaxDelay
    /\ status = "end" => tries <= MAX_RECONNECT_ATTEMPTS

\* The registry says "connected" only of a client that is, and what is left of a worker that is gone is about as old as
\* that.
RegistryKnows ==
    /\ connected => status = "connected"
    /\ \A w \in Workers : gone[w] <= worker[w].age + 1

Report == [active: BOOLEAN, age: 0..(staleAfter + 2)]

\* The types of QueueReliability, with the reports as a function.
HealthTyped ==
    /\ Rd!ClientTypeOK
    /\ connected \in BOOLEAN /\ initialized \in BOOLEAN /\ backlogged \in BOOLEAN
    /\ scheduler \in Report /\ worker \in [Workers -> Report]
    /\ gone \in [Workers -> 0..(staleAfter + 2)]

QueueInv == HealthTyped /\ AttemptsKnown /\ RegistryKnows

\* The client is connecting, and nobody has reported.
LEMMA QueueStart == Rd!Init => QueueInv
<1> SUFFICES ASSUME Rd!Init PROVE QueueInv
  OBVIOUS
<1> USE ServiceConstants DEF Rd!HealthAssumption, Rd!ClientAssumption
<1>1. /\ status = "connecting" /\ left = ConnectTimeout /\ openFor = 0 /\ attemptsSinceOpen = 0 /\ tries = 0
      /\ gone = [w \in Workers |-> 0]
  BY DEF Rd!Init, Rd!ClientInit
<1>2. ~open /\ open \in BOOLEAN /\ ~connected /\ connected \in BOOLEAN /\ initialized \in BOOLEAN /\ backlogged \in BOOLEAN
  BY Zenon DEF Rd!Init, Rd!ClientInit
<1>3. scheduler \in Report /\ worker \in [Workers -> Report] /\ \A w \in Workers : worker[w].age = staleAfter + 2
  BY DEF Rd!Init, Rd!Unheard, Rd!Old, Report
<1>4. Rd!ClientTypeOK
  BY <1>1, <1>2 DEF Rd!ClientTypeOK
<1>5. AttemptsKnown /\ RegistryKnows
  BY <1>1, <1>2, <1>3 DEF AttemptsKnown, RegistryKnows
<1>6. QED BY <1>1, <1>2, <1>3, <1>4, <1>5 DEF QueueInv, HealthTyped

\* The event 'close', from a connection or from an attempt to connect.
LEMMA ClosesKeeps ==
  ASSUME QueueInv, status \in {"connected", "connecting"}, Rd!Closes, tries' = tries
  PROVE  Rd!ClientTypeOK' /\ AttemptsKnown' /\ status' # "connected"
<1> USE ServiceConstants DEF Rd!HealthAssumption, Rd!ClientAssumption, QueueInv, HealthTyped, Rd!ClientTypeOK, AttemptsKnown
<1>1. CASE Rd!isCircuitOpen
  BY <1>1 DEF Rd!Closes, Rd!isCircuitOpen
<1>2. CASE ~Rd!isCircuitOpen
  <2> DEFINE attempts == (IF open THEN 0 ELSE attemptsSinceOpen) + 1
  <2>1. /\ status' = "reconnecting" /\ left' \in 0..MaxDelay /\ openFor' = 0
        /\ open' = (attempts >= MAX_RECONNECT_ATTEMPTS)
        /\ attemptsSinceOpen' = IF attempts >= MAX_RECONNECT_ATTEMPTS THEN 0 ELSE attempts
    BY <1>2 DEF Rd!Closes, Rd!Trips
  <2>2. attempts = tries + 1 /\ attempts \in Nat /\ tries < MAX_RECONNECT_ATTEMPTS
    BY <1>2 DEF Rd!isCircuitOpen
  <2> HIDE DEF attempts
  <2>3. CASE attempts >= MAX_RECONNECT_ATTEMPTS
    <3>1. open' /\ open' \in BOOLEAN /\ attemptsSinceOpen' = 0
      BY <2>1, <2>3
    <3>2. QED BY <2>1, <2>2, <3>1
  <2>4. CASE ~(attempts >= MAX_RECONNECT_ATTEMPTS)
    <3>1. attemptsSinceOpen' = attempts
      BY <2>1, <2>4
    <3>2. (attempts >= MAX_RECONNECT_ATTEMPTS) \in BOOLEAN
      OBVIOUS
    <3>3. open' = (attempts >= MAX_RECONNECT_ATTEMPTS)
      BY ONLY <2>1, Zenon
    <3>4. ~open' /\ open' \in BOOLEAN
      BY ONLY <2>4, <3>2, <3>3, Zenon
    <3>5. QED BY <2>1, <2>2, <2>4, <3>1, <3>4
  <2>5. QED BY <2>3, <2>4
<1>3. QED BY <1>1, <1>2

\* Every event of the client and every mark in the registry.
LEMMA QueueKeeps == QueueInv /\ [Rd!Next]_(Rd!vars) => QueueInv'
<1> SUFFICES ASSUME QueueInv, [Rd!Next]_(Rd!vars) PROVE QueueInv'
  OBVIOUS
<1> USE ServiceConstants DEF Rd!HealthAssumption, Rd!ClientAssumption
<1>1. CASE Rd!ClientDown
  <2>1. connected' = FALSE /\ UNCHANGED << initialized, backlogged, scheduler, worker, gone, tries >>
        /\ status \in {"connected", "connecting"} /\ Rd!Closes
    BY <1>1 DEF Rd!ClientDown, Rd!Breaks, Rd!ConnectFails, Rd!markRedisDisconnected, Rd!Telemetry
  <2>2. ~connected' /\ connected' \in BOOLEAN
    BY <2>1, Zenon
  <2>3. Rd!ClientTypeOK' /\ AttemptsKnown'
    BY <2>1, ClosesKeeps
  <2>4. QED BY <2>1, <2>2, <2>3 DEF QueueInv, HealthTyped, RegistryKnows
<1>2. CASE Rd!ClientUp
  <2>1. /\ status = "connecting" /\ status' = "connected" /\ left' = 0 /\ attemptsSinceOpen' = 0 /\ tries' = 0
        /\ UNCHANGED << open, openFor, initialized, backlogged, scheduler, worker, gone >>
    BY <1>2 DEF Rd!ClientUp, Rd!Connects, Rd!markRedisConnected, Rd!Telemetry
  <2>2. connected' \in BOOLEAN
    BY <1>2, Zenon DEF Rd!ClientUp, Rd!markRedisConnected
  <2>3. Rd!ClientTypeOK' /\ AttemptsKnown'
    BY <2>1 DEF QueueInv, HealthTyped, Rd!ClientTypeOK, AttemptsKnown
  <2>4. QED BY <2>1, <2>2, <2>3 DEF QueueInv, HealthTyped, RegistryKnows
<1>3. CASE Rd!ClientRetries
  <2>1. /\ status = "reconnecting" /\ left = 0 /\ status' = "connecting" /\ left' = ConnectTimeout /\ tries' = tries + 1
        /\ UNCHANGED << open, openFor, attemptsSinceOpen, connected, initialized, backlogged, scheduler, worker, gone >>
    BY <1>3 DEF Rd!ClientRetries, Rd!Reconnect, Rd!healthVars
  <2>2. Rd!ClientTypeOK' /\ AttemptsKnown'
    BY <2>1 DEF QueueInv, HealthTyped, Rd!ClientTypeOK, AttemptsKnown
  <2>3. QED BY <2>1, <2>2 DEF QueueInv, HealthTyped, RegistryKnows
<1>4. ASSUME UNCHANGED << status, left, open, openFor, attemptsSinceOpen, tries >>
      PROVE  Rd!ClientTypeOK' /\ AttemptsKnown'
  BY <1>4 DEF QueueInv, HealthTyped, Rd!ClientTypeOK, AttemptsKnown
<1>5. CASE Rd!scheduleRepeatableJobs \/ Rd!updateBacklog
  <2>1. initialized' \in BOOLEAN /\ backlogged' \in BOOLEAN
    BY <1>5 DEF Rd!scheduleRepeatableJobs, Rd!updateBacklog, QueueInv, HealthTyped
  <2>2. UNCHANGED << status, left, open, openFor, attemptsSinceOpen, tries, connected, scheduler, worker, gone >>
    BY <1>5 DEF Rd!scheduleRepeatableJobs, Rd!updateBacklog, Rd!clientVars
  <2>3. QED BY <1>4, <2>1, <2>2 DEF QueueInv, HealthTyped, RegistryKnows
<1>6. CASE Rd!markScheduler
  <2>1. scheduler' \in Report
    <3>1. scheduler.age \in 0..(staleAfter + 2)
      BY DEF QueueInv, HealthTyped, Report
    <3>2. /\ [active |-> TRUE, age |-> 0] \in Report
          /\ [active |-> FALSE, age |-> scheduler.age] \in Report
      BY <3>1 DEF Report
    <3>3. scheduler' = [active |-> TRUE, age |-> 0] \/ scheduler' = [active |-> FALSE, age |-> scheduler.age]
      BY <1>6 DEF Rd!markScheduler
    <3>4. QED BY <3>2, <3>3
  <2>2. UNCHANGED << status, left, open, openFor, attemptsSinceOpen, tries, connected, initialized, backlogged, worker, gone >>
    BY <1>6 DEF Rd!markScheduler, Rd!clientVars
  <2>3. QED BY <1>4, <2>1, <2>2 DEF QueueInv, HealthTyped, RegistryKnows
<1>7. ASSUME NEW w \in Workers, Rd!markWorker(w) PROVE QueueInv'
  <2>1. PICK active \in BOOLEAN : worker' = [worker EXCEPT ![w] = [active |-> active, age |-> 0]]
    BY <1>7 DEF Rd!markWorker
  <2>2. gone[w] = 0
        /\ UNCHANGED << status, left, open, openFor, attemptsSinceOpen, tries, connected, initialized, backlogged, scheduler,
                        gone >>
    BY <1>7 DEF Rd!markWorker, Rd!clientVars
  <2>3. [active |-> active, age |-> 0] \in Report
    BY DEF Report
  <2>4. worker' \in [Workers -> Report]
    BY <2>1, <2>3 DEF QueueInv, HealthTyped
  <2>5. RegistryKnows'
    BY <2>1, <2>2 DEF QueueInv, HealthTyped, RegistryKnows
  <2>6. QED BY <1>4, <2>2, <2>4, <2>5 DEF QueueInv, HealthTyped
<1>8. ASSUME NEW w \in Workers, Rd!WorkerDies(w) PROVE QueueInv'
  <2>1. gone[w] = 0 /\ gone' = [gone EXCEPT ![w] = 1]
        /\ UNCHANGED << status, left, open, openFor, attemptsSinceOpen, tries, connected, initialized, backlogged, scheduler,
                        worker >>
    BY <1>8 DEF Rd!WorkerDies, Rd!clientVars
  <2>2. worker[w].age \in Nat
    BY DEF QueueInv, HealthTyped, Report
  <2>3. QED BY <1>4, <2>1, <2>2 DEF QueueInv, HealthTyped, RegistryKnows
<1>9. CASE Rd!Tick
  <2>1. /\ Rd!TimePasses /\ UNCHANGED << connected, initialized, backlogged >>
        /\ scheduler' = [scheduler EXCEPT !.age = Rd!Older(@)]
        /\ worker' = [w \in Workers |-> [worker[w] EXCEPT !.age = Rd!Older(@)]]
        /\ gone' = [w \in Workers |-> IF gone[w] = 0 THEN 0 ELSE IF gone[w] <= staleAfter + 1 THEN gone[w] + 1 ELSE gone[w]]
    BY <1>9 DEF Rd!Tick, Rd!Old
  <2>2. Rd!ClientTypeOK' /\ AttemptsKnown' /\ status' = status
    BY <2>1 DEF Rd!TimePasses, QueueInv, HealthTyped, Rd!ClientTypeOK, AttemptsKnown
  <2>3. \A n \in 0..(staleAfter + 2) : Rd!Older(n) \in 0..(staleAfter + 2)
    BY DEF Rd!Older
  <2>4. scheduler' \in Report /\ worker' \in [Workers -> Report]
    BY <2>1, <2>3 DEF QueueInv, HealthTyped, Report
  <2>5. gone' \in [Workers -> 0..(staleAfter + 2)]
    BY <2>1 DEF QueueInv, HealthTyped
  <2>6. ASSUME NEW w \in Workers PROVE gone'[w] <= worker'[w].age + 1
    <3>1. worker[w].age \in 0..(staleAfter + 2) /\ gone[w] \in 0..(staleAfter + 2) /\ gone[w] <= worker[w].age + 1
      BY DEF QueueInv, HealthTyped, RegistryKnows, Report
    <3>2. worker'[w].age = Rd!Older(worker[w].age)
      BY <2>1 DEF QueueInv, HealthTyped, Report
    <3>3. gone'[w] = IF gone[w] = 0 THEN 0 ELSE IF gone[w] <= staleAfter + 1 THEN gone[w] + 1 ELSE gone[w]
      BY <2>1
    <3>4. QED BY <3>1, <3>2, <3>3 DEF Rd!Older
  <2>7. RegistryKnows'
    BY <2>1, <2>2, <2>6 DEF QueueInv, RegistryKnows
  <2>8. QED BY <2>1, <2>2, <2>4, <2>5, <2>7 DEF QueueInv, HealthTyped
<1>10. CASE UNCHANGED Rd!vars
  <2>1. UNCHANGED << status, left, open, openFor, attemptsSinceOpen, tries, connected, initialized, backlogged, scheduler, worker,
                     gone >>
    BY <1>10 DEF Rd!vars, Rd!clientVars, Rd!healthVars
  <2>2. QED BY <1>4, <2>1 DEF QueueInv, HealthTyped, RegistryKnows
<1>11. QED BY <1>1, <1>2, <1>3, <1>5, <1>6, <1>7, <1>8, <1>9, <1>10 DEF Rd!Next

\* The reconnects are the attempts the circuit counts, or the last of them.
LEMMA StormEnds == QueueInv => StormBounded
  BY ServiceConstants DEF QueueInv, HealthTyped, Rd!ClientTypeOK, AttemptsKnown, StormBounded, Rd!StormBounded,
     Rd!HealthAssumption, Rd!ClientAssumption

\* However connections break, attempts fail and the circuit opens, cools down and opens again, a client tries no more than
\* MAX_RECONNECT_ATTEMPTS times before it is connected again or has given up, for any limit and any delays that end before
\* the cooldown does.
THEOREM NoStorm == Rd!Spec => []StormBounded
  BY QueueStart, QueueKeeps, StormEnds, PTL DEF Rd!Spec

\* What makes the health green was said of a client that is connected, and of workers that are there or were a moment ago.
LEMMA GreenIsTrue == QueueInv => ReadyIsTrue
<1> SUFFICES ASSUME QueueInv, NEW databaseAnswers \in BOOLEAN, Rd!ready(databaseAnswers) = "ready"
             PROVE  databaseAnswers /\ status = "connected" /\ \A w \in Rd!Reported : gone[w] <= staleAfter + 1
  BY DEF ReadyIsTrue, Rd!ReadyIsTrue
<1>1. databaseAnswers /\ Rd!computeStatus = "green"
  BY DEF Rd!ready
<1>2. connected /\ \A w \in Rd!Reported : Rd!Fresh(worker[w])
  BY <1>1 DEF Rd!computeStatus
<1>3. ASSUME NEW w \in Rd!Reported PROVE gone[w] <= staleAfter + 1
  <2>1. w \in Workers /\ worker[w].age <= staleAfter
    BY <1>2 DEF Rd!Reported, Rd!Fresh
  <2>2. gone[w] <= worker[w].age + 1 /\ gone[w] \in Nat /\ worker[w].age \in Nat /\ staleAfter \in Nat
    BY <2>1, ServiceConstants DEF QueueInv, HealthTyped, RegistryKnows, Report, Rd!HealthAssumption
  <2>3. QED BY <2>1, <2>2
<1>4. QED BY <1>1, <1>2, <1>3 DEF QueueInv, RegistryKnows

\* /health/ready never answers "ready" from what was left over by a connection that is lost or a worker that is gone.
THEOREM ReadinessIsTrue == Rd!Spec => []ReadyIsTrue
  BY QueueStart, QueueKeeps, GreenIsTrue, PTL DEF Rd!Spec
-----------------------------------------------------------------------------
(* Logins                                                                  *)

\* What a login read, and the counter, never run ahead of the passwords found wrong; a login that found its own password
\* wrong read less than that.
LoginInv ==
    /\ Lg!TypeOK /\ LockIsEarned
    /\ \A l \in Logins : /\ login[l].read <= failures
                         /\ login[l].pc = "wrong" => login[l].read < failures

LoginRecord == [pc: {"idle", "compare", "wrong", "right", "done"}, read: Nat]

\* No login has read anything.
LEMMA LoginStart == Lg!Init => LoginInv
<1> SUFFICES ASSUME Lg!Init PROVE LoginInv
  OBVIOUS
<1>1. failed_login_attempts = 0 /\ locked_until = "null" /\ failures = 0 /\ login = [l \in Logins |-> [pc |-> "idle", read |-> 0]]
  BY DEF Lg!Init
<1>2. loginActive \in BOOLEAN
  BY DEF Lg!Init
<1>3. QED BY <1>1, <1>2, ServiceConstants DEF LoginInv, Lg!TypeOK, LockIsEarned, Lg!LockIsEarned

\* One login moves on, or fails.
LEMMA LoginMoves ==
  ASSUME LoginInv, NEW l \in Logins, NEW to \in LoginRecord, login' = [login EXCEPT ![l] = to],
         failed_login_attempts' \in Nat, locked_until' \in {"null", "future", "past"}, loginActive' = loginActive,
         failures' \in {failures, failures + 1}, to.read <= failures', to.pc = "wrong" => to.read < failures',
         failed_login_attempts' <= failures', locked_until' # "null" => failures' >= MAX_FAILED_LOGINS
  PROVE  LoginInv'
<1> USE ServiceConstants DEF Lg!LimitAssumption
<1>1. login \in [Logins -> LoginRecord] /\ failures \in Nat
  BY DEF LoginInv, Lg!TypeOK, LoginRecord
<1>2. login' \in [Logins -> LoginRecord] /\ failures' \in Nat /\ failures <= failures'
  BY <1>1
<1>3. loginActive' \in BOOLEAN
  BY DEF LoginInv, Lg!TypeOK
<1>4. Lg!TypeOK'
  BY <1>2, <1>3 DEF Lg!TypeOK, LoginRecord
<1>5. ASSUME NEW k \in Logins PROVE login'[k].read <= failures' /\ (login'[k].pc = "wrong" => login'[k].read < failures')
  <2>1. CASE k = l
    BY <2>1, <1>1
  <2>2. CASE k # l
    <3>1. login'[k] = login[k] /\ login[k].read \in Nat
      BY <2>2, <1>1 DEF LoginRecord
    <3>2. QED BY <3>1, <1>1, <1>2 DEF LoginInv
  <2>3. QED BY <2>1, <2>2
<1>6. QED BY <1>4, <1>5 DEF LoginInv, LockIsEarned, Lg!LockIsEarned

\* Every step of a login, and the end of the lock.
LEMMA LoginKeeps == LoginInv /\ [Lg!Next]_(Lg!vars) => LoginInv'
<1> SUFFICES ASSUME LoginInv, [Lg!Next]_(Lg!vars) PROVE LoginInv'
  OBVIOUS
<1> USE ServiceConstants DEF Lg!LimitAssumption
<1>1. /\ login \in [Logins -> LoginRecord] /\ failures \in Nat /\ failed_login_attempts \in Nat
      /\ locked_until \in {"null", "future", "past"} /\ failed_login_attempts <= failures
      /\ locked_until # "null" => failures >= MAX_FAILED_LOGINS
  BY DEF LoginInv, Lg!TypeOK, LoginRecord, LockIsEarned, Lg!LockIsEarned
<1>2. ASSUME NEW l \in Logins PROVE login[l].read \in Nat /\ login[l].read <= failures
  BY <1>1 DEF LoginInv, LoginRecord
<1>3. ASSUME NEW l \in Logins, NEW pc_ \in {"idle", "compare", "wrong", "right", "done"}
      PROVE  /\ [login[l] EXCEPT !.pc = pc_] = [pc |-> pc_, read |-> login[l].read]
             /\ [pc |-> pc_, read |-> login[l].read] \in LoginRecord
             /\ Lg!Goes(l, pc_) => login' = [login EXCEPT ![l] = [pc |-> pc_, read |-> login[l].read]]
  <2>1. login[l] \in LoginRecord
    BY <1>1
  <2>2. /\ [login[l] EXCEPT !.pc = pc_] = [pc |-> pc_, read |-> login[l].read]
        /\ [pc |-> pc_, read |-> login[l].read] \in LoginRecord
    BY <2>1 DEF LoginRecord
  <2>3. QED BY <2>2, <1>1 DEF Lg!Goes
<1>4. ASSUME NEW l \in Logins, Lg!ReadUser(l) PROVE LoginInv'
  <2> DEFINE pc_ == IF loginActive /\ locked_until # "future" THEN "compare" ELSE "done"
             to == [pc |-> pc_, read |-> failed_login_attempts]
  <2>1. pc_ \in {"compare", "done"}
    OBVIOUS
  <2>2. /\ login' = [login EXCEPT ![l] = to]
        /\ UNCHANGED << failed_login_attempts, locked_until, loginActive, failures >>
    BY <1>4 DEF Lg!ReadUser, Lg!Row
  <2>3. to \in LoginRecord /\ to.read = failed_login_attempts /\ to.pc # "wrong"
    BY <2>1, <1>1 DEF LoginRecord
  <2> HIDE DEF to
  <2>4. QED BY <2>2, <2>3, <1>1, LoginMoves
<1>5. ASSUME NEW l \in Logins, Lg!Compare(l) PROVE LoginInv'
  <2>1. PICK pc_ \in {"right", "wrong"} :
           Lg!Goes(l, pc_) /\ failures' = IF pc_ = "wrong" THEN failures + 1 ELSE failures
    BY <1>5 DEF Lg!Compare
  <2>2. UNCHANGED << failed_login_attempts, locked_until, loginActive >>
    BY <1>5 DEF Lg!Compare, Lg!Row
  <2> DEFINE to == [pc |-> pc_, read |-> login[l].read]
  <2>3. login' = [login EXCEPT ![l] = to] /\ to \in LoginRecord /\ to.read = login[l].read /\ to.pc = pc_
    BY <2>1, <1>3
  <2> HIDE DEF to
  <2>4. login[l].read \in Nat /\ login[l].read <= failures
    BY <1>2
  <2>5. failures' \in {failures, failures + 1} /\ failures <= failures' /\ failures' \in Nat
    BY <2>1, <1>1
  <2>6. to.read <= failures' /\ (to.pc = "wrong" => to.read < failures')
    BY <2>1, <2>3, <2>4, <1>1
  <2>7. /\ failed_login_attempts' \in Nat /\ failed_login_attempts' <= failures'
        /\ locked_until' \in {"null", "future", "past"}
        /\ locked_until' # "null" => failures' >= MAX_FAILED_LOGINS
    BY <2>2, <2>5, <1>1
  <2>8. QED BY ONLY LoginInv, <2>2, <2>3, <2>5, <2>6, <2>7, LoginMoves
<1>6. ASSUME NEW l \in Logins, Lg!RecordFailure(l) PROVE LoginInv'
  <2>1. /\ login[l].pc = "wrong" /\ Lg!Goes(l, "done") /\ failed_login_attempts' = login[l].read + 1
        /\ locked_until' = IF login[l].read + 1 >= MAX_FAILED_LOGINS THEN "future" ELSE "null"
        /\ UNCHANGED << loginActive, failures >>
    BY <1>6 DEF Lg!RecordFailure, Lg!At, Lg!LocksAt
  <2>2. login[l].read < failures
    BY <2>1 DEF LoginInv
  <2> DEFINE to == [pc |-> "done", read |-> login[l].read]
  <2>3. login' = [login EXCEPT ![l] = to] /\ to \in LoginRecord /\ to.read = login[l].read /\ to.pc = "done"
    BY <2>1, <1>3
  <2> HIDE DEF to
  <2>4. login[l].read \in Nat
    BY <1>2
  <2>5. /\ failed_login_attempts' \in Nat /\ failed_login_attempts' <= failures
        /\ locked_until' # "null" => failures >= MAX_FAILED_LOGINS
    BY <2>1, <2>2, <2>4, <1>1
  <2>6. failures' = failures /\ to.read <= failures' /\ locked_until' \in {"null", "future", "past"}
    BY <2>1, <2>3, <1>2
  <2>7. QED BY ONLY LoginInv, <2>1, <2>3, <2>5, <2>6, LoginMoves
<1>7. ASSUME NEW l \in Logins, Lg!RecordSuccess(l) \/ Lg!StatementFails(l) PROVE LoginInv'
  <2>1. /\ Lg!Goes(l, "done") /\ UNCHANGED << loginActive, failures >>
        /\ \/ failed_login_attempts' = 0 /\ locked_until' = "null"
           \/ UNCHANGED << failed_login_attempts, locked_until >>
    BY <1>7 DEF Lg!RecordSuccess, Lg!StatementFails, Lg!Row
  <2> DEFINE to == [pc |-> "done", read |-> login[l].read]
  <2>3. login' = [login EXCEPT ![l] = to] /\ to \in LoginRecord /\ to.read = login[l].read /\ to.pc = "done"
    BY <2>1, <1>3
  <2> HIDE DEF to
  <2>4. to.read <= failures
    BY <2>3, <1>2
  <2>5. /\ failed_login_attempts' \in Nat /\ failed_login_attempts' <= failures'
        /\ locked_until' \in {"null", "future", "past"}
        /\ locked_until' # "null" => failures' >= MAX_FAILED_LOGINS
        /\ failures' = failures /\ loginActive' = loginActive
    BY <2>1, <1>1
  <2>6. QED BY ONLY LoginInv, <2>3, <2>4, <2>5, LoginMoves
<1>8. CASE Lg!LockEnds
  <2>1. /\ locked_until = "future" /\ locked_until' = "past"
        /\ UNCHANGED << failed_login_attempts, loginActive, login, failures >>
    BY <1>8 DEF Lg!LockEnds
  <2>2. QED BY <2>1 DEF LoginInv, Lg!TypeOK, LockIsEarned, Lg!LockIsEarned
<1>9. CASE UNCHANGED Lg!vars
  BY <1>9 DEF Lg!vars, LoginInv, Lg!TypeOK, LockIsEarned, Lg!LockIsEarned
<1>10. QED BY <1>4, <1>5, <1>6, <1>7, <1>8, <1>9 DEF Lg!Next

\* LockIsEarned, for any number of overlapping logins and any limit: the account is locked only after that many wrong
\* passwords.
THEOREM LocksAreEarned == Lg!Spec => []LockIsEarned
<1>1. LoginInv => LockIsEarned
  BY DEF LoginInv
<1>2. QED BY LoginStart, LoginKeeps, <1>1, PTL DEF Lg!Spec

-----------------------------------------------------------------------------
(* Tokens and their revocation                                             *)

\* A revocation that was on record stays on record, and a request behind the check of PostgreSQL for which one was on record
\* had a query fail.
SessionInv ==
    /\ Ss!TypeOK
    /\ \A q \in TokenRequests :
           tokenRequest[q].late => /\ Ss!Revoked(tokenRequest[q].token)
                                   /\ tokenRequest[q].pc \in {"password", "accepted"} => tokenRequest[q].blind

TokenRecord == [pc: {"idle", "redis", "database", "password", "accepted"}, token: Ss!Times \union {0},
                late: BOOLEAN, blind: BOOLEAN]

\* No request, no token and no revocation.
LEMMA SessionStart == Ss!Init => SessionInv
<1> SUFFICES ASSUME Ss!Init PROVE SessionInv
  OBVIOUS
<1> USE ServiceConstants DEF Ss!BoundsAssumption
<1>1. /\ now = 1 /\ tokens = {} /\ redisMark = {} /\ redisBlacklist = {} /\ marks = {} /\ blacklist = {}
      /\ password_changed_at = {} /\ revoker = "idle" /\ revocations = 0 /\ redisReady \in BOOLEAN
      /\ tokenRequest = [q \in TokenRequests |-> [pc |-> "idle", token |-> 0, late |-> FALSE, blind |-> FALSE]]
  BY DEF Ss!Init, Ss!Idle, Ss!None
<1>2. [pc |-> "idle", token |-> 0, late |-> FALSE, blind |-> FALSE] \in TokenRecord
  BY DEF TokenRecord
<1>3. tokenRequest \in [TokenRequests -> TokenRecord]
  BY <1>1, <1>2
<1>4. Ss!TypeOK
  BY <1>1, <1>3 DEF Ss!TypeOK, TokenRecord, Ss!Times, Ss!None
<1>5. QED BY <1>1, <1>4 DEF SessionInv

\* Time passes, tokens are issued and revoked, and Redis changes: nothing recorded in PostgreSQL is forgotten.
LEMMA RecordsStay ==
  ASSUME SessionInv, tokenRequest' = tokenRequest, marks \subseteq marks', blacklist \subseteq blacklist', Ss!TypeOK'
  PROVE  SessionInv'
BY DEF SessionInv, Ss!Revoked

\* One request moves on.
LEMMA TokenMoves ==
  ASSUME SessionInv, NEW q \in TokenRequests, NEW to \in TokenRecord, tokenRequest' = [tokenRequest EXCEPT ![q] = to],
         UNCHANGED << now, tokens, redisReady, redisMark, redisBlacklist, marks, blacklist, password_changed_at, revoker,
                      revocations >>,
         to.late => Ss!Revoked(to.token),
         to.late => (to.pc \in {"password", "accepted"} => to.blind)
  PROVE  SessionInv'
<1>1. tokenRequest \in [TokenRequests -> TokenRecord]
  BY DEF SessionInv, Ss!TypeOK, TokenRecord, Ss!None
<1>2. tokenRequest' \in [TokenRequests -> TokenRecord]
  BY <1>1
<1>3. Ss!TypeOK'
  BY <1>2 DEF SessionInv, Ss!TypeOK, TokenRecord, Ss!None
<1>4. \A token_ : Ss!Revoked(token_)' <=> Ss!Revoked(token_)
  BY DEF Ss!Revoked
<1>5. ASSUME NEW k \in TokenRequests, tokenRequest'[k].late
      PROVE  /\ Ss!Revoked(tokenRequest'[k].token)
             /\ tokenRequest'[k].pc \in {"password", "accepted"} => tokenRequest'[k].blind
  <2>1. CASE k = q
    BY <2>1, <1>1, <1>5
  <2>2. CASE k # q
    <3>1. tokenRequest'[k] = tokenRequest[k]
      BY <2>2, <1>1
    <3>2. QED BY <3>1, <1>5 DEF SessionInv
  <2>3. QED BY <2>1, <2>2
<1>6. QED BY <1>3, <1>4, <1>5 DEF SessionInv, Ss!Revoked

\* A token is not older than the second it was issued in, so a mark made after the token is made after that second.
LEMMA SecondsRoundDown == \A n \in Nat : Ss!IssuedAt(n) \in Nat /\ Ss!IssuedAt(n) <= n
<1> SUFFICES ASSUME NEW n \in Nat PROVE Ss!IssuedAt(n) \in Nat /\ Ss!IssuedAt(n) <= n
  OBVIOUS
<1>1. n \div 2 \in Nat /\ 2 * (n \div 2) <= n
  BY SMT
<1>2. QED BY <1>1 DEF Ss!IssuedAt

\* Every step of a request, of a revocation and of Redis.
LEMMA SessionKeeps == SessionInv /\ [Ss!Next]_(Ss!vars) => SessionInv'
<1> SUFFICES ASSUME SessionInv, [Ss!Next]_(Ss!vars) PROVE SessionInv'
  OBVIOUS
<1> USE ServiceConstants DEF Ss!BoundsAssumption
<1>1. /\ tokenRequest \in [TokenRequests -> TokenRecord] /\ now \in Ss!Times /\ tokens \subseteq Ss!Times
      /\ redisReady \in BOOLEAN /\ redisMark \subseteq Ss!Times /\ redisBlacklist \subseteq tokens
      /\ marks \subseteq Ss!Times /\ blacklist \subseteq tokens /\ password_changed_at \subseteq Ss!Times
      /\ revoker \in {"idle", "redis", "database"} /\ revocations \in 0..MaxRevocations
  BY DEF SessionInv, Ss!TypeOK, TokenRecord, Ss!None
<1>2. ASSUME tokenRequest' = tokenRequest, now' \in Ss!Times, tokens' \subseteq Ss!Times, redisReady' \in BOOLEAN,
             redisMark' \subseteq Ss!Times, redisBlacklist' \subseteq tokens', marks' \subseteq Ss!Times,
             blacklist' \subseteq tokens', password_changed_at' \subseteq Ss!Times,
             revoker' \in {"idle", "redis", "database"}, revocations' \in 0..MaxRevocations,
             marks \subseteq marks', blacklist \subseteq blacklist'
      PROVE  SessionInv'
  <2>1. Ss!TypeOK'
    BY <1>1, <1>2 DEF Ss!TypeOK, TokenRecord, Ss!None
  <2>2. QED BY <1>2, <2>1, RecordsStay
<1>3. CASE Ss!generateToken
  BY <1>1, <1>2, <1>3 DEF Ss!generateToken, Ss!redis, Ss!database
<1>4. CASE Ss!changePassword \/ Ss!revokeAllSessions
  BY <1>1, <1>2, <1>4 DEF Ss!changePassword, Ss!revokeAllSessions, Ss!redis, Ss!database
<1>5. CASE Ss!RevokeInRedis
  <2>1. redisMark' = {now} \/ redisMark' = redisMark
    BY <1>5 DEF Ss!RevokeInRedis
  <2>2. QED BY <1>1, <1>2, <1>5, <2>1 DEF Ss!RevokeInRedis, Ss!redis, Ss!database
<1>6. CASE Ss!RevokeInDatabase
  <2>1. marks' = marks \union {now} \/ marks' = marks
    BY <1>6 DEF Ss!RevokeInDatabase
  <2>2. QED BY <1>1, <1>2, <1>6, <2>1 DEF Ss!RevokeInDatabase, Ss!redis
<1>7. ASSUME NEW token_ \in tokens, Ss!revokeToken(token_) PROVE SessionInv'
  <2>1. /\ blacklist' = blacklist \union {token_} \/ blacklist' = blacklist
        /\ redisBlacklist' = redisBlacklist \union {token_} \/ redisBlacklist' = redisBlacklist
    BY <1>7 DEF Ss!revokeToken
  <2>2. QED BY <1>1, <1>2, <1>7, <2>1 DEF Ss!revokeToken
<1>8. CASE Ss!RedisChanges
  <2>1. redisReady' = ~redisReady /\ UNCHANGED << now, tokens, marks, blacklist, password_changed_at, revoker, revocations,
                                                 tokenRequest >>
    BY <1>8 DEF Ss!RedisChanges, Ss!database
  <2>2. redisReady' \in BOOLEAN
    BY ONLY <2>1, Zenon
  <2>3. /\ redisMark' = redisMark \/ redisMark' = {}
        /\ redisBlacklist' = redisBlacklist \/ redisBlacklist' = {}
    BY <1>8 DEF Ss!RedisChanges
  <2>4. QED BY <1>1, <1>2, <2>1, <2>2, <2>3
<1>9. CASE Ss!Tick
  BY <1>1, <1>2, <1>9 DEF Ss!Tick, Ss!redis, Ss!database, Ss!Times
<1>10. ASSUME NEW q \in TokenRequests, Ss!Arrives(q) PROVE SessionInv'
  <2>1. PICK token_ \in tokens :
           tokenRequest' = [tokenRequest EXCEPT ![q] = [pc |-> "redis", token |-> token_, late |-> Ss!Revoked(token_),
                                                        blind |-> FALSE]]
    BY <1>10 DEF Ss!Arrives, Ss!Idle
  <2> DEFINE to == [pc |-> "redis", token |-> token_, late |-> Ss!Revoked(token_), blind |-> FALSE]
  <2>2. Ss!Revoked(token_) \in BOOLEAN
    BY DEF Ss!Revoked
  <2>3. to \in TokenRecord
    BY <2>2, <1>1 DEF TokenRecord
  <2>4. (to.late => Ss!Revoked(to.token)) /\ to.pc = "redis"
    OBVIOUS
  <2>5. tokenRequest' = [tokenRequest EXCEPT ![q] = to]
    BY <2>1
  <2> HIDE DEF to
  <2>6. UNCHANGED << now, tokens, redisReady, redisMark, redisBlacklist, marks, blacklist, password_changed_at, revoker,
                     revocations >>
    BY <1>10 DEF Ss!Arrives, Ss!redis, Ss!database
  <2>7. QED BY <2>3, <2>4, <2>5, <2>6, TokenMoves
<1>11. ASSUME NEW q \in TokenRequests, Ss!Rejects(q) \/ Ss!Answered(q), Ss!Server' = Ss!Server PROVE SessionInv'
  <2> DEFINE to == [pc |-> "idle", token |-> 0, late |-> FALSE, blind |-> FALSE]
  <2>1. tokenRequest' = [tokenRequest EXCEPT ![q] = to] /\ to \in TokenRecord /\ ~to.late
    BY <1>11 DEF Ss!Rejects, Ss!Answered, Ss!Idle, Ss!None, TokenRecord
  <2> HIDE DEF to
  <2>2. QED BY <1>11, <2>1, TokenMoves DEF Ss!Server, Ss!redis, Ss!database
<1>12. ASSUME NEW q \in TokenRequests, NEW pc_ \in {"database", "password", "accepted"}, NEW blind_ \in BOOLEAN,
              tokenRequest' = [tokenRequest EXCEPT ![q].pc = pc_, ![q].blind = blind_], Ss!Server' = Ss!Server,
              pc_ = "database" \/ blind_ \/ ~tokenRequest[q].late
       PROVE  SessionInv'
  <2> DEFINE to == [tokenRequest[q] EXCEPT !.pc = pc_, !.blind = blind_]
  <2>1. tokenRequest[q] \in TokenRecord
    BY <1>1
  <2>2. to \in TokenRecord /\ to.pc = pc_ /\ to.token = tokenRequest[q].token /\ to.late = tokenRequest[q].late
        /\ to.blind = blind_
    BY <2>1 DEF TokenRecord
  <2>3. tokenRequest' = [tokenRequest EXCEPT ![q] = to]
    BY <1>1, <1>12
  <2> HIDE DEF to
  <2>4. tokenRequest[q].late => Ss!Revoked(tokenRequest[q].token)
    BY DEF SessionInv
  <2>5. (to.late => Ss!Revoked(to.token)) /\ (to.late => (to.pc \in {"password", "accepted"} => to.blind))
    BY <2>2, <2>4, <1>12
  <2>6. QED BY <1>12, <2>2, <2>3, <2>5, TokenMoves DEF Ss!Server, Ss!redis, Ss!database
<1>13. ASSUME NEW q \in TokenRequests, NEW pc_ \in {"database", "password", "accepted"}, Ss!Passes(q, pc_),
              Ss!Server' = Ss!Server, pc_ = "database" \/ tokenRequest[q].blind \/ ~tokenRequest[q].late
       PROVE  SessionInv'
  <2>1. tokenRequest[q] \in TokenRecord
    BY <1>1
  <2>2. tokenRequest[q].blind \in BOOLEAN
        /\ [tokenRequest[q] EXCEPT !.pc = pc_] = [tokenRequest[q] EXCEPT !.pc = pc_, !.blind = tokenRequest[q].blind]
    BY <2>1 DEF TokenRecord
  <2>3. tokenRequest' = [tokenRequest EXCEPT ![q].pc = pc_, ![q].blind = tokenRequest[q].blind]
    BY <1>1, <1>13, <2>1, <2>2 DEF Ss!Passes
  <2>4. QED BY <1>12, <1>13, <2>2, <2>3
<1>14. ASSUME NEW q \in TokenRequests, Ss!AskRedis(q) PROVE SessionInv'
  BY <1>11, <1>13, <1>14 DEF Ss!AskRedis
<1>15. ASSUME NEW q \in TokenRequests, Ss!AskDatabase(q) PROVE SessionInv'
  <2>1. CASE Ss!Rejects(q)
    BY <1>11, <1>15, <2>1 DEF Ss!AskDatabase
  <2>2. CASE ~Ss!Rejects(q)
    <3>1. /\ Ss!Passes(q, "password") /\ Ss!Server' = Ss!Server
          /\ tokenRequest[q].token \notin blacklist
          /\ \A m \in marks : ~(m > Ss!IssuedAt(tokenRequest[q].token))
      BY <1>15, <2>2 DEF Ss!AskDatabase, Ss!MarkRevokes
    <3>2. tokenRequest[q] \in TokenRecord
      BY <1>1
    <3>3. tokenRequest[q].token \in Nat /\ \A m \in marks : m \in Nat
      BY <1>1, <3>2 DEF TokenRecord, Ss!Times
    <3>4. ~Ss!Revoked(tokenRequest[q].token)
      BY <3>1, <3>3, SecondsRoundDown DEF Ss!Revoked
    <3>5. ~tokenRequest[q].late
      BY <3>4 DEF SessionInv
    <3>6. QED BY <1>13, <3>1, <3>5
  <2>3. QED BY <2>1, <2>2
<1>16. ASSUME NEW q \in TokenRequests, Ss!isTokenBeforePasswordChange(q) PROVE SessionInv'
  <2>1. tokenRequest[q].pc = "password" /\ (Ss!Rejects(q) \/ Ss!Passes(q, "accepted")) /\ Ss!Server' = Ss!Server
    BY <1>16 DEF Ss!isTokenBeforePasswordChange
  <2>2. tokenRequest[q].blind \/ ~tokenRequest[q].late
    BY <2>1 DEF SessionInv
  <2>3. QED BY <1>11, <1>13, <2>1, <2>2
<1>17. ASSUME NEW q \in TokenRequests, Ss!QueryFails(q) PROVE SessionInv'
  <2> DEFINE pc_ == IF tokenRequest[q].pc = "database" THEN "password" ELSE "accepted"
  <2>1. pc_ \in {"database", "password", "accepted"}
    OBVIOUS
  <2>2. tokenRequest' = [tokenRequest EXCEPT ![q].pc = pc_, ![q].blind = TRUE] /\ Ss!Server' = Ss!Server
    BY <1>17 DEF Ss!QueryFails
  <2> HIDE DEF pc_
  <2>3. QED BY <1>12, <2>1, <2>2
<1>18. CASE UNCHANGED Ss!vars
  BY <1>18 DEF Ss!vars, SessionInv, Ss!TypeOK, Ss!Revoked
<1>19. ASSUME NEW q \in TokenRequests, Ss!Answered(q) PROVE SessionInv'
  BY <1>11, <1>19 DEF Ss!Answered
<1>20. QED BY <1>3, <1>4, <1>5, <1>6, <1>7, <1>8, <1>9, <1>10, <1>14, <1>15, <1>16, <1>17, <1>18, <1>19 DEF Ss!Next

\* RevokedIsRejected, for any number of requests, tokens and revocations: a token whose revocation was on record when the
\* request came in is accepted only if a query of that request failed.
THEOREM RevocationHolds == Ss!Spec => []RevokedIsRejected
<1>1. SessionInv => RevokedIsRejected
  BY DEF SessionInv, RevokedIsRejected, Ss!RevokedIsRejected
<1>2. QED BY SessionStart, SessionKeeps, <1>1, PTL DEF Ss!Spec

-----------------------------------------------------------------------------
(* The cached is_active flag                                               *)

\* A value on its way that is not the row's was read in this tick; a cached value that is not the row's is forgotten before
\* USER_ACTIVE_TTL has passed since the row changed.
ActivityInv ==
    /\ Ac!TypeOK
    /\ \A active \in sets : active # is_active => since = 0
    /\ cache.left > 0 /\ cache.value # is_active => cache.left + since <= UserActiveTTL

\* Nothing is cached.
LEMMA ActivityStart == Ac!Init => ActivityInv
<1> SUFFICES ASSUME Ac!Init PROVE ActivityInv
  OBVIOUS
<1>1. /\ since = UserActiveTTL /\ cache = [value |-> FALSE, left |-> 0] /\ sets = {} /\ is_active \in BOOLEAN
      /\ statusRequest = [q \in StatusRequests |-> "idle"]
  BY DEF Ac!Init, Ac!Absent
<1>2. QED BY <1>1, ServiceConstants DEF ActivityInv, Ac!TypeOK, Ac!TTLAssumption

\* Answers, SETs, changes of the row and the passing of time.
LEMMA ActivityKeeps == ActivityInv /\ [Ac!Next]_(Ac!vars) => ActivityInv'
<1> SUFFICES ASSUME ActivityInv, [Ac!Next]_(Ac!vars) PROVE ActivityInv'
  OBVIOUS
<1> USE ServiceConstants DEF Ac!TTLAssumption
<1>1. /\ is_active \in BOOLEAN /\ since \in 0..UserActiveTTL /\ cache \in [value: BOOLEAN, left: 0..UserActiveTTL]
      /\ cache.value \in BOOLEAN /\ cache.left \in 0..UserActiveTTL
      /\ sets \subseteq BOOLEAN
      /\ statusRequest \in [StatusRequests -> {"idle", "cache", "row", "accepted", "refused", "failed"}]
  BY DEF ActivityInv, Ac!TypeOK
<1>2. ASSUME NEW q \in StatusRequests, Ac!Arrives(q) \/ Ac!AskCache(q) \/ Ac!AskRow(q) \/ Ac!Answered(q)
      PROVE  ActivityInv'
  <2>1. statusRequest' \in [StatusRequests -> {"idle", "cache", "row", "accepted", "refused", "failed"}]
    BY <1>1, <1>2 DEF Ac!Arrives, Ac!AskCache, Ac!AskRow, Ac!Answered, Ac!Answers, Ac!Goes
  <2>2. (sets' = sets \union {is_active} \/ sets' = sets) /\ UNCHANGED << is_active, since, cache >>
    BY <1>2 DEF Ac!Arrives, Ac!AskCache, Ac!AskRow, Ac!Answered
  <2>3. sets' \subseteq BOOLEAN
    BY ONLY <1>1, <2>2, Zenon
  <2>4. \A active \in sets' : active # is_active => active \in sets
    BY <2>2
  <2>5. QED BY <2>1, <2>2, <2>3, <2>4 DEF ActivityInv, Ac!TypeOK
<1>3. CASE Ac!SetArrives
  <2>1. PICK active \in sets : /\ sets' = sets \ {active}
                               /\ cache' = [value |-> active, left |-> UserActiveTTL] \/ cache' = cache
    BY <1>3 DEF Ac!SetArrives, Ac!Fill
  <2>2. UNCHANGED << is_active, since, statusRequest >>
    BY <1>3 DEF Ac!SetArrives
  <2>3. [value |-> active, left |-> UserActiveTTL] \in [value: BOOLEAN, left: 0..UserActiveTTL]
    BY <1>1
  <2>4. active # is_active => since = 0
    BY DEF ActivityInv
  <2>5. QED BY <1>1, <2>1, <2>2, <2>3, <2>4 DEF ActivityInv, Ac!TypeOK
<1>4. CASE Ac!ChangeStatus
  <2>1. is_active' = ~is_active /\ since' = 0 /\ UNCHANGED << cache, statusRequest, sets >>
    BY <1>4 DEF Ac!ChangeStatus
  <2>2. is_active' \in BOOLEAN
    BY ONLY <2>1, Zenon
  <2>3. QED BY <1>1, <2>1, <2>2 DEF ActivityInv, Ac!TypeOK
<1>5. CASE Ac!invalidateUserActiveCache
  BY <1>1, <1>5 DEF Ac!invalidateUserActiveCache, Ac!Absent, ActivityInv, Ac!TypeOK
<1>6. CASE Ac!Tick
  <2>1. /\ sets = {} /\ since' = (IF since < UserActiveTTL THEN since + 1 ELSE since)
        /\ cache' = IF cache.left > 1 THEN [cache EXCEPT !.left = @ - 1] ELSE [value |-> FALSE, left |-> 0]
        /\ UNCHANGED << is_active, statusRequest, sets >>
    BY <1>6 DEF Ac!Tick, Ac!Absent
  <2>2. CASE cache.left > 1
    <3>1. /\ cache' \in [value: BOOLEAN, left: 0..UserActiveTTL]
          /\ cache'.value = cache.value /\ cache'.left = cache.left - 1
      BY <1>1, <2>1, <2>2
    <3>2. QED BY <1>1, <2>1, <2>2, <3>1 DEF ActivityInv, Ac!TypeOK
  <2>3. CASE ~(cache.left > 1)
    BY <1>1, <2>1, <2>3 DEF ActivityInv, Ac!TypeOK
  <2>4. QED BY <2>2, <2>3
<1>7. CASE UNCHANGED Ac!vars
  BY <1>7 DEF Ac!vars, ActivityInv, Ac!TypeOK
<1>8. QED BY <1>2, <1>3, <1>4, <1>5, <1>6, <1>7 DEF Ac!Next

\* An answer that contradicts the row comes within USER_ACTIVE_TTL of a change of it.
ActiveFlagStep ==
    \A q \in StatusRequests :
        /\ statusRequest[q] # "accepted" /\ statusRequest'[q] = "accepted" => is_active \/ since < UserActiveTTL
        /\ statusRequest[q] # "refused" /\ statusRequest'[q] = "refused" => ~is_active \/ since < UserActiveTTL

\* Only AskCache and AskRow answer.
LEMMA AnswersAreFresh == ActivityInv /\ [Ac!Next]_(Ac!vars) => [ActiveFlagStep]_(Ac!vars)
<1> SUFFICES ASSUME ActivityInv, Ac!Next, NEW q \in StatusRequests
             PROVE  /\ statusRequest[q] # "accepted" /\ statusRequest'[q] = "accepted" => is_active \/ since < UserActiveTTL
                    /\ statusRequest[q] # "refused" /\ statusRequest'[q] = "refused" => ~is_active \/ since < UserActiveTTL
  BY DEF ActiveFlagStep
<1> USE ServiceConstants DEF Ac!TTLAssumption
<1>1. /\ is_active \in BOOLEAN /\ since \in 0..UserActiveTTL /\ cache.value \in BOOLEAN /\ cache.left \in 0..UserActiveTTL
      /\ statusRequest \in [StatusRequests -> {"idle", "cache", "row", "accepted", "refused", "failed"}]
  BY DEF ActivityInv, Ac!TypeOK
<1>2. cache.left > 0 /\ cache.value # is_active => since < UserActiveTTL
  BY <1>1 DEF ActivityInv
<1>3. ASSUME NEW k \in StatusRequests, Ac!AskCache(k) \/ Ac!AskRow(k),
             statusRequest'[q] # statusRequest[q], statusRequest'[q] \in {"accepted", "refused"}
      PROVE  \/ statusRequest'[q] = (IF cache.value THEN "accepted" ELSE "refused") /\ cache.left > 0
             \/ statusRequest'[q] = (IF is_active THEN "accepted" ELSE "refused")
  BY <1>1, <1>3 DEF Ac!AskCache, Ac!AskRow, Ac!Answers, Ac!Goes
<1>4. ASSUME statusRequest'[q] # statusRequest[q], statusRequest'[q] \in {"accepted", "refused"}
      PROVE  \E k \in StatusRequests : Ac!AskCache(k) \/ Ac!AskRow(k)
  <2>1. ASSUME NEW k \in StatusRequests, Ac!Arrives(k) \/ Ac!Answered(k) PROVE FALSE
    BY <1>1, <1>4, <2>1 DEF Ac!Arrives, Ac!Answered, Ac!Goes
  <2>2. ASSUME Ac!SetArrives \/ Ac!ChangeStatus \/ Ac!invalidateUserActiveCache \/ Ac!Tick PROVE FALSE
    BY <1>4, <2>2 DEF Ac!SetArrives, Ac!ChangeStatus, Ac!invalidateUserActiveCache, Ac!Tick
  <2>3. QED BY <2>1, <2>2 DEF Ac!Next
<1>5. QED BY <1>1, <1>2, <1>3, <1>4

\* ActiveFlagIsFresh, for any number of requests and any USER_ACTIVE_TTL.
THEOREM FlagIsFresh == Ac!Spec => ActiveFlagIsFresh
<1>1. ActivityInv /\ [Ac!Next]_(Ac!vars) => [ActiveFlagStep]_(Ac!vars)
  BY AnswersAreFresh
<1>2. Ac!Spec => [][ActiveFlagStep]_(Ac!vars)
  BY ActivityStart, ActivityKeeps, <1>1, PTL DEF Ac!Spec
<1>3. QED BY <1>2 DEF ActiveFlagIsFresh, Ac!ActiveFlagIsFresh, ActiveFlagStep

-----------------------------------------------------------------------------
(* The load shedding of the v3 runtime                                     *)

ArrivalRecord == [kind: {"probe", "booking", "other"}, pc: {"new", "booking", "handler", "shed", "done"}]

\* Outside a request both counters are zero; the request on the stack is counted once by each that has seen it.
LoadInv ==
    /\ Ld!TypeOK
    /\ stack = Nobody => globalRequests = 0 /\ bookingActiveRequests = 0
    /\ stack # Nobody => /\ arrival[stack].pc \in {"booking", "handler", "shed"}
                         /\ globalRequests = IF arrival[stack].kind = "probe" THEN 0 ELSE 1
                         /\ arrival[stack].pc = "booking" => bookingActiveRequests = 0

\* Nobody has arrived.
LEMMA LoadStart == Ld!Init => LoadInv
<1> SUFFICES ASSUME Ld!Init PROVE LoadInv
  OBVIOUS
<1> USE ServiceConstants DEF Ld!LoadAssumption
<1>1. /\ poolBusy = FALSE /\ refresh = "none" /\ stack = Nobody /\ globalRequests = 0 /\ bookingActiveRequests = 0
      /\ dbHealthCache = [isDbOverloaded |-> FALSE, age |-> DB_HEALTH_TTL + 2]
      /\ arrival \in [Arrivals -> [kind: {"probe", "booking", "other"}, pc: {"new"}]]
  BY DEF Ld!Init, Ld!NoCache
<1>2. [kind: {"probe", "booking", "other"}, pc: {"new"}] \subseteq ArrivalRecord
  BY DEF ArrivalRecord
<1>3. arrival \in [Arrivals -> ArrivalRecord]
  BY <1>1, <1>2
<1>4. poolBusy \in BOOLEAN
  BY ONLY <1>1, Zenon
<1>5. QED BY <1>1, <1>3, <1>4 DEF LoadInv, Ld!TypeOK, ArrivalRecord, Ld!Stale

\* A request moves to another point of its way.
LEMMA ArrivalMoves ==
  ASSUME LoadInv, NEW q \in Arrivals, NEW pc_ \in {"new", "booking", "handler", "shed", "done"}, Ld!Goes(q, pc_)
  PROVE  /\ arrival' \in [Arrivals -> ArrivalRecord]
         /\ arrival'[q].pc = pc_ /\ arrival'[q].kind = arrival[q].kind
         /\ \A k \in Arrivals \ {q} : arrival'[k] = arrival[k]
<1>1. arrival \in [Arrivals -> ArrivalRecord]
  BY DEF LoadInv, Ld!TypeOK, ArrivalRecord
<1>2. arrival[q] \in ArrivalRecord
  BY <1>1
<1> DEFINE to == [arrival[q] EXCEPT !.pc = pc_]
<1>3. to \in ArrivalRecord /\ to.pc = pc_ /\ to.kind = arrival[q].kind
  BY <1>2 DEF ArrivalRecord
<1>4. arrival' = [arrival EXCEPT ![q] = to]
  BY DEF Ld!Goes
<1> HIDE DEF to
<1>5. QED BY <1>1, <1>3, <1>4

\* Every step of a request, of the refresh and of the pool.
LEMMA LoadKeeps == LoadInv /\ [Ld!Next]_(Ld!vars) => LoadInv'
<1> SUFFICES ASSUME LoadInv, [Ld!Next]_(Ld!vars) PROVE LoadInv'
  OBVIOUS
<1> USE ServiceConstants DEF Ld!LoadAssumption
<1>1. /\ poolBusy \in BOOLEAN /\ dbHealthCache \in [isDbOverloaded: BOOLEAN, age: 0..(DB_HEALTH_TTL + 2)]
      /\ refresh \in {"none", "busy", "free"} /\ stack \in Arrivals \union {Nobody}
      /\ globalRequests \in 0..1 /\ bookingActiveRequests \in 0..1 /\ arrival \in [Arrivals -> ArrivalRecord]
  BY DEF LoadInv, Ld!TypeOK, ArrivalRecord, Ld!Stale
<1>2. ASSUME poolBusy' \in BOOLEAN, dbHealthCache' \in [isDbOverloaded: BOOLEAN, age: 0..(DB_HEALTH_TTL + 2)],
             refresh' \in {"none", "busy", "free"}, stack' \in Arrivals \union {Nobody},
             globalRequests' \in 0..1, bookingActiveRequests' \in 0..1, arrival' \in [Arrivals -> ArrivalRecord]
      PROVE  Ld!TypeOK'
  BY <1>2 DEF Ld!TypeOK, ArrivalRecord, Ld!Stale
<1>3. ASSUME NEW q \in Arrivals, Ld!backpressureMiddleware(q) PROVE LoadInv'
  <2>1. /\ stack = Nobody /\ arrival[q].pc = "new" /\ stack' = q
        /\ UNCHANGED << poolBusy, dbHealthCache, bookingActiveRequests >>
    BY <1>3 DEF Ld!backpressureMiddleware
  <2>2. refresh' \in {"none", "busy", "free"}
    <3>1. Ld!RefreshIfOld => refresh' \in {"none", "busy", "free"}
      BY <1>1 DEF Ld!RefreshIfOld, Ld!refreshDbHealthCache
    <3>2. QED BY <1>1, <1>3, <3>1 DEF Ld!backpressureMiddleware
  <2>3. q # Nobody /\ globalRequests = 0 /\ bookingActiveRequests = 0
    BY <2>1 DEF LoadInv
  <2>4. CASE arrival[q].kind = "probe"
    <3>1. Ld!Goes(q, "handler") /\ UNCHANGED globalRequests
      BY <1>3, <2>4 DEF Ld!backpressureMiddleware
    <3>2. QED BY <1>1, <1>2, <2>1, <2>2, <2>3, <2>4, <3>1, ArrivalMoves DEF LoadInv
  <2>5. CASE arrival[q].kind # "probe"
    <3>1. /\ globalRequests' = globalRequests + 1
          /\ \E pc_ \in {"shed", "booking", "handler"} : Ld!Goes(q, pc_)
      BY <1>3, <2>5 DEF Ld!backpressureMiddleware
    <3>2. PICK pc_ \in {"shed", "booking", "handler"} : Ld!Goes(q, pc_)
      BY <3>1
    <3>3. QED BY <1>1, <1>2, <2>1, <2>2, <2>3, <2>5, <3>1, <3>2, ArrivalMoves DEF LoadInv
  <2>6. QED BY <2>4, <2>5
<1>4. ASSUME NEW q \in Arrivals, Ld!bookingBackpressureMiddleware(q) PROVE LoadInv'
  <2>1. /\ stack = q /\ arrival[q].pc = "booking" /\ bookingActiveRequests' = bookingActiveRequests + 1
        /\ \E pc_ \in {"shed", "handler"} : Ld!Goes(q, pc_)
        /\ UNCHANGED << poolBusy, dbHealthCache, refresh, stack, globalRequests >>
    BY <1>4 DEF Ld!bookingBackpressureMiddleware
  <2>2. PICK pc_ \in {"shed", "handler"} : Ld!Goes(q, pc_)
    BY <2>1
  <2>3. q # Nobody /\ bookingActiveRequests = 0
    BY <2>1 DEF LoadInv
  <2>4. QED BY <1>1, <1>2, <2>1, <2>2, <2>3, ArrivalMoves DEF LoadInv
<1>5. ASSUME NEW q \in Arrivals, Ld!CountsOut(q) PROVE LoadInv'
  <2>1. /\ stack = q /\ stack' = Nobody /\ UNCHANGED << poolBusy, dbHealthCache, refresh, arrival >>
        /\ globalRequests' = IF arrival[q].kind = "probe" THEN globalRequests ELSE globalRequests - 1
    BY <1>5 DEF Ld!CountsOut
  <2>2. bookingActiveRequests' = IF bookingActiveRequests > 0 THEN bookingActiveRequests - 1 ELSE 0
    BY <1>5 DEF Ld!CountsOut
  <2>3. globalRequests' = 0 /\ bookingActiveRequests' = 0
    BY <1>1, <2>1, <2>2 DEF LoadInv
  <2>4. QED BY <1>1, <1>2, <2>1, <2>3 DEF LoadInv
<1>6. ASSUME NEW q \in Arrivals, Ld!Handled(q) PROVE LoadInv'
  <2>1. /\ stack = Nobody /\ Ld!Goes(q, "done")
        /\ UNCHANGED << poolBusy, dbHealthCache, refresh, stack, globalRequests, bookingActiveRequests >>
    BY <1>6 DEF Ld!Handled
  <2>2. QED BY <1>1, <1>2, <2>1, ArrivalMoves DEF LoadInv
<1>7. CASE Ld!CacheFilled
  <2>1. /\ dbHealthCache' = [isDbOverloaded |-> refresh = "busy", age |-> 0] /\ refresh' = "none"
        /\ UNCHANGED << poolBusy, stack, globalRequests, bookingActiveRequests, arrival >>
    BY <1>7 DEF Ld!CacheFilled
  <2>2. (refresh = "busy") \in BOOLEAN
    OBVIOUS
  <2>3. dbHealthCache' \in [isDbOverloaded: BOOLEAN, age: 0..(DB_HEALTH_TTL + 2)]
    BY <2>1, <2>2
  <2>4. QED BY <1>1, <1>2, <2>1, <2>3 DEF LoadInv
<1>8. CASE Ld!PoolChanges
  <2>1. poolBusy' = ~poolBusy /\ UNCHANGED << dbHealthCache, refresh, stack, globalRequests, bookingActiveRequests, arrival >>
    BY <1>8 DEF Ld!PoolChanges
  <2>2. poolBusy' \in BOOLEAN
    BY ONLY <2>1, Zenon
  <2>3. QED BY <1>1, <1>2, <2>1, <2>2 DEF LoadInv
<1>9. CASE Ld!Tick
  <2>1. /\ dbHealthCache.age < DB_HEALTH_TTL + 1 /\ dbHealthCache' = [dbHealthCache EXCEPT !.age = dbHealthCache.age + 1]
        /\ UNCHANGED << poolBusy, refresh, stack, globalRequests, bookingActiveRequests, arrival >>
    BY <1>9 DEF Ld!Tick, Ld!Stale
  <2>2. dbHealthCache' \in [isDbOverloaded: BOOLEAN, age: 0..(DB_HEALTH_TTL + 2)]
    BY <1>1, <2>1
  <2>3. QED BY <1>1, <1>2, <2>1, <2>2 DEF LoadInv
<1>10. CASE UNCHANGED Ld!vars
  <2>1. UNCHANGED << poolBusy, dbHealthCache, refresh, stack, globalRequests, bookingActiveRequests, arrival >>
    BY <1>10 DEF Ld!vars
  <2>2. QED BY <1>1, <1>2, <2>1 DEF LoadInv
<1>11. QED BY <1>3, <1>4, <1>5, <1>6, <1>7, <1>8, <1>9, <1>10 DEF Ld!Next

\* The types of LoadShedder: the two counters never pass one, because every request is counted out before the next comes in,
\* whatever its handler goes on doing.
THEOREM CountersStayLow == Ld!Spec => []Ld!TypeOK
<1>1. LoadInv => Ld!TypeOK
  BY DEF LoadInv
<1>2. QED BY LoadStart, LoadKeeps, <1>1, PTL DEF Ld!Spec

-----------------------------------------------------------------------------
(* The parts together                                                      *)

KeyInv == IInv /\ Counted

ServiceInv == KeyInv /\ ServerInv /\ QueueInv /\ LoginInv /\ SessionInv /\ ActivityInv /\ LoadInv

\* The requests of one key.
LEMMA KeyKeeps == KeyInv /\ [Next]_vars => KeyInv'
  BY ServiceConstants, StepKeeps, CountedKeeps DEF KeyInv, IInv

\* A part that is not followed stays as it is.
LEMMA OthersStay ==
  /\ KeyInv /\ UNCHANGED keys => KeyInv'
  /\ ServerInv /\ UNCHANGED server => ServerInv'
  /\ QueueInv /\ UNCHANGED queue => QueueInv'
  /\ LoginInv /\ UNCHANGED account => LoginInv'
  /\ SessionInv /\ UNCHANGED session => SessionInv'
  /\ ActivityInv /\ UNCHANGED activity => ActivityInv'
  /\ LoadInv /\ UNCHANGED load => LoadInv'
<1>1. /\ UNCHANGED keys => UNCHANGED vars
      /\ UNCHANGED server => UNCHANGED Sv!vars
      /\ UNCHANGED queue => UNCHANGED Rd!vars
  BY DEF keys, vars, redis, server, Sv!vars, Sv!bpVars, Sv!slVars, queue, Rd!vars, Rd!clientVars, Rd!healthVars
<1>2. /\ UNCHANGED account => UNCHANGED Lg!vars
      /\ UNCHANGED session => UNCHANGED Ss!vars
      /\ UNCHANGED activity => UNCHANGED Ac!vars
      /\ UNCHANGED load => UNCHANGED Ld!vars
  BY DEF account, session, activity, load, Lg!vars, Ss!vars, Ac!vars, Ld!vars
<1>3. QED BY <1>1, <1>2, KeyKeeps, ServerKeeps, QueueKeeps, LoginKeeps, SessionKeeps, ActivityKeeps, LoadKeeps

\* One step of the service is a step of one part.
LEMMA ServiceKeeps == ServiceInv /\ [ServiceNext]_service => ServiceInv'
<1> SUFFICES ASSUME ServiceInv, [ServiceNext]_service PROVE ServiceInv'
  OBVIOUS
<1>1. CASE KeyStep(Next)
  BY <1>1, KeyKeeps, OthersStay DEF KeyStep, ServiceInv
<1>2. CASE ServerStep(Sv!Next)
  BY <1>2, ServerKeeps, OthersStay DEF ServerStep, ServiceInv
<1>3. CASE QueueStep(Rd!Next)
  BY <1>3, QueueKeeps, OthersStay DEF QueueStep, ServiceInv
<1>4. CASE LoginStep(Lg!Next)
  BY <1>4, LoginKeeps, OthersStay DEF LoginStep, ServiceInv
<1>5. CASE SessionStep(Ss!Next)
  BY <1>5, SessionKeeps, OthersStay DEF SessionStep, ServiceInv
<1>6. CASE ActivityStep(Ac!Next)
  BY <1>6, ActivityKeeps, OthersStay DEF ActivityStep, ServiceInv
<1>7. CASE LoadStep(Ld!Next)
  BY <1>7, LoadKeeps, OthersStay DEF LoadStep, ServiceInv
<1>8. CASE UNCHANGED service
  BY <1>8, OthersStay DEF service, ServiceInv
<1>9. QED BY <1>1, <1>2, <1>3, <1>4, <1>5, <1>6, <1>7, <1>8 DEF ServiceNext

\* The types of the parts follow.
LEMMA ServiceTyped == ServiceInv => ServiceTypeOK
<1> SUFFICES ASSUME ServiceInv PROVE ServiceTypeOK
  OBVIOUS
<1>1. TypeOK
  BY TypesFollow, ServiceConstants DEF ServiceInv, KeyInv
<1>2. Rd!TypeOK
  <2>1. HealthTyped
    BY DEF ServiceInv, QueueInv
  <2>2. \A w \in Workers : worker[w] \in Report
    BY <2>1 DEF HealthTyped
  <2>3. {connected, initialized, backlogged} \subseteq BOOLEAN
    BY <2>1, Zenon DEF HealthTyped
  <2>4. {scheduler} \union {worker[w] : w \in Workers} \subseteq Report
    BY <2>1, <2>2 DEF HealthTyped
  <2>5. staleAfter + 2 = Rd!Old + 1
    BY ServiceConstants DEF Rd!Old, Rd!HealthAssumption
  <2>6. Report = [active: BOOLEAN, age: 0..(Rd!Old + 1)]
    BY <2>5 DEF Report
  <2>7. gone \in [Workers -> 0..(Rd!Old + 1)]
    BY <2>1, ServiceConstants DEF HealthTyped, Rd!Old, Rd!HealthAssumption
  <2>8. QED BY <2>1, <2>3, <2>4, <2>6, <2>7 DEF HealthTyped, Rd!TypeOK
<1>3. QED BY <1>1, <1>2 DEF ServiceTypeOK, ServiceInv, ServerInv, LoginInv, SessionInv, ActivityInv, LoadInv

\* Whichever part a behaviour follows, the state of all of them is well typed and each keeps what it promises.
THEOREM ServiceHolds ==
  ServiceSpec => /\ [](/\ ServiceTypeOK /\ ReplaysAreHonest /\ OneAtATime /\ SlotsCounted /\ PoolOutlivesClients
                       /\ StormBounded /\ ReadyIsTrue /\ LockIsEarned /\ RevokedIsRejected)
                 /\ ActiveFlagIsFresh
<1>1. ServiceInit => ServiceInv
  BY Start, CountedStart, ServerStart, QueueStart, LoginStart, SessionStart, ActivityStart, LoadStart
     DEF ServiceInit, ServiceInv, KeyInv
<1>2. ServiceInv => /\ ReplaysAreHonest /\ OneAtATime /\ SlotsCounted /\ PoolOutlivesClients
                    /\ StormBounded /\ ReadyIsTrue /\ LockIsEarned /\ RevokedIsRejected
  <2> SUFFICES ASSUME ServiceInv
               PROVE  /\ ReplaysAreHonest /\ OneAtATime /\ SlotsCounted /\ PoolOutlivesClients
                      /\ StormBounded /\ ReadyIsTrue /\ LockIsEarned /\ RevokedIsRejected
    OBVIOUS
  <2>1. ReplaysAreHonest /\ OneAtATime
    BY DEF ServiceInv, KeyInv, IInv, StoredIsExecuted, SentIsStored, LockedWhileRunning, ReplaysAreHonest, OneAtATime
  <2>2. SlotsCounted /\ LockIsEarned
    BY DEF ServiceInv, ServerInv, LoginInv
  <2>3. PoolOutlivesClients
    BY PoolEnds DEF ServiceInv
  <2>4. StormBounded /\ ReadyIsTrue
    BY StormEnds, GreenIsTrue DEF ServiceInv
  <2>5. RevokedIsRejected
    BY DEF ServiceInv, SessionInv, RevokedIsRejected, Ss!RevokedIsRejected
  <2>6. QED BY <2>1, <2>2, <2>3, <2>4, <2>5
<1>3. ServiceInv /\ [ServiceNext]_service => [ActiveFlagStep]_(Ac!vars)
  <2> SUFFICES ASSUME ServiceInv, [ServiceNext]_service PROVE [ActiveFlagStep]_(Ac!vars)
    OBVIOUS
  <2>1. CASE ActivityStep(Ac!Next)
    BY <2>1, AnswersAreFresh DEF ActivityStep, ServiceInv
  <2>2. CASE UNCHANGED activity
    BY <2>2 DEF activity, Ac!vars
  <2>3. QED BY <2>1, <2>2 DEF ServiceNext, KeyStep, ServerStep, QueueStep, LoginStep, SessionStep, LoadStep, service
<1>4. ServiceSpec => []ServiceInv
  BY <1>1, ServiceKeeps, PTL DEF ServiceSpec
<1>5. ServiceSpec => [][ActiveFlagStep]_(Ac!vars)
  BY <1>3, <1>4, PTL DEF ServiceSpec
<1>6. ServiceSpec => ActiveFlagIsFresh
  BY <1>5 DEF ActiveFlagIsFresh, Ac!ActiveFlagIsFresh, ActiveFlagStep
<1>7. QED BY <1>2, <1>4, <1>6, ServiceTyped, PTL

=============================================================================
