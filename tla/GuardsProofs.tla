----------------------------- MODULE GuardsProofs -----------------------------
(***************************************************************************)
(* Proofs about the parts of MCGuards, each for its own specification: the *)
(* journal for any number of overlapping attempts, the conflict counter    *)
(* for any number of requests and any limit, the rate limiter for any      *)
(* number of processes, the credentials for any number of requests, and    *)
(* the migrations for any number of deploys and files, whichever of them   *)
(* record themselves, repeat others or have a tail.                        *)
(***************************************************************************)
EXTENDS MCGuards, TokenBucketProofs, FiniteSetTheorems, WellFoundedInduction

-----------------------------------------------------------------------------
(* The journal                                                             *)

\* The key under which the provider knows the operation.
TheKey == [token |-> replay, by |-> "anyone"]

\* While no entry is removed, nobody acts before there is one, everyone calls with its token, and only its effect is there.
OneToken ==
    ~purging => IF entry = "absent"
                  THEN charged = {} /\ \A a \in Attempts : pc[a] = "idle"
                  ELSE /\ replay # 0 /\ charged \subseteq {TheKey}
                       /\ \A a \in Attempts : pc[a] \in {"inserted", "calling"} => token[a] = replay

JournalInv == Jr!TypeOK /\ OneToken /\ Jr!CompletedMeansCharged

\* Before the first attempt nothing has happened.
LEMMA JournalStart == Jr!Init => JournalInv
  BY DEF Jr!Init, JournalInv, Jr!TypeOK, OneToken, Jr!CompletedMeansCharged, Jr!Points, Jr!States, Jr!Keys

\* Every statement of an attempt, its death, and the removal of an entry.
LEMMA JournalKeeps == JournalInv /\ [Jr!Next]_(Jr!vars) => JournalInv'
<1> SUFFICES ASSUME JournalInv, [Jr!Next]_(Jr!vars) PROVE JournalInv'
  OBVIOUS
<1> USE DEF JournalInv, Jr!TypeOK, OneToken, Jr!CompletedMeansCharged, Jr!Points, Jr!States, Jr!Keys, TheKey, Jr!Goto,
            Jr!setting
<1>1. ASSUME NEW a \in Attempts, Jr!acquireInsert(a) PROVE JournalInv'
  BY <1>1 DEF Jr!acquireInsert
<1>2. ASSUME NEW a \in Attempts, Jr!acquireSelect(a) PROVE JournalInv'
  BY <1>2 DEF Jr!acquireSelect
<1>3. ASSUME NEW a \in Attempts, Jr!acquireExecuting(a) PROVE JournalInv'
  BY <1>3 DEF Jr!acquireExecuting, Jr!SetState
<1>4. ASSUME NEW a \in Attempts, Jr!CallProvider(a) PROVE JournalInv'
  <2>1. Jr!EffectKey(a) \in Jr!Keys
    BY DEF Jr!EffectKey
  <2>2. token[a] = replay /\ replay # 0 => Jr!EffectKey(a) = TheKey
    BY DEF Jr!EffectKey
  <2>3. Jr!TypeOK'
    BY <1>4, <2>1 DEF Jr!CallProvider
  <2>4. OneToken' /\ Jr!CompletedMeansCharged'
    BY <1>4, <2>2 DEF Jr!CallProvider
  <2>5. QED BY <2>3, <2>4
<1>5. ASSUME NEW a \in Attempts, Jr!completeSideEffect(a) PROVE JournalInv'
  BY <1>5 DEF Jr!completeSideEffect, Jr!SetState
<1>6. ASSUME NEW a \in Attempts, Jr!failSideEffect(a) PROVE JournalInv'
  BY <1>6 DEF Jr!failSideEffect, Jr!SetState
<1>7. ASSUME NEW a \in Attempts, Jr!Crash(a) PROVE JournalInv'
  BY <1>7 DEF Jr!Crash
<1>8. CASE Jr!Purge
  BY <1>8 DEF Jr!Purge
<1>9. CASE UNCHANGED Jr!vars
  BY <1>9 DEF Jr!vars
<1>10. QED
  BY <1>1, <1>2, <1>3, <1>4, <1>5, <1>6, <1>7, <1>8, <1>9 DEF Jr!Next

\* The effect of one key is one effect.
LEMMA AtMostOne == JournalInv => Jr!ChargedOnce
<1>0. Jr!Cardinality(charged) = Cardinality(charged)
  BY DEF Jr!Cardinality, Cardinality
<1> SUFFICES ASSUME JournalInv, ~purging PROVE Cardinality(charged) <= 1
  BY <1>0 DEF Jr!ChargedOnce
<1>1. charged \subseteq {TheKey}
  BY DEF JournalInv, OneToken
<1>2. IsFiniteSet({TheKey}) /\ Cardinality({TheKey}) = 1
  BY FS_Singleton
<1>3. Cardinality(charged) <= Cardinality({TheKey})
  BY <1>1, <1>2, FS_Subset
<1>4. QED BY <1>2, <1>3

\* However many attempts overlap, die and start again: a completed entry, and an attempt that finished or skipped the
\* operation, rest on an effect, and as long as entries are kept there is only one.
THEOREM EffectsAreExact == Jr!Spec => []ExactlyOnce
<1>1. JournalInv => ExactlyOnce
  BY AtMostOne DEF JournalInv, ExactlyOnce, Jr!ExactlyOnce
<1>2. QED BY JournalStart, JournalKeeps, <1>1, PTL DEF Jr!Spec

-----------------------------------------------------------------------------
(* The conflict counter                                                    *)

ConflictInv == Cl!TypeOK /\ EveryWindowEnds

\* No counter to begin with.
LEMMA ConflictStart == Cl!Init => ConflictInv
<1> SUFFICES ASSUME Cl!Init PROVE ConflictInv
  OBVIOUS
<1>1. expires \in BOOLEAN /\ blocked \in BOOLEAN /\ limiterReady \in BOOLEAN /\ lost \in BOOLEAN
  BY Zenon DEF Cl!Init
<1>2. /\ counter = 0
      /\ conflict \in [Conflicts -> [pc: {"new", "conflict", "expire", "block", "answered", "refused"}, conflicts: Nat]]
  BY DEF Cl!Init
<1>3. Cl!TypeOK
  BY <1>1, <1>2 DEF Cl!TypeOK
<1>4. QED BY <1>2, <1>3 DEF ConflictInv, EveryWindowEnds, Cl!EveryWindowEnds

\* Every command of a request, a lost one, and the end of a window.
LEMMA ConflictKeeps == ConflictInv /\ [Cl!Next]_(Cl!vars) => ConflictInv'
<1> SUFFICES ASSUME ConflictInv, [Cl!Next]_(Cl!vars) PROVE ConflictInv'
  OBVIOUS
<1> USE DEF ConflictInv, Cl!TypeOK, EveryWindowEnds, Cl!EveryWindowEnds, Cl!At, Cl!Goes, Cl!keys
<1>1. ASSUME NEW r \in Conflicts, Cl!conflictLimiter(r) PROVE ConflictInv'
  BY <1>1 DEF Cl!conflictLimiter
<1>2. ASSUME NEW r \in Conflicts, Cl!trackConflict(r) PROVE ConflictInv'
  <2>1. CASE ~limiterReady
    BY <1>2, <2>1 DEF Cl!trackConflict
  <2>2. CASE limiterReady
    <3> DEFINE next == IF counter + 1 = 1 THEN "expire" ELSE Cl!AfterIncr(counter + 1)
    <3>1. /\ counter' = counter + 1 /\ UNCHANGED << expires, blocked, limiterReady, lost >>
          /\ conflict' = [conflict EXCEPT ![r] = [pc |-> next, conflicts |-> counter + 1]]
          /\ conflict[r].pc = "conflict"
      BY <1>2, <2>2 DEF Cl!trackConflict
    <3>2. next \in {"expire", "block", "answered"} /\ (counter = 0 => next = "expire")
      BY DEF Cl!AfterIncr
    <3> HIDE DEF next
    <3>3. Cl!TypeOK'
      BY <3>1, <3>2
    <3>4. EveryWindowEnds'
      BY <3>1, <3>2
    <3>5. QED BY <3>3, <3>4
  <2>3. QED BY <2>1, <2>2
<1>3. ASSUME NEW r \in Conflicts, Cl!Arm(r) PROVE ConflictInv'
  <2>1. expires' \in BOOLEAN /\ (counter > 0 => expires')
    <3>1. expires' = (counter > 0)
      BY <1>3 DEF Cl!Arm
    <3>2. (counter > 0) \in BOOLEAN
      OBVIOUS
    <3>3. QED BY ONLY <3>1, <3>2, Zenon
  <2>2. /\ UNCHANGED << counter, blocked, limiterReady, lost >>
        /\ conflict' \in [Conflicts -> [pc: {"new", "conflict", "expire", "block", "answered", "refused"}, conflicts: Nat]]
    BY <1>3 DEF Cl!Arm, Cl!AfterIncr
  <2>3. Cl!TypeOK'
    BY <2>1, <2>2
  <2>4. EveryWindowEnds'
    BY <2>1, <2>2
  <2>5. QED BY <2>3, <2>4
<1>4. ASSUME NEW r \in Conflicts, Cl!Block(r) PROVE ConflictInv'
  BY <1>4 DEF Cl!Block
<1>5. ASSUME NEW r \in Conflicts, Cl!CommandLost(r) PROVE ConflictInv'
  <2> DEFINE skipped == Cl!At(r, "expire") \/ (counter = 0 /\ counter' = 1)
  <2>1. /\ UNCHANGED << expires, blocked, limiterReady >>
        /\ conflict' = [conflict EXCEPT ![r].pc = "answered"]
        /\ conflict[r].pc \in {"conflict", "expire", "block"}
        /\ counter' = counter \/ (counter' = counter + 1)
    BY <1>5 DEF Cl!CommandLost
  <2>2. lost' = (lost \/ skipped)
    BY <1>5 DEF Cl!CommandLost
  <2>3. lost' \in BOOLEAN /\ (lost \/ skipped => lost')
    BY <2>2, Zenon
  <2>4. Cl!TypeOK'
    BY <2>1, <2>3
  <2>5. EveryWindowEnds'
    <3>1. CASE skipped
      BY <2>3, <3>1
    <3>2. CASE ~skipped
      BY <2>1, <2>3, <3>2
    <3>3. QED BY <3>1, <3>2
  <2>6. QED BY <2>4, <2>5
<1>6. CASE Cl!CounterExpires
  <2>1. counter' = 0 /\ UNCHANGED << blocked, limiterReady, conflict, lost >>
    BY <1>6 DEF Cl!CounterExpires
  <2>2. expires' \in BOOLEAN
    BY <1>6, Zenon DEF Cl!CounterExpires
  <2>3. QED BY <2>1, <2>2
<1>7. CASE Cl!BlockExpires
  BY <1>7 DEF Cl!BlockExpires
<1>8. CASE Cl!ReadyChanges
  BY <1>8 DEF Cl!ReadyChanges
<1>9. CASE UNCHANGED Cl!vars
  BY <1>9 DEF Cl!vars
<1>10. QED
  BY <1>1, <1>2, <1>3, <1>4, <1>5, <1>6, <1>7, <1>8, <1>9 DEF Cl!Next

\* However the INCRs and EXPIREs of any number of requests interleave, a counter without a TTL is about to get one, unless an
\* EXPIRE was lost.
THEOREM WindowsEnd == Cl!Spec => []EveryWindowEnds
<1>1. ConflictInv => EveryWindowEnds
  BY DEF ConflictInv
<1>2. QED BY ConflictStart, ConflictKeeps, <1>1, PTL DEF Cl!Spec

-----------------------------------------------------------------------------
(* The rate limiter                                                        *)

\* The requests a process let through are among the hits of its window.
Counted == \A p \in Processes : passed[p] <= hits[p] /\ (~inWindow[p] => hits[p] = 0)

LimitInv == Rl!TypeOK /\ Counted

\* The processes start with empty memories.
LEMMA LimitStart == Rl!Init => LimitInv
<1> USE GuardsConstants DEF Rl!LimiterAssumption
<1> SUFFICES ASSUME Rl!Init PROVE LimitInv
  OBVIOUS
<1>1. failClosed \in BOOLEAN /\ up \in BOOLEAN /\ ended \in BOOLEAN
  BY DEF Rl!Init
<1>2. /\ client \in [Processes -> {"absent", "connecting", "ready", "reconnecting", "end"}]
      /\ tries \in [Processes -> 0..MaxRetries]
      /\ store \in [Processes -> {"redis", "memory"}]
      /\ hits \in [Processes -> 0..(max + 2)] /\ inWindow \in [Processes -> BOOLEAN]
      /\ passed \in [Processes -> 0..max]
  BY DEF Rl!Init
<1>3. Counted
  BY DEF Rl!Init, Counted
<1>4. QED BY <1>1, <1>2, <1>3 DEF LimitInv, Rl!TypeOK

\* Every event of a client, a request, and the end of a window or of a process.
LEMMA LimitKeeps == LimitInv /\ [Rl!Next]_(Rl!vars) => LimitInv'
<1> SUFFICES ASSUME LimitInv, [Rl!Next]_(Rl!vars) PROVE LimitInv'
  OBVIOUS
<1> USE GuardsConstants DEF Rl!LimiterAssumption, LimitInv, Rl!TypeOK, Counted, Rl!memory
<1>1. ASSUME NEW p \in Processes, Rl!Load(p) PROVE LimitInv'
  BY <1>1 DEF Rl!Load, Rl!makeRedisStore
<1>2. ASSUME NEW p \in Processes, Rl!Connects(p) PROVE LimitInv'
  BY <1>2 DEF Rl!Connects
<1>3. ASSUME NEW p \in Processes, Rl!retryStrategy(p) PROVE LimitInv'
  BY <1>3 DEF Rl!retryStrategy
<1>4. ASSUME NEW p \in Processes, Rl!closeRateLimitRedis(p) PROVE LimitInv'
  BY <1>4 DEF Rl!closeRateLimitRedis
<1>5. ASSUME NEW p \in Processes, Rl!Restart(p) PROVE LimitInv'
  BY <1>5 DEF Rl!Restart
<1>6. ASSUME NEW p \in Processes, Rl!limiter(p) PROVE LimitInv'
  <2> DEFINE n == IF inWindow[p] THEN hits[p] + 1 ELSE 1
  <2>1. /\ inWindow' = [inWindow EXCEPT ![p] = TRUE]
        /\ n <= max + 2 /\ hits' = [hits EXCEPT ![p] = n]
        /\ passed' = IF n > max THEN passed ELSE [passed EXCEPT ![p] = @ + 1]
        /\ UNCHANGED << failClosed, up, client, tries, store, ended >>
    BY <1>6 DEF Rl!limiter, Rl!Exceeds
  <2>2. n \in Nat /\ n = hits[p] + 1
    OBVIOUS
  <2>3. passed[p] \in Nat /\ passed[p] < n
    BY <2>2
  <2> HIDE DEF n
  <2>4. hits' \in [Processes -> 0..(max + 2)] /\ inWindow' \in [Processes -> BOOLEAN]
    BY <2>1, <2>2
  <2>5. CASE n > max
    BY <2>1, <2>2, <2>3, <2>4, <2>5
  <2>6. CASE ~(n > max)
    <3>1. passed' = [passed EXCEPT ![p] = @ + 1] /\ passed[p] + 1 \in 0..max
      BY <2>1, <2>2, <2>3, <2>6
    <3>2. passed' \in [Processes -> 0..max]
      BY <3>1
    <3>3. Counted'
      BY <2>1, <2>2, <2>3, <3>1
    <3>4. QED BY <2>1, <2>4, <3>2, <3>3
  <2>7. QED BY <2>5, <2>6
<1>7. ASSUME NEW p \in Processes, Rl!WindowEnds(p) PROVE LimitInv'
  BY <1>7 DEF Rl!WindowEnds
<1>8. CASE Rl!ServerChanges
  BY <1>8 DEF Rl!ServerChanges
<1>9. CASE UNCHANGED Rl!vars
  BY <1>9 DEF Rl!vars
<1>10. QED
  BY <1>1, <1>2, <1>3, <1>4, <1>5, <1>6, <1>7, <1>8, <1>9 DEF Rl!Next

\* A process lets no more than max requests of a window through, as the type of passed says, and gives up after MaxRetries.
THEOREM WindowsBounded == Rl!Spec => []Rl!TypeOK
<1>1. LimitInv => Rl!TypeOK
  BY DEF LimitInv
<1>2. QED BY LimitStart, LimitKeeps, <1>1, PTL DEF Rl!Spec

-----------------------------------------------------------------------------
(* The credentials                                                         *)

\* A token that can still be exchanged was created after the last password change that was answered; so none was exchanged
\* too late.
LiveAreFresh ==
    /\ \A token_ \in live : token_ >= settled
    /\ \A q \in CredentialRequests : request[q].late = FALSE

CredentialInv == Cr!TypeOK /\ LiveAreFresh

\* The account may have one token, and no request has begun.
LEMMA CredentialStart == Cr!Init => CredentialInv
<1> SUFFICES ASSUME Cr!Init PROVE CredentialInv
  OBVIOUS
<1>1. clock = 1 /\ password_changed_at = 0 /\ settled = 0 /\ codes = 0 /\ CredentialMaxNow \in Nat \ {0}
  BY GuardsConstants DEF Cr!Init, Cr!ClockAssumption
<1>2. account \in BOOLEAN /\ is_active \in BOOLEAN
  BY Zenon DEF Cr!Init
<1>3. live \subseteq 1..clock /\ spent = {} /\ reset \in [code: 0..codes, attempts: Nat]
  BY <1>1 DEF Cr!Init, Cr!NoReset
<1>4. request = [q \in CredentialRequests |-> [pc |-> "new", token |-> 0, code |-> 0, at |-> 0, late |-> FALSE]]
  BY DEF Cr!Init
<1>5. Cr!TypeOK
  BY <1>1, <1>2, <1>3, <1>4 DEF Cr!TypeOK
<1>6. LiveAreFresh
  BY <1>1, <1>3, <1>4 DEF LiveAreFresh
<1>7. QED BY <1>5, <1>6 DEF CredentialInv

\* What a request may be like at this moment.
CredentialRecord ==
    [pc: {"new", "insert", "create", "read", "issued", "store", "drop", "wrong", "hash", "commit", "revoke", "done", "refused"},
     token: 0..clock, code: Nat, at: 0..clock, late: BOOLEAN]

NoneLate == request \in [CredentialRequests -> CredentialRecord] /\ \A q \in CredentialRequests : request[q].late = FALSE

\* A step of one request that leaves a request like any other, not late.
LEMMA RecordKeeps ==
  ASSUME CredentialInv, NEW q \in CredentialRequests, NEW new \in CredentialRecord, new.late = FALSE,
         request' = [request EXCEPT ![q] = new], clock' = clock
  PROVE  NoneLate'
  BY DEF CredentialInv, Cr!TypeOK, LiveAreFresh, NoneLate, CredentialRecord

\* The same for a step that only goes on.
LEMMA GoesKeeps ==
  ASSUME CredentialInv, NEW q \in CredentialRequests,
         NEW next \in {"insert", "create", "read", "issued", "store", "drop", "wrong", "hash", "commit", "revoke", "done",
                       "refused"},
         Cr!Goes(q, next), clock' = clock
  PROVE  NoneLate'
  BY DEF CredentialInv, Cr!TypeOK, LiveAreFresh, Cr!Goes, NoneLate, CredentialRecord

\* Every statement of a request, and whatever else happens to the account.
LEMMA CredentialKeeps == CredentialInv /\ [Cr!Next]_(Cr!vars) => CredentialInv'
<1> SUFFICES ASSUME CredentialInv, [Cr!Next]_(Cr!vars) PROVE CredentialInv'
  OBVIOUS
<1> USE GuardsConstants DEF Cr!ClockAssumption, Cr!user, Cr!refresh, Cr!otp
<1>1. ASSUME NEW q \in CredentialRequests,
             Cr!register(q) \/ Cr!login(q) \/ Cr!refreshToken(q) \/ Cr!forgotPassword(q) \/ Cr!changePassword(q) \/ Cr!Fails(q)
      PROVE  CredentialInv'
  <2>1. PICK next \in {"refused", "insert", "create", "revoke", "issued", "store", "hash"} : Cr!Goes(q, next)
    BY <1>1 DEF Cr!register, Cr!login, Cr!refreshToken, Cr!forgotPassword, Cr!changePassword, Cr!Fails
  <2>2. UNCHANGED << clock, Cr!user, Cr!refresh, Cr!otp, settled >>
    BY <1>1 DEF Cr!register, Cr!login, Cr!refreshToken, Cr!forgotPassword, Cr!changePassword, Cr!Fails
  <2>3. QED BY <2>1, <2>2, GoesKeeps DEF CredentialInv, Cr!TypeOK, LiveAreFresh, NoneLate, CredentialRecord
<1>2. ASSUME NEW q \in CredentialRequests, Cr!InsertUser(q) PROVE CredentialInv'
  <2>1. account' \in BOOLEAN /\ UNCHANGED << clock, is_active, password_changed_at, Cr!refresh, Cr!otp, settled >>
    BY <1>2 DEF Cr!InsertUser
  <2>2. PICK next \in {"refused", "create"} : Cr!Goes(q, next)
    BY <1>2 DEF Cr!InsertUser
  <2>3. QED BY <2>1, <2>2, GoesKeeps DEF CredentialInv, Cr!TypeOK, LiveAreFresh, NoneLate, CredentialRecord
<1>3. ASSUME NEW q \in CredentialRequests, Cr!createRefreshToken(q) PROVE CredentialInv'
  <2>1. Cr!Goes(q, "done") /\ live' = live \union {clock} /\ clock \notin spent
        /\ UNCHANGED << clock, Cr!user, spent, Cr!otp, settled >>
    BY <1>3 DEF Cr!createRefreshToken, Cr!Fresh
  <2>2. NoneLate'
    BY <2>1, GoesKeeps
  <2>3. Cr!TypeOK'
    BY <2>1, <2>2 DEF CredentialInv, Cr!TypeOK, LiveAreFresh, NoneLate, CredentialRecord
  <2>4. QED BY <2>1, <2>2, <2>3 DEF CredentialInv, Cr!TypeOK, LiveAreFresh, NoneLate
<1>4. ASSUME NEW q \in CredentialRequests, NEW token_ \in live \union spent, Cr!rotateRefreshToken(q, token_)
      PROVE  CredentialInv'
  <2>1. UNCHANGED << clock, Cr!user, Cr!otp, settled >>
    BY <1>4 DEF Cr!rotateRefreshToken
  <2>2. ASSUME token_ \in live, Cr!Fresh, live' = (live \ {token_}) \union {clock}, spent' = spent \union {token_},
               request' = [request EXCEPT ![q] = [@ EXCEPT !.pc = "read", !.token = token_, !.late = token_ < settled]]
        PROVE  CredentialInv'
    <3>1. token_ \in 0..clock /\ (token_ < settled) = FALSE
      BY <2>2 DEF CredentialInv, Cr!TypeOK, LiveAreFresh
    <3>2. request' = [request EXCEPT ![q] = [@ EXCEPT !.pc = "read", !.token = token_, !.late = FALSE]]
      BY <2>2, <3>1
    <3>3. NoneLate'
      <4> DEFINE new == [request[q] EXCEPT !.pc = "read", !.token = token_, !.late = FALSE]
      <4>1. new \in CredentialRecord /\ new.late = FALSE
        BY <3>1 DEF CredentialInv, Cr!TypeOK, CredentialRecord
      <4>2. request' = [request EXCEPT ![q] = new]
        BY <3>2
      <4> HIDE DEF new
      <4>3. QED BY <2>1, <4>1, <4>2, RecordKeeps
    <3>4. live' \subseteq 1..clock /\ spent' \subseteq 1..clock /\ live' \intersect spent' = {}
          /\ \A t \in live' : t >= settled
      BY <2>2 DEF CredentialInv, Cr!TypeOK, LiveAreFresh, Cr!Fresh
    <3>5. QED BY <2>1, <3>3, <3>4 DEF CredentialInv, Cr!TypeOK, LiveAreFresh, NoneLate, CredentialRecord
  <2>3. ASSUME Cr!Goes(q, "revoke"), UNCHANGED Cr!refresh
        PROVE  CredentialInv'
    BY <2>1, <2>3, GoesKeeps DEF CredentialInv, Cr!TypeOK, LiveAreFresh, NoneLate, CredentialRecord
  <2>4. QED BY <1>4, <2>2, <2>3 DEF Cr!rotateRefreshToken
<1>5. ASSUME NEW q \in CredentialRequests, NEW token_ \in live \union spent,
             Cr!logout(q, token_) \/ Cr!revokeSession(q, token_)
      PROVE  CredentialInv'
  <2>1. PICK next \in {"done", "refused"} : Cr!Goes(q, next)
    BY <1>5 DEF Cr!logout, Cr!revokeSession
  <2>2. live' = live \ {token_} /\ UNCHANGED << clock, Cr!user, spent, Cr!otp, settled >>
    BY <1>5 DEF Cr!logout, Cr!revokeSession
  <2>3. QED BY <2>1, <2>2, GoesKeeps DEF CredentialInv, Cr!TypeOK, LiveAreFresh, NoneLate, CredentialRecord
<1>6. ASSUME NEW q \in CredentialRequests, Cr!StoreCode(q) PROVE CredentialInv'
  <2>1. Cr!Goes(q, "done") /\ codes' = codes + 1 /\ reset' = [code |-> codes + 1, attempts |-> 0]
        /\ UNCHANGED << clock, Cr!user, Cr!refresh, settled >>
    BY <1>6 DEF Cr!StoreCode
  <2>2. NoneLate'
    BY <2>1, GoesKeeps
  <2>3. Cr!TypeOK'
    BY <2>1, <2>2 DEF CredentialInv, Cr!TypeOK, LiveAreFresh, NoneLate, CredentialRecord
  <2>4. QED BY <2>1, <2>2, <2>3 DEF CredentialInv, Cr!TypeOK, LiveAreFresh, NoneLate
<1>7. ASSUME NEW q \in CredentialRequests, NEW code \in 1..(codes + 1), Cr!resetPassword(q, code) PROVE CredentialInv'
  <2>1. PICK next \in {"drop", "wrong", "hash"} :
          request' = [request EXCEPT ![q] = [@ EXCEPT !.pc = next, !.code = code]]
    <3> DEFINE next == CASE reset.attempts >= MaxAttempts -> "drop"
                         [] reset.attempts < MaxAttempts /\ code # reset.code -> "wrong"
                         [] OTHER -> "hash"
    <3>1. request' = [request EXCEPT ![q] = [@ EXCEPT !.pc = next, !.code = code]]
      BY <1>7 DEF Cr!resetPassword
    <3>2. next \in {"drop", "wrong", "hash"}
      OBVIOUS
    <3> HIDE DEF next
    <3>3. QED BY <3>1, <3>2
  <2>2. UNCHANGED << clock, Cr!user, Cr!refresh, Cr!otp, settled >>
    BY <1>7 DEF Cr!resetPassword
  <2>3. code \in Nat
    BY DEF CredentialInv, Cr!TypeOK
  <2>4. NoneLate'
    <3> DEFINE new == [request[q] EXCEPT !.pc = next, !.code = code]
    <3>1. new \in CredentialRecord /\ new.late = FALSE
      BY <2>3 DEF CredentialInv, Cr!TypeOK, LiveAreFresh, CredentialRecord
    <3>2. request' = [request EXCEPT ![q] = new]
      BY <2>1
    <3> HIDE DEF new
    <3>3. QED BY <2>2, <3>1, <3>2, RecordKeeps
  <2>5. QED BY <2>2, <2>4 DEF CredentialInv, Cr!TypeOK, LiveAreFresh, NoneLate, CredentialRecord
<1>8. ASSUME NEW q \in CredentialRequests, Cr!DropCode(q) \/ Cr!CountAttempt(q) PROVE CredentialInv'
  <2>1. Cr!Goes(q, "refused") /\ UNCHANGED << clock, Cr!user, Cr!refresh, codes, settled >>
    BY <1>8 DEF Cr!DropCode, Cr!CountAttempt
  <2>2. reset' \in [code: 0..codes, attempts: Nat]
    BY <1>8 DEF Cr!DropCode, Cr!CountAttempt, Cr!NoReset, CredentialInv, Cr!TypeOK
  <2>3. QED BY <2>1, <2>2, GoesKeeps DEF CredentialInv, Cr!TypeOK, LiveAreFresh, NoneLate, CredentialRecord
<1>9. ASSUME NEW q \in CredentialRequests, Cr!BeginUpdate(q) PROVE CredentialInv'
  <2>1. request' = [request EXCEPT ![q] = [@ EXCEPT !.pc = "commit", !.at = clock]]
        /\ UNCHANGED << clock, Cr!user, Cr!refresh, Cr!otp, settled >>
    BY <1>9 DEF Cr!BeginUpdate
  <2>2. NoneLate'
    <3> DEFINE new == [request[q] EXCEPT !.pc = "commit", !.at = clock]
    <3>0. request[q] \in CredentialRecord /\ request[q].late = FALSE /\ clock \in 0..clock
      BY DEF CredentialInv, Cr!TypeOK, LiveAreFresh, CredentialRecord
    <3>1. new \in CredentialRecord /\ new.late = FALSE
      BY <3>0 DEF CredentialRecord
    <3>2. request' = [request EXCEPT ![q] = new]
      BY <2>1
    <3> HIDE DEF new
    <3>3. QED BY <2>1, <3>1, <3>2, RecordKeeps
  <2>3. QED BY <2>1, <2>2 DEF CredentialInv, Cr!TypeOK, LiveAreFresh, NoneLate, CredentialRecord
<1>10. ASSUME NEW q \in CredentialRequests, Cr!CommitUpdate(q) PROVE CredentialInv'
  <2>1. /\ password_changed_at' = request[q].at
        /\ request' = [request EXCEPT ![q] = [@ EXCEPT !.pc = "revoke", !.at = clock]]
        /\ UNCHANGED << clock, account, is_active, Cr!refresh, codes, settled >>
    BY <1>10 DEF Cr!CommitUpdate
  <2>2. reset' \in [code: 0..codes, attempts: Nat]
    BY <1>10 DEF Cr!CommitUpdate, Cr!CodeAfter, Cr!NoReset, CredentialInv, Cr!TypeOK
  <2>3. NoneLate'
    <3> DEFINE new == [request[q] EXCEPT !.pc = "revoke", !.at = clock]
    <3>0. request[q] \in CredentialRecord /\ request[q].late = FALSE /\ clock \in 0..clock
      BY DEF CredentialInv, Cr!TypeOK, LiveAreFresh, CredentialRecord
    <3>1. new \in CredentialRecord /\ new.late = FALSE
      BY <3>0 DEF CredentialRecord
    <3>2. request' = [request EXCEPT ![q] = new]
      BY <2>1
    <3> HIDE DEF new
    <3>3. QED BY <2>1, <3>1, <3>2, RecordKeeps
  <2>4. password_changed_at' \in 0..clock
    BY <2>1 DEF CredentialInv, Cr!TypeOK
  <2>5. QED BY <2>1, <2>2, <2>3, <2>4 DEF CredentialInv, Cr!TypeOK, LiveAreFresh, NoneLate, CredentialRecord
<1>11. ASSUME NEW q \in CredentialRequests, Cr!revokeAllRefreshTokensForUser(q) PROVE CredentialInv'
  <2>1. /\ live' = {} /\ settled' = Cr!Latest(settled, request[q].at)
        /\ request' = [request EXCEPT ![q].pc = "done"]
        /\ UNCHANGED << clock, Cr!user, spent, Cr!otp >>
    BY <1>11 DEF Cr!revokeAllRefreshTokensForUser, Cr!Deletes, Cr!Goes
  <2>2. settled' \in 0..clock
    BY <2>1 DEF Cr!Latest, CredentialInv, Cr!TypeOK
  <2>3. NoneLate'
    BY <2>1, GoesKeeps DEF Cr!Goes
  <2>4. QED BY <2>1, <2>2, <2>3 DEF CredentialInv, Cr!TypeOK, LiveAreFresh, NoneLate, CredentialRecord
<1>12. CASE Cr!Deactivate
  BY <1>12 DEF Cr!Deactivate, CredentialInv, Cr!TypeOK, LiveAreFresh
<1>13. CASE Cr!CodeExpires
  BY <1>13 DEF Cr!CodeExpires, Cr!NoReset, CredentialInv, Cr!TypeOK, LiveAreFresh
<1>14. CASE Cr!Tick
  BY <1>14 DEF Cr!Tick, CredentialInv, Cr!TypeOK, LiveAreFresh
<1>15. CASE UNCHANGED Cr!vars
  BY <1>15 DEF Cr!vars, CredentialInv, Cr!TypeOK, LiveAreFresh
<1>16. QED
  BY <1>1, <1>2, <1>3, <1>4, <1>5, <1>6, <1>7, <1>8, <1>9, <1>10, <1>11, <1>12, <1>13, <1>14, <1>15 DEF Cr!Next

\* However refreshes, resets and password changes overlap and fail in the middle, a refresh token from before a password
\* change that was answered with success yields no access token any more.
THEOREM ChangesAreFinal == Cr!Spec => []RefreshAfterChange
<1>1. CredentialInv => RefreshAfterChange
  BY DEF CredentialInv, LiveAreFresh, RefreshAfterChange, Cr!RefreshAfterChange
<1>2. QED BY CredentialStart, CredentialKeeps, <1>1, PTL DEF Cr!Spec

-----------------------------------------------------------------------------
(* The migrations                                                          *)

\* A set of numbers that is not empty has a least one.
LEMMA LeastExists ==
  ASSUME NEW T \in SUBSET Nat, T # {}
  PROVE  \E x \in T : \A y \in T : x <= y
<1> DEFINE R == {p \in Nat \X Nat : p[1] < p[2]}
<1>1. IsWellFoundedOn(R, Nat)
  BY NatLessThanWellFounded DEF OpToRel
<1>2. PICK x \in T : \A y \in T : ~(<<y, x>> \in R)
  <2> HIDE DEF R
  <2>1. QED BY <1>1, WFMin
<1>3. ASSUME NEW y \in T PROVE x <= y
  <2>1. x \in Nat /\ y \in Nat /\ ~(<<y, x>> \in R)
    BY <1>2
  <2>2. ~(y < x)
    BY <2>1
  <2>3. QED BY <2>1, <2>2
<1>4. QED BY <1>3

\* The next file is one of those that are pending.
LEMMA NextIsPending ==
  ASSUME NEW pending \in SUBSET Mg!Files, pending # {}
  PROVE  Mg!getMigrationFiles(pending) \in pending
<1>1. \E x \in pending : \A y \in pending : x <= y
  BY LeastExists, GuardsConstants DEF Mg!Files, Mg!FilesAssumption
<1>2. QED BY <1>1 DEF Mg!getMigrationFiles, Mg!Min

DeployType == [pc: {"new", "apply", "fatal"}, pending: SUBSET Mg!Files, poisoned: BOOLEAN]

\* A deploy that has met no failure still has before it whatever is missing.
NothingSkipped == \A d \in Deploys : deploy[d].pc = "apply" /\ ~failures[d] => Mg!Files \ done \subseteq deploy[d].pending

MigrationInv == Mg!TypeOK /\ recorded \subseteq done /\ NothingSkipped /\ ExitZeroIsComplete

\* The database may come from anywhere.
LEMMA MigrationStart == Mg!Init => MigrationInv
  BY DEF Mg!Init, MigrationInv, Mg!TypeOK, NothingSkipped, ExitZeroIsComplete, Mg!ExitZeroIsComplete, Mg!Running

\* Every step of a deploy, and its death.
LEMMA MigrationKeeps == MigrationInv /\ [Mg!Next]_(Mg!vars) => MigrationInv'
<1> SUFFICES ASSUME MigrationInv, [Mg!Next]_(Mg!vars) PROVE MigrationInv'
  OBVIOUS
<1> USE DEF MigrationInv, Mg!TypeOK, DeployType, NothingSkipped, ExitZeroIsComplete, Mg!ExitZeroIsComplete, Mg!Running,
            Mg!Exits
<1>1. ASSUME NEW d \in Deploys, Mg!getAppliedMigrations(d) PROVE MigrationInv'
  <2>1. PICK applied \in {recorded, {}} :
          /\ deploy' = [deploy EXCEPT ![d] = [pc |-> "apply", pending |-> Mg!Pending(applied), poisoned |-> FALSE]]
          /\ Mg!Exits(d, IF Mg!Pending(applied) = {} THEN 0 ELSE Mg!Running)
    BY <1>1 DEF Mg!getAppliedMigrations
  <2>2. Mg!Pending(applied) \subseteq Mg!Files /\ Mg!Files \ done \subseteq Mg!Pending(applied)
    BY DEF Mg!Pending
  <2>3. UNCHANGED << done, recorded, failures >>
    BY <1>1 DEF Mg!getAppliedMigrations
  <2>4. Mg!TypeOK' /\ (recorded \subseteq done)' BY <2>1, <2>2, <2>3
  <2>5. NothingSkipped' BY <2>1, <2>2, <2>3
  <2>6. ExitZeroIsComplete'
    <3>1. ASSUME NEW e \in Deploys, exitCode'[e] = 0 PROVE Mg!Files \subseteq done
      <4>1. CASE e # d BY <2>1, <3>1, <4>1
      <4>2. CASE e = d BY <2>1, <2>2, <3>1, <4>2
      <4>3. QED BY <4>1, <4>2
    <3>2. QED BY <2>3, <3>1
  <2>7. QED BY <2>4, <2>5, <2>6
<1>2. ASSUME NEW d \in Deploys, Mg!CannotStart(d) PROVE MigrationInv'
  BY <1>2 DEF Mg!CannotStart
<1>3. ASSUME NEW d \in Deploys, Mg!applyMigration(d) PROVE MigrationInv'
  <2> DEFINE f == Mg!getMigrationFiles(deploy[d].pending)
  <2>1. f \in Mg!Files
    BY <1>3, NextIsPending DEF Mg!applyMigration
  <2>2. (Mg!FileFails(d, f) \/ \E ok \in BOOLEAN : Mg!FileCommits(d, f, ok)) /\ UNCHANGED exitCode
    BY <1>3 DEF Mg!applyMigration
  <2> HIDE DEF f
  <2>3. CASE Mg!FileFails(d, f)
    <3>1. PICK poisoned \in BOOLEAN :
            deploy' = [deploy EXCEPT ![d].pending = @ \ {f}, ![d].poisoned = poisoned]
      BY <2>3 DEF Mg!FileFails
    <3>2. deploy' \in [Deploys -> DeployType]
      <4> DEFINE sent == [deploy[d] EXCEPT !.pending = @ \ {f}, !.poisoned = poisoned]
      <4>1. deploy[d] \in DeployType BY DEF DeployType
      <4>2. deploy[d].pending \ {f} \in SUBSET Mg!Files BY <4>1
      <4>3. sent \in DeployType BY <4>1, <4>2
      <4>4. deploy' = [deploy EXCEPT ![d] = sent] BY <3>1
      <4> HIDE DEF sent
      <4>5. QED BY <4>3, <4>4
    <3>3. Mg!TypeOK' /\ (recorded \subseteq done)' BY <2>2, <2>3, <3>2 DEF Mg!FileFails
    <3>4. NothingSkipped' BY <2>2, <2>3, <3>1 DEF Mg!FileFails
    <3>5. ExitZeroIsComplete' BY <2>2, <2>3 DEF Mg!FileFails
    <3>6. QED BY <3>3, <3>4, <3>5
  <2>4. ASSUME NEW ok \in BOOLEAN, Mg!FileCommits(d, f, ok) PROVE MigrationInv'
    <3>1. {f} \union StandsFor[f] \subseteq Mg!Files
      BY <2>1, GuardsConstants DEF Mg!FilesAssumption
    <3>2. done \subseteq done' /\ done' \subseteq Mg!Files /\ recorded' \subseteq done'
      BY <2>4, <3>1 DEF Mg!FileCommits
    <3>3. /\ deploy' \in [Deploys -> DeployType]
          /\ \A e \in Deploys : deploy'[e].pc = deploy[e].pc
          /\ \A e \in Deploys : deploy[e].pending \ {f} \subseteq deploy'[e].pending
      BY <2>4 DEF Mg!FileCommits
    <3>4. failures' \in [Deploys -> BOOLEAN] /\ \A e \in Deploys : ~failures'[e] => ~failures[e]
      BY <2>4 DEF Mg!FileCommits
    <3>5. f \in done' BY <2>4 DEF Mg!FileCommits
    <3>6. Mg!TypeOK' BY <2>2, <3>2, <3>3, <3>4
    <3>7. NothingSkipped' BY <3>2, <3>3, <3>4, <3>5
    <3>8. ExitZeroIsComplete' BY <2>2, <3>2
    <3>9. QED BY <3>2, <3>6, <3>7, <3>8
  <2>5. QED BY <2>2, <2>3, <2>4
<1>4. ASSUME NEW d \in Deploys, Mg!main(d) PROVE MigrationInv'
  <2>1. ~failures[d] => Mg!Files \subseteq done BY <1>4 DEF Mg!main
  <2>2. QED BY <1>4, <2>1 DEF Mg!main
<1>5. ASSUME NEW d \in Deploys, Mg!Killed(d) PROVE MigrationInv'
  BY <1>5 DEF Mg!Killed
<1>6. CASE UNCHANGED Mg!vars
  BY <1>6 DEF Mg!vars
<1>7. QED BY <1>1, <1>2, <1>3, <1>4, <1>5, <1>6 DEF Mg!Next

\* A deploy that exits with 0 has left no file out, however many others failed in the middle, ran at the same time or were
\* killed.
THEOREM ZeroMeansComplete == Mg!Spec => []ExitZeroIsComplete
<1>1. MigrationInv => ExitZeroIsComplete
  BY DEF MigrationInv
<1>2. QED BY MigrationStart, MigrationKeeps, <1>1, PTL DEF Mg!Spec

-----------------------------------------------------------------------------
(* The parts together                                                      *)

GuardsInv == IInv /\ JournalInv /\ ConflictInv /\ LimitInv /\ CredentialInv /\ MigrationInv

\* A part that is not followed stays as it is.
LEMMA OthersStay ==
  /\ IInv /\ UNCHANGED buckets => IInv'
  /\ JournalInv /\ UNCHANGED journal => JournalInv'
  /\ ConflictInv /\ UNCHANGED conflicts => ConflictInv'
  /\ LimitInv /\ UNCHANGED limits => LimitInv'
  /\ CredentialInv /\ UNCHANGED credentials => CredentialInv'
  /\ MigrationInv /\ UNCHANGED migrations => MigrationInv'
<1>1. /\ UNCHANGED buckets => UNCHANGED vars
      /\ UNCHANGED journal => UNCHANGED Jr!vars
      /\ UNCHANGED conflicts => UNCHANGED Cl!vars
      /\ UNCHANGED limits => UNCHANGED Rl!vars
      /\ UNCHANGED credentials => UNCHANGED Cr!vars
      /\ UNCHANGED migrations => UNCHANGED Mg!vars
  BY DEF buckets, journal, conflicts, limits, credentials, migrations, vars, bucket, Jr!vars, Jr!setting, Cl!vars, Cl!keys,
         Rl!vars, Rl!memory, Cr!vars, Cr!user, Cr!refresh, Cr!otp, Mg!vars
<1>2. QED BY <1>1, Step, JournalKeeps, ConflictKeeps, LimitKeeps, CredentialKeeps, MigrationKeeps

\* The state of every part is well typed and all of them keep what they promise, whichever of them a behaviour follows.
THEOREM GuardsHold ==
  GuardsSpec => [](GuardsTypeOK /\ GrantsBounded /\ ExactlyOnce /\ EveryWindowEnds /\ RefreshAfterChange /\ ExitZeroIsComplete)
<1>1. GuardsInit => GuardsInv
  BY Start, JournalStart, ConflictStart, LimitStart, CredentialStart, MigrationStart DEF GuardsInit, GuardsInv
<1>2. GuardsInv /\ [GuardsNext]_guards => GuardsInv'
  <2> SUFFICES ASSUME GuardsInv, [GuardsNext]_guards PROVE GuardsInv'
    OBVIOUS
  <2>1. CASE BucketStep(Next)
    BY <2>1, Step, OthersStay DEF BucketStep, GuardsInv
  <2>2. CASE JournalStep(Jr!Next)
    BY <2>2, JournalKeeps, OthersStay DEF JournalStep, GuardsInv
  <2>3. CASE ConflictStep(Cl!Next)
    BY <2>3, ConflictKeeps, OthersStay DEF ConflictStep, GuardsInv
  <2>4. CASE LimitStep(Rl!Next)
    BY <2>4, LimitKeeps, OthersStay DEF LimitStep, GuardsInv
  <2>5. CASE CredentialStep(Cr!Next)
    BY <2>5, CredentialKeeps, OthersStay DEF CredentialStep, GuardsInv
  <2>6. CASE MigrationStep(Mg!Next)
    BY <2>6, MigrationKeeps, OthersStay DEF MigrationStep, GuardsInv
  <2>7. CASE UNCHANGED guards
    BY <2>7, OthersStay DEF guards, GuardsInv
  <2>8. QED BY <2>1, <2>2, <2>3, <2>4, <2>5, <2>6, <2>7 DEF GuardsNext
<1>3. GuardsInv => GuardsTypeOK
  BY DEF GuardsInv, IInv, JournalInv, ConflictInv, LimitInv, CredentialInv, MigrationInv, GuardsTypeOK
<1>4. GuardsInv => GrantsBounded /\ ExactlyOnce /\ EveryWindowEnds /\ RefreshAfterChange /\ ExitZeroIsComplete
  BY BoundFollows, AtMostOne
     DEF GuardsInv, JournalInv, ExactlyOnce, Jr!ExactlyOnce, ConflictInv, CredentialInv, LiveAreFresh, RefreshAfterChange,
         Cr!RefreshAfterChange, MigrationInv
<1>5. QED BY <1>1, <1>2, <1>3, <1>4, PTL DEF GuardsSpec
==============================================================================
