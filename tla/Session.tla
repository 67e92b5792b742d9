------------------------------ MODULE Session ------------------------------
(***************************************************************************)
(* Access tokens of one user and their revocation: authenticate            *)
(* (planbuddy_v9/middleware/index.js) over the revocations of utils/jwt.js,*)
(* in Redis and in PostgreSQL, and the time of the last password change.   *)
(* The last check of authenticate is in ActiveCache.                       *)
(*                                                                         *)
(* Time is counted in ticks of half a second, because a token's iat is in  *)
(* whole seconds and everything it is compared with is finer.  Tokens do   *)
(* not expire within a model, so their revocations do not either.          *)
(***************************************************************************)
EXTENDS Naturals, FiniteSets

CONSTANTS Requests,           \* authenticated requests
          MaxNow,             \* bound on time
          MaxRevocations      \* bound on requests that revoke all tokens

BoundsAssumption == MaxNow \in Nat \ {0} /\ MaxRevocations \in Nat

VARIABLES now,
          tokens,             \* times at which the user's tokens were issued, one at a time
          redisReady,         \* redis.status === 'ready'
          redisMark,          \* times under jwt:revoked_all, at most one
          redisBlacklist,     \* tokens under jwt:blacklist
          marks,              \* created_at of the revoke_all rows of token_blacklist
          blacklist,          \* tokens in token_blacklist
          password_changed_at,\* times, at most one
          revoker,            \* where the request that revokes all tokens is
          revocations,        \* requests that revoked all tokens
          request             \* [pc, token, late, blind]

vars == << now, tokens, redisReady, redisMark, redisBlacklist, marks, blacklist, password_changed_at, revoker,
           revocations, request >>

redis == << redisReady, redisMark, redisBlacklist >>
database == << marks, blacklist, password_changed_at >>

Times == 1..MaxNow
IssuedAt(token) == 2 * (token \div 2)    \* iat, in ticks

None == 0

\* late: a revocation of the token was on record in PostgreSQL when the request came in.  blind: a query failed for it.
Idle == [pc |-> "idle", token |-> None, late |-> FALSE, blind |-> FALSE]

Init ==
    /\ now = 1
    /\ tokens = {}
    /\ redisReady \in BOOLEAN
    /\ redisMark = {} /\ redisBlacklist = {}
    /\ marks = {} /\ blacklist = {}
    /\ password_changed_at = {}
    /\ revoker = "idle" /\ revocations = 0
    /\ request = [q \in Requests |-> Idle]

-----------------------------------------------------------------------------
(* Login issues a token (generateToken).                                   *)

generateToken ==
    /\ now \notin tokens /\ Cardinality(tokens) < 2
    /\ tokens' = tokens \union {now}
    /\ UNCHANGED << now, redis, database, revoker, revocations, request >>

-----------------------------------------------------------------------------
(* Revocation.  A token of the same tick counts as issued after it.         *)

\* changePassword and resetPassword write the new hash first, revokeAllSessions does not.
changePassword ==
    /\ revoker = "idle" /\ revocations < MaxRevocations
    /\ revoker' = "redis" /\ revocations' = revocations + 1
    /\ password_changed_at' = {now}
    /\ UNCHANGED << now, tokens, redis, marks, blacklist, request >>

revokeAllSessions ==
    /\ revoker = "idle" /\ revocations < MaxRevocations
    /\ revoker' = "redis" /\ revocations' = revocations + 1
    /\ UNCHANGED << now, tokens, redis, database, request >>

\* revokeAllUserTokens, best effort: Redis if it is ready, then PostgreSQL.
RevokeInRedis ==
    /\ revoker = "redis"
    /\ revoker' = "database"
    /\ redisMark' \in IF redisReady THEN {{now}, redisMark} ELSE {redisMark}
    /\ UNCHANGED << now, tokens, redisReady, redisBlacklist, database, revocations, request >>

RevokeInDatabase ==
    /\ revoker = "database"
    /\ revoker' = "idle"
    /\ marks' \in {marks \union {now}, marks}
    /\ UNCHANGED << now, tokens, redis, blacklist, password_changed_at, revocations, request >>

\* logout revokes one token: PostgreSQL first, then Redis, each best effort.
revokeToken(token) ==
    /\ token \in tokens
    /\ blacklist' \in {blacklist \union {token}, blacklist}
    /\ redisBlacklist' \in IF redisReady THEN {redisBlacklist \union {token}, redisBlacklist} ELSE {redisBlacklist}
    /\ UNCHANGED << now, tokens, redisReady, redisMark, marks, password_changed_at, revoker, revocations, request >>

-----------------------------------------------------------------------------
(* authenticate, one await after the other.                                *)

Revoked(token) == token \in blacklist \/ \E m \in marks : m > token

Arrives(q) ==
    /\ request[q].pc = "idle"
    /\ \E token \in tokens :
           request' = [request EXCEPT ![q] = [Idle EXCEPT !.pc = "redis", !.token = token, !.late = Revoked(token)]]
    /\ UNCHANGED << now, tokens, redis, database, revoker, revocations >>

Passes(q, pc) == request' = [request EXCEPT ![q].pc = pc]
Rejects(q) == request' = [request EXCEPT ![q] = Idle]
Server == << now, tokens, redis, database, revoker, revocations >>

\* isRevoked asks Redis, if it is ready, and takes a failure for a miss.
RedisRevokes(token) == token \in redisBlacklist \/ \E m \in redisMark : m >= IssuedAt(token)

AskRedis(q) ==
    /\ request[q].pc = "redis"
    /\ \/ redisReady /\ RedisRevokes(request[q].token) /\ Rejects(q)
       \/ Passes(q, "database")
    /\ UNCHANGED Server

\* Fault: iat is rounded to the next second.
MarkRevokesRounded(m, token) == m > IssuedAt(token) + 2

\* created_at > TO_TIMESTAMP(iat)
MarkRevokes(m, token) == m > IssuedAt(token)

AskDatabase(q) ==
    /\ request[q].pc = "database"
    /\ IF request[q].token \in blacklist \/ \E m \in marks : MarkRevokes(m, request[q].token)
       THEN Rejects(q)
       ELSE Passes(q, "password")
    /\ UNCHANGED Server

isTokenBeforePasswordChange(q) ==
    /\ request[q].pc = "password"
    /\ IF \E t \in password_changed_at : IssuedAt(request[q].token) < t
       THEN Rejects(q)
       ELSE Passes(q, "accepted")
    /\ UNCHANGED Server

\* Either of the two queries fails, and the check passes.
QueryFails(q) ==
    /\ request[q].pc \in {"database", "password"}
    /\ request' = [request EXCEPT ![q].pc = IF @ = "database" THEN "password" ELSE "accepted", ![q].blind = TRUE]
    /\ UNCHANGED Server

Answered(q) ==
    /\ request[q].pc = "accepted"
    /\ request' = [request EXCEPT ![q] = Idle]
    /\ UNCHANGED Server

-----------------------------------------------------------------------------
(* Redis comes and goes, and may come back empty.                          *)

RedisChanges ==
    /\ redisReady' = ~redisReady
    /\ \/ UNCHANGED << redisMark, redisBlacklist >>
       \/ ~redisReady /\ redisMark' = {} /\ redisBlacklist' = {}
    /\ UNCHANGED << now, tokens, database, revoker, revocations, request >>

Tick ==
    /\ now < MaxNow
    /\ now' = now + 1
    /\ UNCHANGED << tokens, redis, database, revoker, revocations, request >>

Next ==
    \/ generateToken
    \/ changePassword \/ revokeAllSessions \/ RevokeInRedis \/ RevokeInDatabase
    \/ \E token \in tokens : revokeToken(token)
    \/ \E q \in Requests : \/ Arrives(q) \/ AskRedis(q) \/ AskDatabase(q) \/ isTokenBeforePasswordChange(q)
                           \/ QueryFails(q) \/ Answered(q)
    \/ RedisChanges \/ Tick

Spec == Init /\ [][Next]_vars

-----------------------------------------------------------------------------
TypeOK ==
    /\ now \in Times /\ tokens \subseteq Times
    /\ redisReady \in BOOLEAN /\ redisMark \subseteq Times /\ redisBlacklist \subseteq tokens
    /\ marks \subseteq Times /\ blacklist \subseteq tokens
    /\ password_changed_at \subseteq Times
    /\ revoker \in {"idle", "redis", "database"} /\ revocations \in 0..MaxRevocations
    /\ request \in [Requests -> [pc: {"idle", "redis", "database", "password", "accepted"},
                                 token: Times \union {None}, late: BOOLEAN, blind: BOOLEAN]]

\* A request whose token was revoked, on record in PostgreSQL when it came in, is not accepted, whatever Redis has
\* forgotten and however iat was rounded, unless a query of its own failed (the checks fail open).
RevokedIsRejected == \A q \in Requests : request[q].pc = "accepted" /\ request[q].late => request[q].blind
=============================================================================
