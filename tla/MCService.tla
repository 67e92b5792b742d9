------------------------------ MODULE MCService ------------------------------
(* Parts of the HTTP service that share no state: the requests of one        *)
(* idempotency key, the server with its requests, the queue's Redis client   *)
(* with the queue health, logins, tokens, the cached is_active flag, and the *)
(* load shedding of the v3 runtime.  A behaviour follows one of them; the    *)
(* others stay where they start.                                             *)
EXTENDS Idempotency

CONSTANTS maxConcurrentRequests, EarlierLeaks, RedisClients,
          MAX_RECONNECT_ATTEMPTS, Cooldown, MaxDelay, ConnectTimeout, Workers, staleAfter,
          Logins, MAX_FAILED_LOGINS,
          TokenRequests, MaxNow, MaxRevocations,
          StatusRequests, UserActiveTTL,
          Arrivals, Nobody, MAX_CONCURRENT_GLOBAL, MAX_CONCURRENT_BOOKING, DB_HEALTH_TTL

VARIABLES part,
          activeRequests, request, hungUp, leaked, phase, IS_PROD, exitCode, connections, holding, draining,
          quitting, pool, dying,
          status, left, open, openFor, attemptsSinceOpen, tries, connected, initialized, backlogged, scheduler,
          worker, gone,
          failed_login_attempts, locked_until, loginActive, login, failures,
          now, tokens, redisReady, redisMark, redisBlacklist, marks, blacklist, password_changed_at, revoker,
          revocations, tokenRequest,
          is_active, since, cache, statusRequest, sets,
          poolBusy, dbHealthCache, refresh, stack, globalRequests, bookingActiveRequests, arrival

server == << activeRequests, request, hungUp, leaked, phase, IS_PROD, exitCode, connections, holding, draining,
             quitting, pool, dying >>
queue == << status, left, open, openFor, attemptsSinceOpen, tries, connected, initialized, backlogged, scheduler,
            worker, gone >>
account == << failed_login_attempts, locked_until, loginActive, login, failures >>
session == << now, tokens, redisReady, redisMark, redisBlacklist, marks, blacklist, password_changed_at, revoker,
              revocations, tokenRequest >>
activity == << is_active, since, cache, statusRequest, sets >>
load == << poolBusy, dbHealthCache, refresh, stack, globalRequests, bookingActiveRequests, arrival >>
keys == << mode, ready, doneKey, lockKey, row, pc, useRedis, lockAcquired, late, effects >>
service == << part, keys, server, queue, account, session, activity, load >>

Sv == INSTANCE ServerLifecycle
Rd == INSTANCE QueueReliability
Lg == INSTANCE Login WITH is_active <- loginActive
Ss == INSTANCE Session WITH Requests <- TokenRequests, request <- tokenRequest
Ac == INSTANCE ActiveCache WITH Requests <- StatusRequests, request <- statusRequest
Ld == INSTANCE LoadShedder

ASSUME ServiceConstants ==
    /\ IdempotencyAssumption /\ Sv!ServerAssumption /\ Rd!HealthAssumption
    /\ Lg!LimitAssumption /\ Ss!BoundsAssumption /\ Ac!TTLAssumption /\ Ld!LoadAssumption

\* A part that is not followed needs one initial state only.
ServiceInit ==
    /\ part \in {"key", "server", "queue", "login", "session", "activity", "load"}
    /\ Init /\ (part # "key" => mode = "steady")
    /\ Sv!Init /\ (part # "server" => IS_PROD /\ leaked = 0)
    /\ Rd!Init
    /\ Lg!Init /\ (part # "login" => loginActive)
    /\ Ss!Init /\ (part # "session" => redisReady)
    /\ Ac!Init /\ (part # "activity" => is_active)
    /\ Ld!Init /\ (part # "load" => \A q \in Arrivals : arrival[q].kind = "other")

\* A step of one part.
KeyStep(A) == part = "key" /\ A /\ UNCHANGED << part, server, queue, account, session, activity, load >>
ServerStep(A) == part = "server" /\ A /\ UNCHANGED << part, keys, queue, account, session, activity, load >>
QueueStep(A) == part = "queue" /\ A /\ UNCHANGED << part, keys, server, account, session, activity, load >>
LoginStep(A) == part = "login" /\ A /\ UNCHANGED << part, keys, server, queue, session, activity, load >>
SessionStep(A) == part = "session" /\ A /\ UNCHANGED << part, keys, server, queue, account, activity, load >>
ActivityStep(A) == part = "activity" /\ A /\ UNCHANGED << part, keys, server, queue, account, session, load >>
LoadStep(A) == part = "load" /\ A /\ UNCHANGED << part, keys, server, queue, account, session, activity >>

ServiceNext ==
    \/ KeyStep(Next)
    \/ ServerStep(Sv!Next)
    \/ QueueStep(Rd!Next)
    \/ LoginStep(Lg!Next)
    \/ SessionStep(Ss!Next)
    \/ ActivityStep(Ac!Next)
    \/ LoadStep(Ld!Next)

\* server.close() calls back, and the timers of the shutdown fire.
ServiceSpec == ServiceInit /\ [][ServiceNext]_service /\ WF_service(ServerStep(Sv!drainRequests)) /\ WF_service(ServerStep(Sv!Timeouts))

ServiceTypeOK == TypeOK /\ Sv!TypeOK /\ Rd!TypeOK /\ Lg!TypeOK /\ Ss!TypeOK /\ Ac!TypeOK /\ Ld!TypeOK

SlotsCounted == Sv!SlotsCounted
PoolOutlivesClients == Sv!PoolOutlivesClients
ShutdownEnds == Sv!ShutdownEnds
StormBounded == Rd!StormBounded
ReadyIsTrue == Rd!ReadyIsTrue
LockIsEarned == Lg!LockIsEarned
RevokedIsRejected == Ss!RevokedIsRejected
ActiveFlagIsFresh == Ac!ActiveFlagIsFresh
==============================================================================
