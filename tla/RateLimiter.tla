------------------------------ MODULE RateLimiter ------------------------------
(***************************************************************************)
(* One of the rate limiters of planbuddy_v9/middleware/rateLimit.js, as    *)
(* the processes of the cluster apply it to one address, with the ioredis  *)
(* client of planbuddy_v9/config/rateLimitRedis.js in each process.  The   *)
(* store of a limiter is chosen while the modules are loaded.  The         *)
(* MemoryStore of express-rate-limit is external: one process counts every *)
(* hit, also the refused ones, from the first one until windowMs later.    *)
(***************************************************************************)
EXTENDS Integers, FiniteSetsExt

CONSTANTS Processes,
          max,
          MaxRetries     \* retryStrategy gives up after this many

LimiterAssumption == max \in Nat /\ MaxRetries \in Nat

VARIABLES failClosed,    \* the policy of this limiter
          up,            \* the Redis server answers
          client,        \* of each process: "absent", "connecting", "ready", "reconnecting", "end"
          tries,         \* times of retryStrategy
          store,         \* "redis" or "memory"
          hits, inWindow,   \* MemoryStore of each process
          passed,        \* ghost: requests let through in the window of each process
          ended          \* ghost: a window has ended, or a process and its memory have gone

memory == << hits, inWindow, passed >>
vars == << failClosed, up, client, tries, store, memory, ended >>

Init ==
    /\ failClosed \in BOOLEAN
    /\ up \in BOOLEAN
    /\ client = [p \in Processes |-> "absent"]
    /\ tries = [p \in Processes |-> 0]
    /\ store = [p \in Processes |-> "memory"]
    /\ hits = [p \in Processes |-> 0] /\ inWindow = [p \in Processes |-> FALSE]
    /\ passed = [p \in Processes |-> 0]
    /\ ended = FALSE

-----------------------------------------------------------------------------
(* The client                                                              *)

makeRedisStore(status) == IF status = "ready" THEN "redis" ELSE "memory"

\* The client is created, and the limiters look at its status in the same turn of the event loop.
Load(p) ==
    /\ client[p] = "absent"
    /\ client' = [client EXCEPT ![p] = "connecting"]
    /\ store' = [store EXCEPT ![p] = makeRedisStore(client'[p])]
    /\ UNCHANGED << failClosed, up, tries, memory, ended >>

Connects(p) ==
    /\ client[p] \in {"connecting", "reconnecting"} /\ up
    /\ client' = [client EXCEPT ![p] = "ready"]
    /\ tries' = [tries EXCEPT ![p] = 0]
    /\ UNCHANGED << failClosed, up, store, memory, ended >>

\* An attempt fails or the connection is lost: another attempt, or null and 'end'.
retryStrategy(p) ==
    /\ client[p] \in {"connecting", "reconnecting", "ready"} /\ ~up
    /\ IF tries[p] >= MaxRetries
       THEN client' = [client EXCEPT ![p] = "end"] /\ UNCHANGED tries
       ELSE client' = [client EXCEPT ![p] = "reconnecting"] /\ tries' = [tries EXCEPT ![p] = @ + 1]
    /\ UNCHANGED << failClosed, up, store, memory, ended >>

closeRateLimitRedis(p) ==
    /\ client[p] \notin {"absent", "end"}
    /\ client' = [client EXCEPT ![p] = "end"]
    /\ UNCHANGED << failClosed, up, tries, store, memory, ended >>

ServerChanges ==
    /\ up' = ~up
    /\ UNCHANGED << failClosed, client, tries, store, memory, ended >>

\* The process goes and its counters with it; PM2 starts another.
Restart(p) ==
    /\ client[p] # "absent"
    /\ client' = [client EXCEPT ![p] = "absent"]
    /\ tries' = [tries EXCEPT ![p] = 0]
    /\ hits' = [hits EXCEPT ![p] = 0] /\ inWindow' = [inWindow EXCEPT ![p] = FALSE]
    /\ passed' = [passed EXCEPT ![p] = 0]
    /\ ended' = TRUE
    /\ UNCHANGED << failClosed, up, store >>

-----------------------------------------------------------------------------
(* A request that is no health probe and no webhook                        *)

isRedisReady(p) == client[p] = "ready"

\* failClosedMiddleware answers 503; the limiter behind it is not asked.
Unavailable(p) == failClosed /\ ~isRedisReady(p)

\* Fault: the hit after the last one allowed is let through.
ExceedsLate(n) == n > max + 1

Exceeds(n) == n > max

\* The limiter made by makeLimiter: 429 beyond max hits.
limiter(p) ==
    /\ client[p] # "absent"
    /\ ~Unavailable(p)
    /\ inWindow' = [inWindow EXCEPT ![p] = TRUE]
    /\ LET n == IF inWindow[p] THEN hits[p] + 1 ELSE 1 IN
       /\ n <= max + 2     \* bound: further hits of a window are refused alike
       /\ hits' = [hits EXCEPT ![p] = n]
       /\ passed' = IF Exceeds(n) THEN passed ELSE [passed EXCEPT ![p] = @ + 1]
    /\ UNCHANGED << failClosed, up, client, tries, store, ended >>

WindowEnds(p) ==
    /\ inWindow[p]
    /\ inWindow' = [inWindow EXCEPT ![p] = FALSE]
    /\ hits' = [hits EXCEPT ![p] = 0]
    /\ passed' = [passed EXCEPT ![p] = 0]
    /\ ended' = TRUE
    /\ UNCHANGED << failClosed, up, client, tries, store >>

Next ==
    \/ \E p \in Processes : \/ Load(p) \/ Connects(p) \/ retryStrategy(p) \/ closeRateLimitRedis(p) \/ Restart(p)
                            \/ limiter(p) \/ WindowEnds(p)
    \/ ServerChanges

Spec == Init /\ [][Next]_vars

-----------------------------------------------------------------------------
TypeOK ==
    /\ failClosed \in BOOLEAN /\ up \in BOOLEAN /\ ended \in BOOLEAN
    /\ client \in [Processes -> {"absent", "connecting", "ready", "reconnecting", "end"}]
    /\ tries \in [Processes -> 0..MaxRetries]
    /\ store \in [Processes -> {"redis", "memory"}]
    /\ hits \in [Processes -> 0..(max + 2)] /\ inWindow \in [Processes -> BOOLEAN]
    /\ passed \in [Processes -> 0..max]

\* "20 req / 15 min / IP", with "Redis-Backed Rate Limiting": before any window is over, the processes together let no more
\* than max requests of an address through.
OneBudget == ~ended => MapThenSumSet(LAMBDA p : passed[p], Processes) <= max
===============================================================================
