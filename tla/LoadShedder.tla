---------------------------- MODULE LoadShedder -----------------------------
(***************************************************************************)
(* The load shedding of the v3 runtime (middleware/backpressure.js): two   *)
(* counters of concurrent requests and a cached verdict on the database    *)
(* pool, refreshed in the background when it is too old.  The process has  *)
(* one thread: what runs up to the next await is on its stack alone, and   *)
(* promise callbacks run when the stack is empty, before another request.  *)
(* next() returns when the handlers behind it await for the first time.    *)
(***************************************************************************)
EXTENDS Naturals, FiniteSets

CONSTANTS Arrivals, Nobody,
          MAX_CONCURRENT_GLOBAL, MAX_CONCURRENT_BOOKING,
          DB_HEALTH_TTL

LoadAssumption == Nobody \notin Arrivals /\ {MAX_CONCURRENT_GLOBAL, MAX_CONCURRENT_BOOKING, DB_HEALTH_TTL} \subseteq Nat

VARIABLES poolBusy,               \* active connections at 90 % of the limit or above
          dbHealthCache,          \* [isDbOverloaded, age], or NoCache
          refresh,                \* what a refresh in flight has read, or "none"
          stack,                  \* the request on the stack
          globalRequests,         \* activeRequests
          bookingActiveRequests,
          arrival                 \* [kind, pc] of each request

vars == << poolBusy, dbHealthCache, refresh, stack, globalRequests, bookingActiveRequests, arrival >>

NoCache == [isDbOverloaded |-> FALSE, age |-> DB_HEALTH_TTL + 2]
Stale == DB_HEALTH_TTL + 1

Init ==
    /\ poolBusy = FALSE
    /\ dbHealthCache = NoCache /\ refresh = "none"
    /\ stack = Nobody
    /\ globalRequests = 0 /\ bookingActiveRequests = 0
    /\ arrival \in [Arrivals -> [kind: {"probe", "booking", "other"}, pc: {"new"}]]

Goes(q, pc) == arrival' = [arrival EXCEPT ![q].pc = pc]

\* fetchDbPoolHealth reads the pool at once; a refresh under way is not repeated.
refreshDbHealthCache == refresh' = IF refresh # "none" THEN refresh ELSE IF poolBusy THEN "busy" ELSE "free"

\* The old verdict counts, also when it is stale; without one the database is healthy.
isDbOverloadedCached == dbHealthCache.isDbOverloaded

RefreshIfOld == IF dbHealthCache.age > DB_HEALTH_TTL THEN refreshDbHealthCache ELSE UNCHANGED refresh

\* The counter of a request includes itself; at the limit the verdict on the database is not asked for.
isOverloaded == globalRequests' >= MAX_CONCURRENT_GLOBAL \/ isDbOverloadedCached

backpressureMiddleware(q) ==
    /\ stack = Nobody /\ refresh = "none"
    /\ arrival[q].pc = "new"
    /\ stack' = q
    /\ IF arrival[q].kind = "probe"
       THEN Goes(q, "handler") /\ UNCHANGED << refresh, globalRequests >>
       ELSE /\ globalRequests' = globalRequests + 1
            /\ Goes(q, IF isOverloaded THEN "shed" ELSE IF arrival[q].kind = "booking" THEN "booking" ELSE "handler")
            /\ IF globalRequests' >= MAX_CONCURRENT_GLOBAL THEN UNCHANGED refresh ELSE RefreshIfOld
    /\ UNCHANGED << poolBusy, dbHealthCache, bookingActiveRequests >>

bookingBackpressureMiddleware(q) ==
    /\ stack = q
    /\ arrival[q].pc = "booking"
    /\ bookingActiveRequests' = bookingActiveRequests + 1
    /\ Goes(q, IF bookingActiveRequests' > MAX_CONCURRENT_BOOKING THEN "shed" ELSE "handler")
    /\ UNCHANGED << poolBusy, dbHealthCache, refresh, stack, globalRequests >>

\* next() has returned, or the 503 is sent: every finally counts the request out while its handler goes on.
CountsOut(q) ==
    /\ stack = q
    /\ arrival[q].pc \in {"handler", "shed"}
    /\ stack' = Nobody
    /\ globalRequests' = IF arrival[q].kind = "probe" THEN globalRequests ELSE globalRequests - 1
    /\ bookingActiveRequests' = IF bookingActiveRequests > 0 THEN bookingActiveRequests - 1 ELSE 0
    /\ UNCHANGED << poolBusy, dbHealthCache, refresh, arrival >>

\* The callback of the refresh.
CacheFilled ==
    /\ stack = Nobody /\ refresh # "none"
    /\ dbHealthCache' = [isDbOverloaded |-> refresh = "busy", age |-> 0]
    /\ refresh' = "none"
    /\ UNCHANGED << poolBusy, stack, globalRequests, bookingActiveRequests, arrival >>

-----------------------------------------------------------------------------
Handled(q) ==
    /\ stack = Nobody
    /\ arrival[q].pc = "handler"
    /\ Goes(q, "done")
    /\ UNCHANGED << poolBusy, dbHealthCache, refresh, stack, globalRequests, bookingActiveRequests >>

PoolChanges ==
    /\ stack = Nobody
    /\ poolBusy' = ~poolBusy
    /\ UNCHANGED << dbHealthCache, refresh, stack, globalRequests, bookingActiveRequests, arrival >>

Tick ==
    /\ dbHealthCache.age < Stale
    /\ dbHealthCache' = [dbHealthCache EXCEPT !.age = @ + 1]
    /\ UNCHANGED << poolBusy, refresh, stack, globalRequests, bookingActiveRequests, arrival >>

Next ==
    \/ \E q \in Arrivals : backpressureMiddleware(q) \/ bookingBackpressureMiddleware(q) \/ CountsOut(q) \/ Handled(q)
    \/ CacheFilled \/ PoolChanges \/ Tick

Spec == Init /\ [][Next]_vars

-----------------------------------------------------------------------------
TypeOK ==
    /\ poolBusy \in BOOLEAN
    /\ dbHealthCache \in [isDbOverloaded: BOOLEAN, age: 0..(Stale + 1)]
    /\ refresh \in {"none", "busy", "free"}
    /\ stack \in Arrivals \union {Nobody}
    /\ {globalRequests, bookingActiveRequests} \subseteq 0..1
    /\ arrival \in [Arrivals -> [kind: {"probe", "booking", "other"}, pc: {"new", "booking", "handler", "shed", "done"}]]

InHandler(kinds) == {q \in Arrivals : arrival[q].pc = "handler" /\ arrival[q].kind \in kinds}

\* "returning 503 when either limit is exceeded" (middleware/backpressure.js:7): no more requests are in their handlers
\* than the global limit, and no more bookings than theirs.
LoadBounded ==
    /\ Cardinality(InHandler({"booking", "other"})) <= MAX_CONCURRENT_GLOBAL
    /\ Cardinality(InHandler({"booking"})) <= MAX_CONCURRENT_BOOKING
=============================================================================
