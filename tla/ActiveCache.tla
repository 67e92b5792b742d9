---------------------------- MODULE ActiveCache ----------------------------
(***************************************************************************)
(* The last check of authenticate: isUserActive (planbuddy_v9/middleware/  *)
(* index.js), which believes a flag cached in Redis for USER_ACTIVE_TTL,   *)
(* and fills the cache with a SET that nobody waits for.                   *)
(*                                                                         *)
(* External: administrators, who change is_active and may or may not call  *)
(* invalidateUserActiveCache (the repository has no caller); Redis, which  *)
(* may fail any command and forget the key at any time.                    *)
(***************************************************************************)
EXTENDS Naturals

CONSTANTS Requests,
          UserActiveTTL       \* USER_ACTIVE_TTL in ticks

TTLAssumption == UserActiveTTL \in Nat

VARIABLES is_active,
          since,     \* ghost: ticks since is_active changed, up to UserActiveTTL
          cache,     \* user:active:<id>: its value and the ticks it has left, 0 when there is none
          request,   \* "idle", "cache", "row", "accepted", "refused", "failed"
          sets       \* values of SETs on their way

vars == << is_active, since, cache, request, sets >>

Absent == [value |-> FALSE, left |-> 0]

Init ==
    /\ is_active \in BOOLEAN
    /\ since = UserActiveTTL
    /\ cache = Absent
    /\ request = [q \in Requests |-> "idle"]
    /\ sets = {}

Answers(q, active) == request' = [request EXCEPT ![q] = IF active THEN "accepted" ELSE "refused"]
Goes(q, pc) == request' = [request EXCEPT ![q] = pc]

Arrives(q) ==
    /\ request[q] = "idle"
    /\ Goes(q, "cache")
    /\ UNCHANGED << is_active, since, cache, sets >>

\* Fault: a hit keeps the flag in the cache for another USER_ACTIVE_TTL.
AskCacheSliding(q) ==
    /\ request[q] = "cache"
    /\ \/ cache.left > 0 /\ Answers(q, cache.value) /\ cache' = [cache EXCEPT !.left = UserActiveTTL]
       \/ Goes(q, "row") /\ UNCHANGED cache
    /\ UNCHANGED << is_active, since, sets >>

\* A cached flag decides; a miss or a failing GET leads to the row.
AskCache(q) ==
    /\ request[q] = "cache"
    /\ \/ cache.left > 0 /\ Answers(q, cache.value)
       \/ Goes(q, "row")
    /\ UNCHANGED << is_active, since, cache, sets >>

\* The row decides, and its flag is on its way to the cache.  Without the row the request is refused.
AskRow(q) ==
    /\ request[q] = "row"
    /\ \/ Answers(q, is_active) /\ sets' = sets \union {is_active}
       \/ Goes(q, "failed") /\ UNCHANGED sets
    /\ UNCHANGED << is_active, since, cache >>

Fill(active) == cache' = [value |-> active, left |-> UserActiveTTL]

\* SETs of different requests arrive in any order, or fail.
SetArrives ==
    /\ \E active \in sets : /\ sets' = sets \ {active}
                            /\ Fill(active) \/ UNCHANGED cache
    /\ UNCHANGED << is_active, since, request >>

Answered(q) ==
    /\ request[q] \in {"accepted", "refused", "failed"}
    /\ Goes(q, "idle")
    /\ UNCHANGED << is_active, since, cache, sets >>

-----------------------------------------------------------------------------
ChangeStatus ==
    /\ is_active' = ~is_active
    /\ since' = 0
    /\ UNCHANGED << cache, request, sets >>

\* invalidateUserActiveCache, or Redis that forgets.
invalidateUserActiveCache ==
    /\ cache.left > 0
    /\ cache' = Absent
    /\ UNCHANGED << is_active, since, request, sets >>

\* A SET is on its way for less than a tick.
Tick ==
    /\ sets = {}
    /\ cache' = IF cache.left > 1 THEN [cache EXCEPT !.left = @ - 1] ELSE Absent
    /\ since' = IF since < UserActiveTTL THEN since + 1 ELSE since
    /\ UNCHANGED << is_active, request, sets >>

Next ==
    \/ \E q \in Requests : Arrives(q) \/ AskCache(q) \/ AskRow(q) \/ Answered(q)
    \/ SetArrives
    \/ ChangeStatus \/ invalidateUserActiveCache
    \/ Tick

Spec == Init /\ [][Next]_vars

-----------------------------------------------------------------------------
TypeOK ==
    /\ is_active \in BOOLEAN
    /\ since \in 0..UserActiveTTL
    /\ cache \in [value: BOOLEAN, left: 0..UserActiveTTL]
    /\ request \in [Requests -> {"idle", "cache", "row", "accepted", "refused", "failed"}]
    /\ sets \subseteq BOOLEAN

\* An answer of isUserActive contradicts the row only within USER_ACTIVE_TTL of a change, even when a request that read the
\* row before the change fills the cache after the administrator invalidated it, and SETs overtake each other.
ActiveFlagIsFresh ==
    [][\A q \in Requests :
         /\ request[q] # "accepted" /\ request'[q] = "accepted" => is_active \/ since < UserActiveTTL
         /\ request[q] # "refused" /\ request'[q] = "refused" => ~is_active \/ since < UserActiveTTL]_vars
=============================================================================
