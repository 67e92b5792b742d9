--------------------------- MODULE NotifyListener ---------------------------
(***************************************************************************)
(* The LISTEN connection of a worker process (notify-listener.js): one     *)
(* client taken from the pool for good, torn down and replaced after any   *)
(* error, with a timer between attempts, and a debounce timer in front of  *)
(* the wakeups.                                                            *)
(*                                                                         *)
(* External: the pool and pg.  A client whose connection broke emits       *)
(* 'error' and 'end' and rejects what it was asked; all three reach the    *)
(* listener long before its shortest timer (500 ms) fires.                 *)
(***************************************************************************)
EXTENDS Naturals, FiniteSets

CONSTANTS Clients,    \* names for pool clients; a released one is used again
          None,
          MaxFaults   \* bound on broken connections and failed attempts

ListenerAssumption == None \notin Clients /\ MaxFaults \in Nat

VARIABLES _client,          \* this._client
          _connected,
          _reconnectTimer,  \* a reconnect is scheduled
          _stopping,
          _debounceTimer,   \* a wakeup of the one queue is pending
          getting,          \* _connect calls that wait for db.getClient
          listens,          \* clients whose LISTEN is awaited by a _connect call
          out,              \* clients checked out of the pool
          wired,            \* clients with this listener's handlers
          heard,            \* clients for which the server holds a LISTEN
          dead,             \* clients whose connection broke
          events,           \* << kind, client >> still to be emitted
          unlisten,         \* stop() waits for UNLISTEN
          faults

vars == << _client, _connected, _reconnectTimer, _stopping, _debounceTimer, getting, listens, out, wired, heard,
           dead, events, unlisten, faults >>

Link == << out, wired, heard, dead, events >>

\* start() calls _connect, which waits for a client first.
Init ==
    /\ _client = None /\ _connected = FALSE /\ _reconnectTimer = FALSE /\ _stopping = FALSE
    /\ _debounceTimer = FALSE
    /\ getting = 1 /\ listens = {}
    /\ out = {} /\ wired = {} /\ heard = {} /\ dead = {} /\ events = {}
    /\ unlisten = FALSE
    /\ faults = 0

Fault == /\ faults < MaxFaults
         /\ faults' = faults + 1

\* Fault: a failed attempt is not tried again.
NoReconnect == UNCHANGED _reconnectTimer

_scheduleReconnect == _reconnectTimer' = (_reconnectTimer \/ ~_stopping)

-----------------------------------------------------------------------------
(* _connect                                                                *)

GotClient ==
    /\ getting > 0 /\ getting' = getting - 1
    /\ \E c \in Clients \ (out \union listens) :
           /\ ~\E kind \in {"error", "end"} : << kind, c >> \in events
           /\ _client' = c
           /\ out' = out \union {c}
           /\ wired' = wired \union {c}
           /\ listens' = listens \union {c}
           /\ dead' = dead \ {c}
    /\ UNCHANGED << _connected, _reconnectTimer, _stopping, _debounceTimer, heard, events, unlisten, faults >>

NoClient ==
    /\ getting > 0 /\ getting' = getting - 1
    /\ Fault
    /\ _scheduleReconnect
    /\ UNCHANGED << _client, _connected, _stopping, _debounceTimer, listens, Link, unlisten >>

Listening(c) ==
    /\ c \in listens \ dead
    /\ listens' = listens \ {c}
    /\ heard' = heard \union {c}
    /\ _connected' = TRUE
    /\ UNCHANGED << _client, _reconnectTimer, _stopping, _debounceTimer, getting, out, wired, dead, events, unlisten,
                    faults >>

\* The LISTEN fails, with its connection or by itself.
ListenFails(c) ==
    /\ c \in listens /\ listens' = listens \ {c}
    /\ IF c \in dead THEN UNCHANGED faults ELSE Fault
    /\ _scheduleReconnect
    /\ UNCHANGED << _client, _connected, _stopping, _debounceTimer, getting, Link, unlisten >>

-----------------------------------------------------------------------------
(* The connection and its handlers.  An event of a client whose handlers   *)
(* were removed reaches nobody.                                            *)

Breaks(c) ==
    /\ c \in out \ dead
    /\ Fault
    /\ dead' = dead \union {c}
    /\ heard' = heard \ {c}
    /\ events' = events \union {<< "error", c >>, << "end", c >>}
    /\ UNCHANGED << _client, _connected, _reconnectTimer, _stopping, _debounceTimer, getting, listens, out, wired,
                    unlisten >>

_onError(c) ==
    /\ << "error", c >> \in events /\ events' = events \ {<< "error", c >>}
    /\ IF c \in wired
       THEN _connected' = FALSE /\ _scheduleReconnect
       ELSE UNCHANGED << _connected, _reconnectTimer >>
    /\ UNCHANGED << _client, _stopping, _debounceTimer, getting, listens, out, wired, heard, dead, unlisten, faults >>

_onEnd(c) ==
    /\ << "end", c >> \in events /\ events' = events \ {<< "end", c >>}
    /\ IF c \in wired /\ ~_stopping
       THEN _connected' = FALSE /\ _scheduleReconnect
       ELSE UNCHANGED << _connected, _reconnectTimer >>
    /\ UNCHANGED << _client, _stopping, _debounceTimer, getting, listens, out, wired, heard, dead, unlisten, faults >>

\* Fault: the old client is dropped without being released.
DropsClient(c) ==
    /\ wired' = wired \ {c}
    /\ UNCHANGED << out, heard, dead >>

\* removeAllListeners and release(true), which destroys the connection.
Release(c) ==
    /\ wired' = wired \ {c}
    /\ out' = out \ {c}
    /\ heard' = heard \ {c}
    /\ dead' = dead \union ({c} \intersect listens)

TimerFires ==
    /\ _reconnectTimer
    /\ events = {} /\ listens \intersect dead = {}
    /\ _reconnectTimer' = FALSE
    /\ IF _client = None THEN UNCHANGED Link ELSE Release(_client) /\ UNCHANGED events
    /\ _client' = None
    /\ getting' = IF _stopping THEN getting ELSE getting + 1
    /\ UNCHANGED << _connected, _stopping, _debounceTimer, listens, unlisten, faults >>

-----------------------------------------------------------------------------
(* Wakeups                                                                 *)

_onNotification ==
    /\ heard \intersect wired # {}
    /\ ~_debounceTimer
    /\ _debounceTimer' = TRUE
    /\ UNCHANGED << _client, _connected, _reconnectTimer, _stopping, getting, listens, Link, unlisten, faults >>

DebounceFires ==
    /\ _debounceTimer
    /\ _debounceTimer' = FALSE
    /\ UNCHANGED << _client, _connected, _reconnectTimer, _stopping, getting, listens, Link, unlisten, faults >>

-----------------------------------------------------------------------------
(* stop                                                                    *)

stop ==
    /\ ~_stopping
    /\ _stopping' = TRUE
    /\ _reconnectTimer' = FALSE
    /\ unlisten' = (_client # None)
    /\ UNCHANGED << _client, _connected, _debounceTimer, getting, listens, Link, faults >>

Unlistened ==
    /\ unlisten /\ unlisten' = FALSE
    /\ IF _client \in dead THEN UNCHANGED Link ELSE Release(_client) /\ UNCHANGED events
    /\ UNCHANGED << _client, _connected, _reconnectTimer, _stopping, _debounceTimer, getting, listens, faults >>

-----------------------------------------------------------------------------
Connecting == GotClient \/ \E c \in Clients : Listening(c) \/ (c \in dead /\ ListenFails(c))
Emitting == \E c \in Clients : _onError(c) \/ _onEnd(c)

Next ==
    \/ GotClient \/ NoClient \/ TimerFires
    \/ \E c \in Clients : Listening(c) \/ ListenFails(c) \/ Breaks(c)
    \/ \E c \in Clients : _onError(c) \/ _onEnd(c)
    \/ _onNotification \/ DebounceFires
    \/ stop \/ Unlistened

Spec == Init /\ [][Next]_vars

-----------------------------------------------------------------------------
TypeOK ==
    /\ _client \in Clients \union {None}
    /\ {_connected, _reconnectTimer, _stopping, _debounceTimer, unlisten} \subseteq BOOLEAN
    /\ getting \in Nat
    /\ listens \subseteq Clients
    /\ out \subseteq Clients /\ wired \subseteq Clients /\ heard \subseteq Clients /\ dead \subseteq Clients
    /\ events \subseteq ({"error", "end"} \X Clients)
    /\ faults \in 0..MaxFaults

\* One LISTEN connection per process: however errors, ends and failed attempts overlap, at most one client is checked
\* out or being asked for, and while the listener runs it is the one that the next reconnect will release.
OneConnection ==
    /\ Cardinality(out) + getting <= 1
    /\ out \subseteq {_client}

\* A listener that is not connected reconnects, unless it is stopped.
Reconnects == ~_connected ~> (_connected \/ _stopping)
=============================================================================
