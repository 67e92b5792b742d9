---------------------------- MODULE RedisClient ----------------------------
(***************************************************************************)
(* One client of planbuddy_v9/config/redis.js: ioredis' reconnect loop     *)
(* with the circuit that createClient wires into it.  Time is counted in   *)
(* ticks.  External: ioredis asks retryStrategy after every close, waits   *)
(* as long as it says and tries to connect for at most ConnectTimeout, and *)
(* it never connects again after 'end'.                                    *)
(***************************************************************************)
EXTENDS Naturals

CONSTANTS MAX_RECONNECT_ATTEMPTS,
          Cooldown,         \* CIRCUIT_BREAKER_COOLDOWN_MS
          MaxDelay,         \* longest delay of reconnectStrategy, jitter included
          ConnectTimeout    \* CONNECT_TIMEOUT_MS

ClientAssumption ==
    /\ {MAX_RECONNECT_ATTEMPTS, Cooldown, MaxDelay, ConnectTimeout} \subseteq Nat
    /\ MAX_RECONNECT_ATTEMPTS > 0
    /\ MaxDelay + ConnectTimeout < Cooldown

VARIABLES status,              \* "connecting", "connected", "reconnecting", "end"
          left,                \* ticks until the timer of the status fires
          open,                \* the circuit
          openFor,             \* ticks since openSince, up to Cooldown
          attemptsSinceOpen,
          tries                \* ghost: reconnects tried since the client was last connected

clientVars == << status, left, open, openFor, attemptsSinceOpen, tries >>

\* Both clients are constructed connecting, or connect on their first command.
ClientInit ==
    /\ status = "connecting" /\ left = ConnectTimeout
    /\ open = FALSE /\ openFor = 0 /\ attemptsSinceOpen = 0
    /\ tries = 0

\* Fault: the attempt that reaches the limit does not count.
TripsLate(attempts) == attempts > MAX_RECONNECT_ATTEMPTS

Trips(attempts) == attempts >= MAX_RECONNECT_ATTEMPTS

\* isCircuitOpen closes a circuit that has cooled down.
isCircuitOpen == open /\ openFor < Cooldown

\* The event 'close': reconnectStrategy, and recordAttempt on 'reconnecting'.
Closes ==
    IF isCircuitOpen
    THEN /\ status' = "end" /\ left' = 0
         /\ UNCHANGED << open, openFor, attemptsSinceOpen >>
    ELSE LET attempts == (IF open THEN 0 ELSE attemptsSinceOpen) + 1 IN
         /\ status' = "reconnecting"
         /\ left' \in 0..MaxDelay
         /\ open' = Trips(attempts)
         /\ openFor' = 0
         /\ attemptsSinceOpen' = IF Trips(attempts) THEN 0 ELSE attempts

Breaks ==
    /\ status = "connected"
    /\ Closes
    /\ UNCHANGED tries

ConnectFails ==
    /\ status = "connecting"
    /\ Closes
    /\ UNCHANGED tries

Reconnect ==
    /\ status = "reconnecting" /\ left = 0
    /\ status' = "connecting" /\ left' = ConnectTimeout
    /\ tries' = tries + 1
    /\ UNCHANGED << open, openFor, attemptsSinceOpen >>

\* The event 'connect' resets the attempts and leaves the circuit as it is.
Connects ==
    /\ status = "connecting"
    /\ status' = "connected" /\ left' = 0
    /\ attemptsSinceOpen' = 0
    /\ tries' = 0
    /\ UNCHANGED << open, openFor >>

\* No timer is overdue.
TimePasses ==
    /\ status \in {"connecting", "reconnecting"} => left > 0
    /\ left' = IF left > 0 THEN left - 1 ELSE 0
    /\ openFor' = IF open /\ openFor < Cooldown THEN openFor + 1 ELSE openFor
    /\ UNCHANGED << status, open, attemptsSinceOpen, tries >>

ClientTypeOK ==
    /\ status \in {"connecting", "connected", "reconnecting", "end"}
    /\ left \in 0..(MaxDelay + ConnectTimeout)
    /\ open \in BOOLEAN
    /\ openFor \in 0..Cooldown
    /\ attemptsSinceOpen \in 0..MAX_RECONNECT_ATTEMPTS
    /\ tries \in Nat

\* No reconnect storm: however connections break and attempts fail, and wherever the circuit is when they do, the client
\* tries at most MAX_RECONNECT_ATTEMPTS times to reconnect before it is connected again or has given up.
StormBounded == tries <= MAX_RECONNECT_ATTEMPTS
=============================================================================
