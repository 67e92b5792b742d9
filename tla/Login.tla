------------------------------- MODULE Login -------------------------------
(***************************************************************************)
(* The failed-login counter and lock of one user (login in                 *)
(* planbuddy_v9/controllers/authController.js).  A login reads the row,    *)
(* compares the password outside the database and writes the counter it    *)
(* computed from what it read; logins of one user overlap.                 *)
(***************************************************************************)
EXTENDS Naturals

CONSTANTS Logins,             \* login requests
          MAX_FAILED_LOGINS

LimitAssumption == MAX_FAILED_LOGINS \in Nat

VARIABLES failed_login_attempts,
          locked_until,   \* "null", "future", "past"
          is_active,
          login,          \* [pc, read]: "idle", "compare", "wrong", "right", "done" and the counter that was read
          failures        \* ghost: passwords found wrong so far

vars == << failed_login_attempts, locked_until, is_active, login, failures >>

Init ==
    /\ failed_login_attempts = 0 /\ locked_until = "null"
    /\ is_active \in BOOLEAN
    /\ login = [l \in Logins |-> [pc |-> "idle", read |-> 0]]
    /\ failures = 0

Row == << failed_login_attempts, locked_until, is_active >>

At(l, pc) == login[l].pc = pc
Goes(l, pc) == login' = [login EXCEPT ![l].pc = pc]

-----------------------------------------------------------------------------
\* The row is read; an inactive or locked account ends the request.
ReadUser(l) ==
    /\ At(l, "idle")
    /\ login' = [login EXCEPT ![l] =
           [pc |-> IF is_active /\ locked_until # "future" THEN "compare" ELSE "done", read |-> failed_login_attempts]]
    /\ UNCHANGED << Row, failures >>

Compare(l) ==
    /\ At(l, "compare")
    /\ \/ Goes(l, "right") /\ UNCHANGED failures
       \/ Goes(l, "wrong") /\ failures' = failures + 1
    /\ UNCHANGED Row

\* Fault: the counter is compared before it is incremented twice.
LocksAtEarly(attempts) == attempts + 1 >= MAX_FAILED_LOGINS

LocksAt(attempts) == attempts >= MAX_FAILED_LOGINS

\* One UPDATE writes both columns: a count below the limit also clears the lock.
RecordFailure(l) ==
    /\ At(l, "wrong")
    /\ Goes(l, "done")
    /\ LET newAttempts == login[l].read + 1 IN
       /\ failed_login_attempts' = newAttempts
       /\ locked_until' = IF LocksAt(newAttempts) THEN "future" ELSE "null"
    /\ UNCHANGED << is_active, failures >>

\* The counter is reset only if it was read as positive.
RecordSuccess(l) ==
    /\ At(l, "right")
    /\ Goes(l, "done")
    /\ IF login[l].read > 0
       THEN failed_login_attempts' = 0 /\ locked_until' = "null"
       ELSE UNCHANGED << failed_login_attempts, locked_until >>
    /\ UNCHANGED << is_active, failures >>

\* A statement fails, and next(err) answers the request.
StatementFails(l) ==
    /\ login[l].pc \in {"idle", "wrong", "right"}
    /\ Goes(l, "done")
    /\ UNCHANGED << Row, failures >>

\* Fifteen minutes pass; the counter stays where it is.
LockEnds ==
    /\ locked_until = "future"
    /\ locked_until' = "past"
    /\ UNCHANGED << failed_login_attempts, is_active, login, failures >>

Next ==
    \/ \E l \in Logins : \/ ReadUser(l) \/ Compare(l) \/ RecordFailure(l) \/ RecordSuccess(l) \/ StatementFails(l)
    \/ LockEnds

Spec == Init /\ [][Next]_vars

-----------------------------------------------------------------------------
TypeOK ==
    /\ failed_login_attempts \in Nat
    /\ locked_until \in {"null", "future", "past"}
    /\ is_active \in BOOLEAN
    /\ login \in [Logins -> [pc: {"idle", "compare", "wrong", "right", "done"}, read: Nat]]
    /\ failures \in Nat

\* However overlapping logins overwrite each other's counter, it never runs ahead of the wrong passwords, and the account is
\* locked only after at least MAX_FAILED_LOGINS of them.
LockIsEarned ==
    /\ failed_login_attempts <= failures
    /\ locked_until # "null" => failures >= MAX_FAILED_LOGINS
=============================================================================
