------------------------------ MODULE Credentials ------------------------------
(***************************************************************************)
(* Refresh tokens, reset codes and password changes of one account         *)
(* (planbuddy_v9/controllers/authController.js).  The refresh token store  *)
(* in Redis and the mail service are external; rotating a token is one     *)
(* step of the store.  Access tokens are the business of Session, wrong    *)
(* passwords that of Login.                                                *)
(*                                                                         *)
(* A refresh token is named by the tick in which it was created, one per   *)
(* tick.  password_changed_at is the NOW() of a transaction that may have  *)
(* begun long before it updates the row.                                   *)
(***************************************************************************)
EXTENDS Naturals

CONSTANTS Requests,
          MaxNow,          \* bound: the clock stops there
          MaxAttempts      \* wrong codes until a code is dropped

ClockAssumption == MaxNow \in Nat \ {0}

VARIABLES now,
          exists, is_active, password_changed_at,    \* the users row, 0 for null
          live, spent,      \* refresh tokens in Redis; tokens that were rotated
          reset,            \* the password_reset_tokens row: [code, attempts], code 0 when there is none
          codes,            \* codes stored so far
          request,          \* [pc, token, code, at, late]: what it presented, and the NOW() of its transaction
          settled           \* ghost: when the last password change that was answered with success took effect

user == << exists, is_active, password_changed_at >>
refresh == << live, spent >>
otp == << reset, codes >>
vars == << now, user, refresh, otp, request, settled >>

NoReset == [code |-> 0, attempts |-> 0]

Init ==
    /\ now = 1
    /\ exists \in BOOLEAN /\ is_active = TRUE /\ password_changed_at = 0
    /\ live = (IF exists THEN {1} ELSE {}) /\ spent = {}
    /\ reset = NoReset /\ codes = 0
    /\ request = [q \in Requests |-> [pc |-> "new", token |-> 0, code |-> 0, at |-> 0, late |-> FALSE]]
    /\ settled = 0

At(q, pc) == request[q].pc = pc
Goes(q, pc) == request' = [request EXCEPT ![q].pc = pc]

-----------------------------------------------------------------------------
(* register, login                                                         *)

register(q) ==
    /\ At(q, "new")
    /\ Goes(q, IF exists THEN "refused" ELSE "insert")
    /\ UNCHANGED << now, user, refresh, otp, settled >>

\* email is UNIQUE: the slower of two registrations fails.
InsertUser(q) ==
    /\ At(q, "insert")
    /\ exists' = TRUE
    /\ Goes(q, IF exists THEN "refused" ELSE "create")
    /\ UNCHANGED << now, is_active, password_changed_at, refresh, otp, settled >>

login(q) ==
    /\ At(q, "new")
    /\ exists /\ is_active
    /\ Goes(q, "create")
    /\ UNCHANGED << now, user, refresh, otp, settled >>

Fresh == now \notin live \union spent /\ now > 1

createRefreshToken(q) ==
    /\ At(q, "create") /\ Fresh
    /\ live' = live \union {now}
    /\ Goes(q, "done")
    /\ UNCHANGED << now, user, spent, otp, settled >>

-----------------------------------------------------------------------------
(* refresh, logout, revokeSession                                          *)

\* A live token is exchanged for a new one; one that was exchanged before revokes everything.
rotateRefreshToken(q, token) ==
    /\ At(q, "new")
    /\ \/ /\ token \in live /\ Fresh
          /\ live' = (live \ {token}) \union {now}
          /\ spent' = spent \union {token}
          /\ request' = [request EXCEPT ![q] = [@ EXCEPT !.pc = "read", !.token = token, !.late = token < settled]]
       \/ /\ token \in spent
          /\ Goes(q, "revoke")
          /\ UNCHANGED refresh
    /\ UNCHANGED << now, user, otp, settled >>

\* The row is read after the rotation.
refreshToken(q) ==
    /\ At(q, "read")
    /\ Goes(q, IF ~is_active \/ request[q].token < password_changed_at THEN "revoke" ELSE "issued")
    /\ UNCHANGED << now, user, refresh, otp, settled >>

logout(q, token) ==
    /\ At(q, "new")
    /\ token \in live
    /\ live' = live \ {token}
    /\ Goes(q, "done")
    /\ UNCHANGED << now, user, spent, otp, settled >>

\* One session, from the list of the user: the token it holds by now goes with it, or there is none (404).
revokeSession(q, token) ==
    /\ At(q, "new")
    /\ live' = live \ {token}
    /\ Goes(q, IF token \in live THEN "done" ELSE "refused")
    /\ UNCHANGED << now, user, spent, otp, settled >>

-----------------------------------------------------------------------------
(* forgotPassword, resetPassword, changePassword                           *)

forgotPassword(q) ==
    /\ At(q, "new")
    /\ exists /\ is_active
    /\ Goes(q, "store")
    /\ UNCHANGED << now, user, refresh, otp, settled >>

\* INSERT ... ON CONFLICT DO UPDATE; the mail with the code may be lost.
StoreCode(q) ==
    /\ At(q, "store")
    /\ codes' = codes + 1
    /\ reset' = [code |-> codes', attempts |-> 0]
    /\ Goes(q, "done")
    /\ UNCHANGED << now, user, refresh, settled >>

\* The row is read; the code is compared outside the database.
resetPassword(q, code) ==
    /\ At(q, "new")
    /\ is_active /\ reset # NoReset
    /\ LET next == CASE reset.attempts >= MaxAttempts -> "drop"
                     [] reset.attempts < MaxAttempts /\ code # reset.code -> "wrong"
                     [] OTHER -> "hash"
       IN request' = [request EXCEPT ![q] = [@ EXCEPT !.pc = next, !.code = code]]
    /\ UNCHANGED << now, user, refresh, otp, settled >>

\* DELETE and UPDATE by user_id meet whatever row is there by now.
DropCode(q) ==
    /\ At(q, "drop")
    /\ reset' = NoReset
    /\ Goes(q, "refused")
    /\ UNCHANGED << now, user, refresh, codes, settled >>

CountAttempt(q) ==
    /\ At(q, "wrong")
    /\ reset' = IF reset = NoReset THEN reset ELSE [reset EXCEPT !.attempts = @ + 1]
    /\ Goes(q, "refused")
    /\ UNCHANGED << now, user, refresh, codes, settled >>

\* The current password was compared with the row that was read.
changePassword(q) ==
    /\ At(q, "new")
    /\ exists
    /\ Goes(q, "hash")
    /\ UNCHANGED << now, user, refresh, otp, settled >>

\* The transaction of resetPassword, or the single UPDATE of changePassword, begins.
BeginUpdate(q) ==
    /\ At(q, "hash")
    /\ request' = [request EXCEPT ![q] = [@ EXCEPT !.pc = "commit", !.at = now]]
    /\ UNCHANGED << now, user, refresh, otp, settled >>

CodeAfter(q) == IF request[q].code # 0 THEN NoReset ELSE reset

\* password_changed_at is set to the time of the beginning; with an update that overtook this one it goes back.
CommitUpdate(q) ==
    /\ At(q, "commit")
    /\ password_changed_at' = request[q].at
    /\ reset' = CodeAfter(q)
    /\ request' = [request EXCEPT ![q] = [@ EXCEPT !.pc = "revoke", !.at = now]]
    /\ UNCHANGED << now, exists, is_active, refresh, codes, settled >>

\* Fault: only the token that was presented is deleted.
DeletesOwn(q) == live \ {request[q].token}

Deletes(q) == {}

Latest(a, b) == IF a < b THEN b ELSE a

\* Last step of a change, and answer to a token that was used before or is too old.
revokeAllRefreshTokensForUser(q) ==
    /\ At(q, "revoke")
    /\ live' = Deletes(q)
    /\ Goes(q, "done")
    /\ settled' = Latest(settled, request[q].at)
    /\ UNCHANGED << now, user, spent, otp >>

-----------------------------------------------------------------------------
\* PostgreSQL or Redis fails: next(err), with whatever was done before.
Fails(q) ==
    /\ request[q].pc \in {"insert", "create", "read", "store", "drop", "wrong", "hash", "commit", "revoke"}
    /\ Goes(q, "refused")
    /\ UNCHANGED << now, user, refresh, otp, settled >>

Deactivate ==
    /\ is_active /\ is_active' = FALSE
    /\ UNCHANGED << now, exists, password_changed_at, refresh, otp, request, settled >>

CodeExpires ==
    /\ reset # NoReset /\ reset' = NoReset
    /\ UNCHANGED << now, user, refresh, codes, request, settled >>

Tick ==
    /\ now < MaxNow
    /\ now' = now + 1
    /\ UNCHANGED << user, refresh, otp, request, settled >>

Next ==
    \/ \E q \in Requests :
         \/ register(q) \/ InsertUser(q) \/ login(q) \/ createRefreshToken(q)
         \/ \E token \in live \union spent : rotateRefreshToken(q, token) \/ logout(q, token) \/ revokeSession(q, token)
         \/ refreshToken(q)
         \/ forgotPassword(q) \/ StoreCode(q)
         \/ \E code \in 1..(codes + 1) : resetPassword(q, code)
         \/ DropCode(q) \/ CountAttempt(q)
         \/ changePassword(q) \/ BeginUpdate(q) \/ CommitUpdate(q) \/ revokeAllRefreshTokensForUser(q)
         \/ Fails(q)
    \/ Deactivate \/ CodeExpires \/ Tick

Spec == Init /\ [][Next]_vars

-----------------------------------------------------------------------------
TypeOK ==
    /\ now \in 1..MaxNow
    /\ exists \in BOOLEAN /\ is_active \in BOOLEAN
    /\ {password_changed_at, settled} \subseteq 0..now
    /\ live \subseteq 1..now /\ spent \subseteq 1..now /\ live \intersect spent = {}
    /\ reset \in [code: 0..codes, attempts: Nat]
    /\ codes \in Nat
    /\ request \in [Requests -> [pc: {"new", "insert", "create", "read", "issued", "store", "drop", "wrong", "hash", "commit",
                                      "revoke", "done", "refused"},
                                 token: 0..now, code: Nat, at: 0..now, late: BOOLEAN]]

\* Once a password change was answered with success, a refresh token from before it never yields an access token again,
\* also when overlapping changes set password_changed_at back.
RefreshAfterChange == \A q \in Requests : At(q, "issued") => ~request[q].late
===============================================================================
