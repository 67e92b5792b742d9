----------------------------- MODULE Migrations -----------------------------
(***************************************************************************)
(* The migration script (planbuddy_v9/apply-all-migrations.js): deploys    *)
(* run it one after another or at the same time.  The files are numbered   *)
(* in the order of their prefixes, which are their versions.  A file is    *)
(* sent as one string with its own BEGIN and COMMIT; most files, not the   *)
(* script, record their version in schema_migrations, inside that          *)
(* transaction.                                                            *)
(***************************************************************************)
EXTENDS Naturals, FiniteSets, FiniteSetsExt

CONSTANTS Deploys, FileCount,
          Silent,     \* files that do not record themselves
          Tailed,     \* files with CREATE INDEX CONCURRENTLY after their COMMIT
          StandsFor   \* of each file: the earlier ones it repeats and records

Files == 1..FileCount

FilesAssumption == FileCount \in Nat /\ StandsFor \in [Files -> SUBSET Files]

VARIABLES done,       \* files whose transaction has been committed
          recorded,   \* versions in schema_migrations
          deploy,     \* [pc, pending, poisoned]
          failures,   \* failureCount > 0
          exitCode    \* 2 is a deploy that was killed, 3 one that has not ended

vars == << done, recorded, deploy, failures, exitCode >>

Running == 3

\* The database may be new, or come from earlier deploys that left gaps.
Init ==
    /\ done \in SUBSET Files
    /\ \A f \in done : StandsFor[f] \subseteq done
    /\ recorded = done \ Silent
    /\ deploy = [d \in Deploys |-> [pc |-> "new", pending |-> {}, poisoned |-> FALSE]]
    /\ failures = [d \in Deploys |-> FALSE]
    /\ exitCode = [d \in Deploys |-> Running]

\* getMigrationFiles sorts by version.
getMigrationFiles(pending) == Min(pending)

\* Fault: the files after the last recorded one.
PendingAfterLast(applied) == {f \in Files : \A g \in applied : f > g}

Pending(applied) == {f \in Files : f \notin applied}

Exits(d, code) == exitCode' = [exitCode EXCEPT ![d] = code]

\* A query that fails, for whatever reason, counts as a missing table; a directory that cannot be read ends the script.
getAppliedMigrations(d) ==
    /\ deploy[d].pc = "new"
    /\ \E applied \in {recorded, {}} :
         /\ deploy' = [deploy EXCEPT ![d] = [pc |-> "apply", pending |-> Pending(applied), poisoned |-> FALSE]]
         /\ Exits(d, IF Pending(applied) = {} THEN 0 ELSE Running)
    /\ UNCHANGED << done, recorded, failures >>

CannotStart(d) ==
    /\ deploy[d].pc = "new"
    /\ deploy' = [deploy EXCEPT ![d].pc = "fatal"]
    /\ Exits(d, 1)
    /\ UNCHANGED << done, recorded, failures >>

\* COMMIT; CONCURRENTLY in a string of several statements is always refused, after it.  The answer may be lost as well.
FileCommits(d, f, ok) ==
    /\ ~deploy[d].poisoned
    /\ ok => f \notin Tailed
    /\ done' = done \union {f} \union StandsFor[f]
    /\ recorded' = recorded \union (({f} \union StandsFor[f]) \ Silent)
    /\ deploy' = [deploy EXCEPT ![d].pending = @ \ {f}]
    /\ failures' = [failures EXCEPT ![d] = @ \/ ~ok]

\* An error before COMMIT.  The client goes back to the pool with the aborted transaction, and the next file gets the
\* same client, whose BEGIN is refused, until the connection is lost.
FileFails(d, f) ==
    /\ \E poisoned \in BOOLEAN :
         deploy' = [deploy EXCEPT ![d].pending = @ \ {f}, ![d].poisoned = poisoned]
    /\ failures' = [failures EXCEPT ![d] = TRUE]
    /\ UNCHANGED << done, recorded >>

\* The loop goes on whatever the result was.
applyMigration(d) ==
    /\ deploy[d].pc = "apply" /\ exitCode[d] = Running
    /\ deploy[d].pending # {}
    /\ LET f == getMigrationFiles(deploy[d].pending) IN
         FileFails(d, f) \/ \E ok \in BOOLEAN : FileCommits(d, f, ok)
    /\ UNCHANGED exitCode

main(d) ==
    /\ deploy[d].pc = "apply" /\ exitCode[d] = Running
    /\ deploy[d].pending = {}
    /\ Exits(d, IF failures[d] THEN 1 ELSE 0)
    /\ UNCHANGED << done, recorded, deploy, failures >>

Killed(d) ==
    /\ exitCode[d] = Running
    /\ Exits(d, 2)
    /\ UNCHANGED << done, recorded, deploy, failures >>

Next == \E d \in Deploys : getAppliedMigrations(d) \/ CannotStart(d) \/ applyMigration(d) \/ main(d) \/ Killed(d)

Spec == Init /\ [][Next]_vars

-----------------------------------------------------------------------------
TypeOK ==
    /\ done \subseteq Files /\ recorded \subseteq Files
    /\ deploy \in [Deploys -> [pc: {"new", "apply", "fatal"}, pending: SUBSET Files, poisoned: BOOLEAN]]
    /\ failures \in [Deploys -> BOOLEAN]
    /\ exitCode \in [Deploys -> 0..Running]

\* A deploy that exits with 0 has left no file out, although earlier or concurrent ones failed in the middle, went on after
\* an error or were killed.  What follows the COMMIT of a tailed file is not promised: that file is recorded all the same
\* and is never sent again.
ExitZeroIsComplete == (\E d \in Deploys : exitCode[d] = 0) => Files \subseteq done
=============================================================================
