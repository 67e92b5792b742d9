------------------------------ MODULE MCGuards ------------------------------
(* Parts of the processes that guard what must happen once, in bounds or not *)
(* any more, and share no state: the token bucket of a provider, the journal *)
(* of an operation, the conflict counter and the rate limiter of an address, *)
(* the credentials of an account, and the migrations of a database.  A       *)
(* behaviour follows one of them; the others stay where they start.          *)
EXTENDS TokenBucket, FiniteSets

CONSTANTS Attempts,
          Conflicts, CONFLICT_LIMIT,
          Processes, max, MaxRetries,
          CredentialRequests, CredentialMaxNow, MaxAttempts,
          Deploys, FileCount, Silent, Tailed, StandsFor

VARIABLES part,
          serial, purging, entry, replay, replayTokens, pc, token, charged,
          counter, expires, blocked, limiterReady, conflict, lost,
          failClosed, up, client, tries, store, hits, inWindow, passed, ended,
          clock, account, is_active, password_changed_at, live, spent, reset, codes, request, settled,
          done, recorded, deploy, failures, exitCode

Jr == INSTANCE SideEffectJournal WITH state <- entry, tokens <- replayTokens
Cl == INSTANCE ConflictLimiter WITH ready <- limiterReady, request <- conflict
Rl == INSTANCE RateLimiter
Cr == INSTANCE Credentials WITH Requests <- CredentialRequests, MaxNow <- CredentialMaxNow, now <- clock,
                                exists <- account
Mg == INSTANCE Migrations

ASSUME GuardsConstants == Rl!LimiterAssumption /\ Cr!ClockAssumption /\ Mg!FilesAssumption

buckets == << now, bucket, call, granted >>
journal == << serial, purging, entry, replay, replayTokens, pc, token, charged >>
conflicts == << counter, expires, blocked, limiterReady, conflict, lost >>
limits == << failClosed, up, client, tries, store, hits, inWindow, passed, ended >>
credentials == << clock, account, is_active, password_changed_at, live, spent, reset, codes, request, settled >>
migrations == << done, recorded, deploy, failures, exitCode >>
guards == << part, buckets, journal, conflicts, limits, credentials, migrations >>

\* A part that is not followed needs one initial state only.
GuardsInit ==
    /\ part \in {"bucket", "journal", "conflict", "limit", "credential", "migration"}
    /\ Init
    /\ Jr!Init /\ (part # "journal" => serial /\ purging)
    /\ Cl!Init
    /\ Rl!Init /\ (part # "limit" => failClosed /\ up)
    /\ Cr!Init /\ (part # "credential" => account)
    /\ Mg!Init /\ (part # "migration" => done = {})

\* A step of one part.
BucketStep(A) == part = "bucket" /\ A /\ UNCHANGED << part, journal, conflicts, limits, credentials, migrations >>
JournalStep(A) == part = "journal" /\ A /\ UNCHANGED << part, buckets, conflicts, limits, credentials, migrations >>
ConflictStep(A) == part = "conflict" /\ A /\ UNCHANGED << part, buckets, journal, limits, credentials, migrations >>
LimitStep(A) == part = "limit" /\ A /\ UNCHANGED << part, buckets, journal, conflicts, credentials, migrations >>
CredentialStep(A) == part = "credential" /\ A /\ UNCHANGED << part, buckets, journal, conflicts, limits, migrations >>
MigrationStep(A) ==
    part = "migration" /\ A /\ UNCHANGED << part, buckets, journal, conflicts, limits, credentials >>

GuardsNext ==
    \/ BucketStep(Next)
    \/ JournalStep(Jr!Next)
    \/ ConflictStep(Cl!Next)
    \/ LimitStep(Rl!Next)
    \/ CredentialStep(Cr!Next)
    \/ MigrationStep(Mg!Next)

GuardsSpec == GuardsInit /\ [][GuardsNext]_guards

GuardsTypeOK == TypeOK /\ Jr!TypeOK /\ Cl!TypeOK /\ Rl!TypeOK /\ Cr!TypeOK /\ Mg!TypeOK

ExactlyOnce == Jr!ExactlyOnce
EveryWindowEnds == Cl!EveryWindowEnds
RefreshAfterChange == Cr!RefreshAfterChange
ExitZeroIsComplete == Mg!ExitZeroIsComplete

\* The third of four files repeats the first.
RepeatsFirst == [f \in 1..FileCount |-> IF f = 3 THEN {1} ELSE {}]
=============================================================================
