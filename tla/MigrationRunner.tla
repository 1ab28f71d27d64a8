--------------------------- MODULE MigrationRunner ---------------------------
(***************************************************************************)
(* shared.RunMigrations, run by every server process before it serves:     *)
(* several processes start at once, from the same or from different        *)
(* builds, and any of them can fail, be stopped or crash at any step.      *)
(*                                                                         *)
(* A process takes one step per statement it sends.  The advisory lock     *)
(* belongs to the database session on which the migrations run.  When the  *)
(* process or the connection is lost, the session lives on for a while: it *)
(* still holds the lock, and a COMMIT that was already sent still counts.  *)
(***************************************************************************)
EXTENDS Naturals, Sequences, FiniteSets

CONSTANTS
    Servers,      \* server processes
    Directories,  \* the sets of migration files that builds ship
    Versions, Checksums, Dirty, None,
    Orphan,       \* a database session whose client is gone
    MaxStarts     \* how often a process is started (a bound)

(* migrationName accepts positive versions only; a name it cannot read is  *)
(* a file of version 0 here.                                               *)
File == [version : Versions \cup {0}, checksum : Checksums]

ASSUME MigrationVersions == Versions \subseteq Nat \ {0}
ASSUME MigrationFiles == Directories \subseteq SUBSET File
ASSUME MigrationDirty == Dirty \subseteq Versions
ASSUME MigrationServers ==
    /\ None \notin Servers \cup {Orphan} /\ Orphan \notin Servers
    /\ None \notin Checksums
ASSUME MigrationNone == \A c \in Checksums \cup {None}, b \in BOOLEAN :
    None # [checksum |-> c, success |-> b]
ASSUME MigrationStarts == MaxStarts \in Nat

VARIABLES
    ledger,      \* the committed rows of _sqlx_migrations
    schema,      \* the versions whose statements committed, in that order
    lockHolder,  \* the session that holds the advisory lock
    inFlight,    \* the migration an orphaned session may still commit, as a set
    pc,          \* pc[s]: the next statement of s
    directory,   \* directory[s]: the migration files of the build s runs
    todo,        \* todo[s]: the files the loop of s still has to visit
    starts       \* starts[s]: how often s was started

database == <<ledger, schema>>
session == <<lockHolder, inFlight>>
process == <<directory, starts>>
vars == <<database, session, pc, todo, process>>

Promise == INSTANCE MigrationLedger

Migrating == {"ensure", "read", "status", "apply", "record", "commit"}
Unlocking == {"unlock_serve", "unlock_fail"}
Phases == {"down", "lock", "serving", "failed"} \cup Migrating \cup Unlocking

Current(s) == CHOOSE f \in todo[s] : \A g \in todo[s] : f.version <= g.version

-----------------------------------------------------------------------------
Goto(s, phase) == pc' = [pc EXCEPT ![s] = phase]

(* The process starts some build and connects.                             *)
Start(s) ==
    /\ pc[s] \in {"down", "failed"}
    /\ starts[s] < MaxStarts
    /\ starts' = [starts EXCEPT ![s] = @ + 1]
    /\ \E files \in Directories : directory' = [directory EXCEPT ![s] = files]
    /\ todo' = [todo EXCEPT ![s] = {}]
    /\ Goto(s, "lock")
    /\ UNCHANGED <<database, session>>

(* Slip: pg_try_advisory_lock, with its answer ignored.                    *)
AcquireWithoutWaiting(s) ==
    /\ pc[s] = "lock"
    /\ lockHolder' = s
    /\ Goto(s, "ensure")
    /\ UNCHANGED <<database, inFlight, todo, process>>

(* SELECT pg_advisory_lock(...)                                            *)
AcquireLock(s) ==
    /\ pc[s] = "lock"
    /\ lockHolder = None
    /\ lockHolder' = s
    /\ Goto(s, "ensure")
    /\ UNCHANGED <<database, inFlight, todo, process>>

(* Acquiring the connection and the lock share one timeout, and no unlock  *)
(* is deferred yet when it expires.  The session can be granted the lock   *)
(* while its client gives up.                                              *)
LockTimeout(s) ==
    /\ pc[s] = "lock"
    /\ Goto(s, "failed")
    /\ \/ UNCHANGED lockHolder
       \/ lockHolder = None /\ lockHolder' = Orphan
    /\ UNCHANGED <<database, inFlight, todo, process>>

(* CREATE TABLE IF NOT EXISTS _sqlx_migrations                             *)
EnsureLedger(s) ==
    /\ pc[s] = "ensure"
    /\ Goto(s, "read")
    /\ UNCHANGED <<database, session, todo, process>>

Malformed(file) == file.version = 0

Duplicated(files) == \E f, g \in files : f # g /\ f.version = g.version

(* readMigrations: every name has to be readable and every version unique. *)
ReadMigrations(s) ==
    /\ pc[s] = "read"
    /\ IF Duplicated(directory[s]) \/ \E f \in directory[s] : Malformed(f)
       THEN Goto(s, "unlock_fail") /\ UNCHANGED todo
       ELSE Goto(s, "status") /\ todo' = [todo EXCEPT ![s] = directory[s]]
    /\ UNCHANGED <<database, session, process>>

(* The loop body up to the first write: there is no row of this version.   *)
NeedsApplying(s) ==
    /\ pc[s] = "status" /\ todo[s] # {}
    /\ ledger[Current(s).version] = None
    /\ Goto(s, "apply")
    /\ UNCHANGED <<database, session, todo, process>>

(* Slip: any row counts as an applied migration.                           *)
SkipRecorded(s) ==
    /\ pc[s] = "status" /\ todo[s] # {}
    /\ ledger[Current(s).version] # None
    /\ todo' = [todo EXCEPT ![s] = @ \ {Current(s)}]
    /\ UNCHANGED <<database, session, pc, process>>

AlreadyApplied(s) ==
    /\ pc[s] = "status" /\ todo[s] # {}
    /\ ledger[Current(s).version] = Promise!Recorded(Current(s))
    /\ todo' = [todo EXCEPT ![s] = @ \ {Current(s)}]
    /\ UNCHANGED <<database, session, pc, process>>

(* The row says success = FALSE, or holds another checksum.                *)
Refuse(s) ==
    /\ pc[s] = "status" /\ todo[s] # {}
    /\ ledger[Current(s).version] \notin {None, Promise!Recorded(Current(s))}
    /\ Goto(s, "unlock_fail")
    /\ UNCHANGED <<database, session, todo, process>>

(* Begin, and the statements of the file.                                  *)
Apply(s) ==
    /\ pc[s] = "apply"
    /\ Goto(s, "record")
    /\ UNCHANGED <<database, session, todo, process>>

(* Slip: the row is inserted on the pool, not in the transaction.          *)
RecordAlone(s) ==
    /\ pc[s] = "record"
    /\ ledger' = [ledger EXCEPT ![Current(s).version] = Promise!Recorded(Current(s))]
    /\ Goto(s, "commit")
    /\ UNCHANGED <<schema, session, todo, process>>

(* INSERT INTO _sqlx_migrations, in the same transaction; version is the   *)
(* primary key.                                                            *)
Record(s) ==
    /\ pc[s] = "record"
    /\ ledger[Current(s).version] = None
    /\ Goto(s, "commit")
    /\ UNCHANGED <<database, session, todo, process>>

TakesEffect(file) ==
    /\ ledger' = [ledger EXCEPT ![file.version] = Promise!Recorded(file)]
    /\ schema' = Append(schema, file.version)

Commit(s) ==
    /\ pc[s] = "commit"
    /\ TakesEffect(Current(s))
    /\ todo' = [todo EXCEPT ![s] = @ \ {Current(s)}]
    /\ Goto(s, "status")
    /\ UNCHANGED <<session, process>>

AllVisited(s) ==
    /\ pc[s] = "status" /\ todo[s] = {}
    /\ Goto(s, "unlock_serve")
    /\ UNCHANGED <<database, session, todo, process>>

(* Slip: the connection goes back to the pool with the lock.               *)
ReleaseConnection(s) ==
    /\ pc[s] \in Unlocking
    /\ Goto(s, IF pc[s] = "unlock_serve" THEN "serving" ELSE "failed")
    /\ UNCHANGED <<database, session, todo, process>>

(* The deferred pg_advisory_unlock and Release; then serve, or log.Fatal.  *)
Unlock(s) ==
    /\ pc[s] \in Unlocking
    /\ Goto(s, IF pc[s] = "unlock_serve" THEN "serving" ELSE "failed")
    /\ lockHolder' = None
    /\ UNCHANGED <<database, inFlight, todo, process>>

-----------------------------------------------------------------------------
(* The session of s is left to itself.  It can still commit when the       *)
(* COMMIT was the statement under way.                                     *)
LoseConnection(s) ==
    IF lockHolder = s
    THEN /\ lockHolder' = Orphan
         /\ inFlight' = IF pc[s] = "commit" THEN {Current(s)} ELSE {}
    ELSE UNCHANGED session

(* A statement fails, or SIGTERM cancels the context: the transaction is   *)
(* rolled back and the deferred unlock follows, or the connection is lost  *)
(* and the unlock, whose error is ignored, finds none.                     *)
StatementFails(s) ==
    /\ pc[s] \in Migrating
    /\ \/ Goto(s, "unlock_fail") /\ UNCHANGED session
       \/ Goto(s, "failed") /\ LoseConnection(s)
    /\ UNCHANGED <<database, todo, process>>

Crash(s) ==
    /\ pc[s] \notin {"down", "failed"}
    /\ Goto(s, "down")
    /\ LoseConnection(s)
    /\ UNCHANGED <<database, todo, process>>

OrphanCommits ==
    /\ \E file \in inFlight : TakesEffect(file)
    /\ inFlight' = {}
    /\ UNCHANGED <<lockHolder, pc, todo, process>>

(* PostgreSQL notices that the client is gone, rolls back what is open and *)
(* ends the session.                                                       *)
OrphanEnds ==
    /\ lockHolder = Orphan
    /\ lockHolder' = None
    /\ inFlight' = {}
    /\ UNCHANGED <<database, pc, todo, process>>

-----------------------------------------------------------------------------
Init ==
    /\ Promise!LedgerInit
    /\ lockHolder = None
    /\ inFlight = {}
    /\ pc = [s \in Servers |-> "down"]
    /\ directory = [s \in Servers |-> {}]
    /\ todo = [s \in Servers |-> {}]
    /\ starts = [s \in Servers |-> 0]

(* What a running process does by itself.                                  *)
Proceed(s) ==
    \/ AcquireLock(s) \/ EnsureLedger(s) \/ ReadMigrations(s)
    \/ NeedsApplying(s) \/ AlreadyApplied(s) \/ Refuse(s)
    \/ Apply(s) \/ Record(s) \/ Commit(s)
    \/ AllVisited(s) \/ Unlock(s)

Next ==
    \/ \E s \in Servers :
          Start(s) \/ Proceed(s) \/ LockTimeout(s) \/ StatementFails(s) \/ Crash(s)
    \/ OrphanCommits
    \/ OrphanEnds

Spec == Init /\ [][Next]_vars

-----------------------------------------------------------------------------
(* The types of the variables; a loop only ever sees well-formed files.    *)
TypeOK ==
    /\ ledger \in [Versions -> Promise!LedgerRow \cup {None}]
    /\ schema \in Seq(Versions)
    /\ lockHolder \in Servers \cup {None, Orphan}
    /\ inFlight \in SUBSET [version : Versions, checksum : Checksums]
    /\ pc \in [Servers -> Phases]
    /\ directory \in [Servers -> SUBSET File]
    /\ todo \in [Servers -> SUBSET [version : Versions, checksum : Checksums]]
    /\ starts \in [Servers -> 0 .. MaxStarts]

(* The ledger says exactly which migrations took effect, each of them      *)
(* once, whatever crashed between the statements of RunMigrations.         *)
LedgerDescribesSchema ==
    /\ {schema[i] : i \in DOMAIN schema}
         = {v \in Versions : ledger[v] \notin {None, Promise!FailedRow}}
    /\ \A i, j \in DOMAIN schema : schema[i] = schema[j] => i = j

(* A process that serves has all migrations of its build in the schema,    *)
(* with the contents it ships, and no start of another build undoes that.  *)
ServesItsMigrations ==
    \A s \in Servers : pc[s] = "serving" =>
        \A f \in directory[s] : ledger[f.version] = Promise!Recorded(f)

(* Only the holder of the lock is between taking and giving it up, it does *)
(* not keep the lock after that, and an orphaned session that may still    *)
(* commit excludes everyone else.                                          *)
LockGuardsMigrating ==
    /\ \A s \in Servers : lockHolder = s <=> pc[s] \in Migrating \cup Unlocking
    /\ inFlight # {} => lockHolder = Orphan

(* Both hold together, and are inductive only together: what a process     *)
(* does next is well typed because nobody else is migrating.               *)
RunnerInvariant == TypeOK /\ LockGuardsMigrating

(* Whoever holds the lock gives it up, so that other starters get it.      *)
LockIsReleased == lockHolder # None ~> lockHolder = None

(* Whole migrations, once each, in the order of every directory.           *)
ImplementsLedger == Promise!LedgerSpec
=============================================================================
