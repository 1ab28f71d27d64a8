------------------------ MODULE MigrationRunnerProofs ------------------------
(***************************************************************************)
(* Proofs about MigrationRunner, for any servers, builds and migrations.   *)
(***************************************************************************)
EXTENDS MigrationRunner, WellFoundedInduction, SequenceTheorems, TLAPS

Applying == {"apply", "record", "commit"}
Looping == {"status", "unlock_serve", "serving"} \cup Applying

(* A build whose loop reached file: file is next and was never applied.    *)
Applicable(files, file) ==
    /\ files \in Directories \cap SUBSET Promise!File /\ file \in files
    /\ ledger[file.version] = None
    /\ \A earlier \in files : earlier.version < file.version
          => ledger[earlier.version] = Promise!Recorded(earlier)

(* What the loop of s has visited is recorded, what it applies is not.     *)
LoopIsTrueOf(s) ==
    /\ pc[s] # "down" => directory[s] \in Directories
    /\ pc[s] \in Looping =>
          /\ directory[s] \in SUBSET Promise!File /\ todo[s] \subseteq directory[s]
          /\ \A f \in directory[s] \ todo[s] :
                ledger[f.version] = Promise!Recorded(f)
    /\ pc[s] \in Applying =>
          todo[s] # {} /\ ledger[Current(s).version] = None
    /\ pc[s] \in {"unlock_serve", "serving"} => todo[s] = {}

LoopIsTrue == \A s \in Servers : LoopIsTrueOf(s)

OrphansCanCommit ==
    \A file \in inFlight : \E files \in Directories : Applicable(files, file)

IInv ==
    /\ TypeOK
    /\ LockGuardsMigrating
    /\ LedgerDescribesSchema
    /\ LoopIsTrue
    /\ OrphansCanCommit

-----------------------------------------------------------------------------
(* The earliest file is one of the files.                                  *)
LEMMA Earliest ==
    ASSUME NEW files, files \subseteq Promise!File, files # {}
    PROVE  \E f \in files : \A g \in files : f.version <= g.version
  <1> DEFINE V == {f.version : f \in files}
  <1>1. V \subseteq Nat /\ V # {}
    BY MigrationVersions DEF Promise!File
  <1>2. PICK v \in V : \A w \in V : ~(<<w, v>> \in OpToRel(<, Nat))
    BY <1>1, NatLessThanWellFounded, WFMin
  <1>3. \A w \in V : ~(w < v)
    BY <1>1, <1>2 DEF OpToRel
  <1>4. PICK f \in files : f.version = v
    OBVIOUS
  <1>5. ASSUME NEW g \in files PROVE f.version <= g.version
    <2>1. g.version \in V /\ v \in Nat
      BY <1>1
    <2>2. g.version \in Nat /\ ~(g.version < v)
      BY <1>1, <1>3, <2>1
    <2> QED
      BY <1>4, <2>1, <2>2
  <1> QED
    BY <1>5

LEMMA CurrentIsEarliest ==
    ASSUME NEW s \in Servers, todo[s] \subseteq Promise!File, todo[s] # {}
    PROVE  Current(s) \in todo[s] /\ \A g \in todo[s] : Current(s).version <= g.version
  BY Earliest DEF Current

(* Recorded migrations are neither failed nor missing.                     *)
LEMMA RecordedRow ==
    ASSUME NEW file \in Promise!File
    PROVE  /\ Promise!Recorded(file) \in Promise!LedgerRow
           /\ Promise!Recorded(file) \notin {None, Promise!FailedRow}
  <1>1. None # [checksum |-> file.checksum, success |-> TRUE]
    BY MigrationNone DEF Promise!File
  <1>2. Promise!Recorded(file).success # Promise!FailedRow.success
    BY DEF Promise!Recorded, Promise!FailedRow
  <1> QED
    BY <1>1, <1>2 DEF Promise!Recorded, Promise!LedgerRow, Promise!File

(* What the loop applies can be applied.                                   *)
LEMMA CurrentIsApplicable ==
    ASSUME IInv, NEW s \in Servers, pc[s] \in Applying
    PROVE  Applicable(directory[s], Current(s)) /\ Current(s) \in Promise!File
  <1>1. /\ directory[s] \in Directories /\ directory[s] \in SUBSET Promise!File
        /\ todo[s] \subseteq directory[s] /\ todo[s] # {}
        /\ ledger[Current(s).version] = None
        /\ \A f \in directory[s] \ todo[s] : ledger[f.version] = Promise!Recorded(f)
    BY DEF IInv, LoopIsTrue, LoopIsTrueOf, Looping, Applying
  <1>2. Current(s) \in todo[s] /\ \A g \in todo[s] : Current(s).version <= g.version
    BY <1>1, CurrentIsEarliest
  <1>3. ASSUME NEW earlier \in directory[s], earlier.version < Current(s).version
        PROVE  ledger[earlier.version] = Promise!Recorded(earlier)
    <2>1. earlier.version \in Nat /\ Current(s).version \in Nat
      BY <1>1, <1>2, MigrationVersions DEF Promise!File
    <2>2. earlier \notin todo[s]
      BY <1>2, <1>3, <2>1
    <2> QED
      BY <1>1, <2>2
  <1> QED
    BY <1>1, <1>2, <1>3 DEF Applicable

(* A migration takes effect: it is recorded once, and no other row changes. *)
LEMMA EffectIsRecorded ==
    ASSUME IInv, NEW files, NEW file \in Promise!File, Applicable(files, file),
           TakesEffect(file)
    PROVE  /\ ledger' \in [Versions -> Promise!LedgerRow \cup {None}]
           /\ schema' \in Seq(Versions)
           /\ ledger'[file.version] = Promise!Recorded(file)
           /\ \A v \in Versions : v # file.version => ledger'[v] = ledger[v]
           /\ LedgerDescribesSchema'
  <1> DEFINE v == file.version
             row == Promise!Recorded(file)
             n == Len(schema)
  <1>1. v \in Versions /\ row \in Promise!LedgerRow
        /\ row \notin {None, Promise!FailedRow}
    BY RecordedRow DEF Promise!File
  <1>2. /\ ledger \in [Versions -> Promise!LedgerRow \cup {None}]
        /\ schema \in Seq(Versions) /\ ledger[v] = None
    BY DEF IInv, TypeOK, Applicable
  <1>3. ledger' = [ledger EXCEPT ![v] = row] /\ schema' = Append(schema, v)
    BY DEF TakesEffect
  <1>4. /\ ledger' \in [Versions -> Promise!LedgerRow \cup {None}]
        /\ schema' \in Seq(Versions)
        /\ ledger'[v] = row
        /\ \A w \in Versions : w # v => ledger'[w] = ledger[w]
    BY <1>1, <1>2, <1>3
  <1>5. /\ n \in Nat /\ DOMAIN schema = 1 .. n /\ DOMAIN schema' = 1 .. n + 1
        /\ schema'[n + 1] = v
        /\ \A i \in 1 .. n : schema'[i] = schema[i] /\ schema[i] \in Versions
    BY <1>1, <1>2, <1>3
  <1>6. /\ {schema[i] : i \in DOMAIN schema}
             = {w \in Versions : ledger[w] \notin {None, Promise!FailedRow}}
        /\ \A i, j \in DOMAIN schema : schema[i] = schema[j] => i = j
    BY DEF IInv, LedgerDescribesSchema
  <1>7. \A i \in 1 .. n : schema[i] # v
    BY <1>2, <1>5, <1>6
  <1>8. {schema'[i] : i \in DOMAIN schema'} = {schema[i] : i \in DOMAIN schema} \cup {v}
    BY <1>5
  <1>9. {w \in Versions : ledger'[w] \notin {None, Promise!FailedRow}}
          = {w \in Versions : ledger[w] \notin {None, Promise!FailedRow}} \cup {v}
    BY <1>1, <1>4
  <1>10. \A i, j \in DOMAIN schema' : schema'[i] = schema'[j] => i = j
    BY <1>5, <1>6, <1>7
  <1>11. LedgerDescribesSchema'
    BY <1>6, <1>8, <1>9, <1>10 DEF LedgerDescribesSchema
  <1> QED
    BY <1>4, <1>11

(* The rows of a loop stay what they are while another migration, which    *)
(* was not recorded, is.                                                   *)
LEMMA OthersKeepTheirRows ==
    ASSUME IInv, NEW files, NEW file \in Promise!File, Applicable(files, file),
           TakesEffect(file), NEW f \in Promise!File,
           ledger[f.version] = Promise!Recorded(f)
    PROVE  ledger'[f.version] = Promise!Recorded(f)
  <1>1. f.version # file.version
    BY RecordedRow DEF Applicable
  <1> QED
    BY <1>1, EffectIsRecorded DEF Promise!File

LEMMA InitHolds == Init => IInv
  <1> SUFFICES ASSUME Init PROVE IInv
    OBVIOUS
  <1>1. PICK failed \in SUBSET Dirty :
            ledger = [v \in Versions |-> IF v \in failed THEN Promise!FailedRow ELSE None]
    BY DEF Init, Promise!LedgerInit
  <1>2. Promise!FailedRow \in Promise!LedgerRow
    BY DEF Promise!FailedRow, Promise!LedgerRow
  <1>3. schema = << >> /\ schema \in Seq(Versions) /\ DOMAIN schema = {}
    BY DEF Init, Promise!LedgerInit
  <1>4. TypeOK
    BY <1>1, <1>2, <1>3, MigrationStarts DEF Init, TypeOK, Phases
  <1>5. LedgerDescribesSchema
    BY <1>1, <1>3 DEF LedgerDescribesSchema
  <1>6. LockGuardsMigrating
    BY MigrationServers DEF Init, LockGuardsMigrating, Migrating, Unlocking
  <1>7. LoopIsTrue /\ OrphansCanCommit
    BY DEF Init, LoopIsTrue, LoopIsTrueOf, OrphansCanCommit, Looping, Applying
  <1> QED
    BY <1>4, <1>5, <1>6, <1>7 DEF IInv

-----------------------------------------------------------------------------
(* The steps.  All but two leave ledger and schema alone.                  *)

SameProcess(t) ==
    pc'[t] = pc[t] /\ directory'[t] = directory[t] /\ todo'[t] = todo[t]

LEMMA Quiet ==
    ASSUME IInv, NEW s \in Servers, UNCHANGED database,
           \A t \in Servers \ {s} : SameProcess(t),
           inFlight' \subseteq inFlight, LoopIsTrueOf(s)'
    PROVE  LedgerDescribesSchema' /\ LoopIsTrue' /\ OrphansCanCommit'
  <1>1. ledger' = ledger /\ schema' = schema
    BY DEF database
  <1>2. ASSUME NEW t \in Servers \ {s} PROVE LoopIsTrueOf(t)'
    <2>1. LoopIsTrueOf(t) /\ SameProcess(t)
      BY DEF IInv, LoopIsTrue
    <2> QED
      BY <1>1, <2>1 DEF LoopIsTrueOf, SameProcess, Current
  <1>3. OrphansCanCommit'
    BY <1>1 DEF IInv, OrphansCanCommit, Applicable
  <1>4. LedgerDescribesSchema'
    BY <1>1 DEF IInv, LedgerDescribesSchema
  <1> QED
    BY <1>2, <1>3, <1>4 DEF LoopIsTrue

(* The steps of a process before and in its loop that write nothing.       *)
LEMMA StartKeeps ==
    ASSUME IInv, NEW s \in Servers, Start(s)
    PROVE  IInv'
  <1> USE DEF IInv, TypeOK, LockGuardsMigrating
  <1>1. PICK files \in Directories : directory' = [directory EXCEPT ![s] = files]
    BY DEF Start
  <1>2. pc' = [pc EXCEPT ![s] = "lock"] /\ todo' = [todo EXCEPT ![s] = {}]
        /\ pc[s] \in {"down", "failed"}
        /\ starts' = [starts EXCEPT ![s] = @ + 1] /\ starts[s] < MaxStarts
        /\ UNCHANGED <<ledger, schema, lockHolder, inFlight>>
    BY DEF Start, Goto, database, session
  <1>3. TypeOK'
    BY <1>1, <1>2, MigrationFiles, MigrationStarts DEF Phases
  <1>4. LockGuardsMigrating'
    BY <1>2 DEF Phases, Migrating, Unlocking
  <1>5. LoopIsTrueOf(s)'
    BY <1>1, <1>2 DEF LoopIsTrueOf, Looping, Applying
  <1>6. \A t \in Servers \ {s} : SameProcess(t)
    BY <1>1, <1>2 DEF SameProcess
  <1> QED
    BY <1>2, <1>3, <1>4, <1>5, <1>6, Quiet DEF database

LEMMA LockingKeeps ==
    ASSUME IInv, NEW s \in Servers, AcquireLock(s) \/ LockTimeout(s)
    PROVE  IInv'
  <1> USE DEF IInv, TypeOK, LockGuardsMigrating
  <1>1. PICK phase \in {"ensure", "failed"} : pc' = [pc EXCEPT ![s] = phase]
    BY DEF AcquireLock, LockTimeout, Goto
  <1>2. UNCHANGED <<ledger, schema, inFlight, todo, directory, starts>>
        /\ pc[s] = "lock"
    BY DEF AcquireLock, LockTimeout, database, process
  <1>3. TypeOK'
    BY <1>1, <1>2 DEF AcquireLock, LockTimeout, Phases, Migrating
  <1>4. LockGuardsMigrating'
    <2>1. CASE AcquireLock(s)
      BY <1>2, <2>1, MigrationServers
         DEF AcquireLock, Goto, Phases, Migrating, Unlocking
    <2>2. CASE LockTimeout(s)
      BY <1>2, <2>2, MigrationServers
         DEF LockTimeout, Goto, Phases, Migrating, Unlocking
    <2> QED
      BY <2>1, <2>2
  <1>5. LoopIsTrueOf(s)'
    BY <1>1, <1>2 DEF LoopIsTrue, LoopIsTrueOf, Looping, Applying
  <1>6. \A t \in Servers \ {s} : SameProcess(t)
    BY <1>1, <1>2 DEF SameProcess
  <1> QED
    BY <1>2, <1>3, <1>4, <1>5, <1>6, Quiet DEF database

LEMMA ReadMigrationsKeeps ==
    ASSUME IInv, NEW s \in Servers, ReadMigrations(s)
    PROVE  IInv'
  <1> USE DEF IInv, TypeOK, LockGuardsMigrating
  <1> DEFINE readable == \A f \in directory[s] : ~Malformed(f)
  <1>1. PICK phase \in {"status", "unlock_fail"} : pc' = [pc EXCEPT ![s] = phase]
    BY DEF ReadMigrations, Goto
  <1>2. UNCHANGED <<ledger, schema, lockHolder, inFlight, directory, starts>>
        /\ pc[s] = "read" /\ directory[s] \in Directories
    BY DEF ReadMigrations, database, session, process, LoopIsTrue, LoopIsTrueOf
  <1>3. pc'[s] = "status" =>
          /\ directory[s] \in SUBSET Promise!File
          /\ todo' = [todo EXCEPT ![s] = directory[s]]
    <2>1. SUFFICES ASSUME pc'[s] = "status"
                   PROVE  /\ directory[s] \in SUBSET Promise!File
                          /\ todo' = [todo EXCEPT ![s] = directory[s]]
      OBVIOUS
    <2>2. readable /\ todo' = [todo EXCEPT ![s] = directory[s]]
      BY <2>1 DEF ReadMigrations, Goto
    <2> QED
      BY <1>2, <2>2, MigrationFiles DEF Malformed, File, Promise!File
  <1>4. pc'[s] # "status" => todo' = todo
    BY <1>2 DEF ReadMigrations, Goto
  <1>5. TypeOK'
    BY <1>1, <1>2, <1>3, <1>4 DEF Phases, Migrating, Unlocking, Promise!File
  <1>6. LockGuardsMigrating'
    BY <1>1, <1>2 DEF Phases, Migrating, Unlocking
  <1>7. LoopIsTrueOf(s)'
    BY <1>1, <1>2, <1>3 DEF LoopIsTrueOf, Looping, Applying
  <1>8. \A t \in Servers \ {s} : SameProcess(t)
    BY <1>1, <1>2, <1>3, <1>4 DEF SameProcess
  <1> QED
    BY <1>2, <1>5, <1>6, <1>7, <1>8, Quiet DEF database

(* Steps from one phase of the loop to another, with the same todo.        *)
LEMMA PhaseKeeps ==
    ASSUME IInv, NEW s \in Servers,
           \/ EnsureLedger(s) \/ NeedsApplying(s) \/ Refuse(s) \/ Apply(s)
           \/ Record(s) \/ AllVisited(s)
    PROVE  IInv'
  <1> USE DEF IInv, TypeOK, LockGuardsMigrating
  <1>1. PICK phase \in (Migrating \cup Unlocking) : pc' = [pc EXCEPT ![s] = phase]
    BY DEF EnsureLedger, NeedsApplying, Refuse, Apply, Record, AllVisited,
           Goto, Migrating, Unlocking
  <1>2. UNCHANGED <<ledger, schema, lockHolder, inFlight, directory, todo, starts>>
        /\ pc[s] \in Migrating
    BY DEF EnsureLedger, NeedsApplying, Refuse, Apply, Record, AllVisited,
           Migrating, database, session, process
  <1>3. TypeOK'
    BY <1>1, <1>2 DEF Phases
  <1>4. LockGuardsMigrating'
    BY <1>1, <1>2 DEF Phases, Migrating, Unlocking
  <1>5. LoopIsTrueOf(s)'
    <2>1. LoopIsTrueOf(s) /\ Current(s)' = Current(s)
      BY <1>2 DEF LoopIsTrue, Current
    <2> USE <1>1, <1>2, <2>1 DEF LoopIsTrueOf, Looping, Applying, Goto
    <2>2. CASE EnsureLedger(s)
      BY <2>2 DEF EnsureLedger
    <2>3. CASE NeedsApplying(s)
      BY <2>3 DEF NeedsApplying
    <2>4. CASE Refuse(s)
      BY <2>4 DEF Refuse
    <2>5. CASE Apply(s)
      BY <2>5 DEF Apply
    <2>6. CASE Record(s)
      BY <2>6 DEF Record
    <2>7. CASE AllVisited(s)
      BY <2>7 DEF AllVisited
    <2> QED
      BY <2>2, <2>3, <2>4, <2>5, <2>6, <2>7
  <1>6. \A t \in Servers \ {s} : SameProcess(t)
    BY <1>1, <1>2 DEF SameProcess
  <1> QED
    BY <1>2, <1>3, <1>4, <1>5, <1>6, Quiet DEF database

LEMMA AlreadyAppliedKeeps ==
    ASSUME IInv, NEW s \in Servers, AlreadyApplied(s)
    PROVE  IInv'
  <1> USE DEF IInv, TypeOK, LockGuardsMigrating
  <1>1. UNCHANGED <<ledger, schema, lockHolder, inFlight, pc, directory, starts>>
        /\ todo' = [todo EXCEPT ![s] = @ \ {Current(s)}]
        /\ pc[s] = "status" /\ ledger[Current(s).version] = Promise!Recorded(Current(s))
    BY DEF AlreadyApplied, database, session, process
  <1>2. TypeOK' /\ LockGuardsMigrating'
    BY <1>1
  <1>3. LoopIsTrueOf(s)'
    BY <1>1 DEF LoopIsTrue, LoopIsTrueOf, Looping, Applying
  <1>4. \A t \in Servers \ {s} : SameProcess(t)
    BY <1>1 DEF SameProcess
  <1> QED
    BY <1>1, <1>2, <1>3, <1>4, Quiet DEF database

LEMMA UnlockKeeps ==
    ASSUME IInv, NEW s \in Servers, Unlock(s)
    PROVE  IInv'
  <1> USE DEF IInv, TypeOK, LockGuardsMigrating
  <1>1. UNCHANGED <<ledger, schema, inFlight, todo, directory, starts>>
        /\ pc[s] \in Unlocking /\ lockHolder' = None /\ lockHolder = s
    BY DEF Unlock, database, process
  <1>2. PICK phase \in {"serving", "failed"} :
            /\ pc' = [pc EXCEPT ![s] = phase]
            /\ phase = "serving" => pc[s] = "unlock_serve"
    BY DEF Unlock, Goto
  <1>3. TypeOK'
    BY <1>1, <1>2 DEF Phases
  <1>4. LockGuardsMigrating'
    BY <1>1, <1>2, MigrationServers DEF Phases, Migrating, Unlocking
  <1>5. LoopIsTrueOf(s)'
    BY <1>1, <1>2 DEF LoopIsTrue, LoopIsTrueOf, Looping, Applying, Unlocking
  <1>6. \A t \in Servers \ {s} : SameProcess(t)
    BY <1>1, <1>2 DEF SameProcess
  <1> QED
    BY <1>1, <1>3, <1>4, <1>5, <1>6, Quiet DEF database

(* A process that fails or dies leaves the session to itself, or unlocks.  *)
LEMMA LosingKeeps ==
    ASSUME IInv, NEW s \in Servers, StatementFails(s) \/ Crash(s)
    PROVE  IInv'
  <1> USE DEF IInv, TypeOK, LockGuardsMigrating
  <1>1. UNCHANGED <<ledger, schema, todo, directory, starts>> /\ pc[s] # "down"
    BY DEF StatementFails, Crash, database, process, Migrating
  <1>2. PICK phase \in {"down", "failed", "unlock_fail"} :
            /\ pc' = [pc EXCEPT ![s] = phase]
            /\ \/ UNCHANGED session /\ pc[s] \in Migrating /\ phase = "unlock_fail"
               \/ LoseConnection(s) /\ phase \in {"down", "failed"}
    BY DEF StatementFails, Crash, Goto
  <1>3. \A t \in Servers \ {s} : SameProcess(t)
    BY <1>1, <1>2 DEF SameProcess
  <1>4. LoopIsTrueOf(s)'
    BY <1>1, <1>2 DEF LoopIsTrue, LoopIsTrueOf, Looping, Applying
  <1>5. CASE UNCHANGED session /\ pc[s] \in Migrating /\ phase = "unlock_fail"
    <2>1. lockHolder' = lockHolder /\ inFlight' = inFlight
      BY <1>5 DEF session
    <2>2. TypeOK'
      BY <1>1, <1>2, <2>1 DEF Phases, Unlocking
    <2>3. LockGuardsMigrating'
      BY <1>2, <1>5, <2>1 DEF Phases, Migrating, Unlocking
    <2> QED
      BY <1>1, <1>3, <1>4, <2>1, <2>2, <2>3, Quiet DEF database
  <1>6. CASE LoseConnection(s) /\ phase \in {"down", "failed"}
    <2>1. CASE lockHolder = s
      <3>1. inFlight = {}
        BY <2>1, MigrationServers
      <3>2. /\ lockHolder' = Orphan
            /\ inFlight' = IF pc[s] = "commit" THEN {Current(s)} ELSE {}
        BY <1>6, <2>1 DEF LoseConnection
      <3>3. pc[s] = "commit" =>
              Applicable(directory[s], Current(s)) /\ Current(s) \in Promise!File
        BY CurrentIsApplicable DEF Applying
      <3>4. TypeOK'
        <4>1. inFlight' \subseteq [version : Versions, checksum : Checksums]
          BY <3>2, <3>3 DEF Promise!File
        <4>2. pc' \in [Servers -> Phases]
          BY <1>2 DEF Phases, Unlocking
        <4> QED
          BY <1>1, <3>2, <4>1, <4>2
      <3>5. LockGuardsMigrating'
        BY <1>2, <1>6, <2>1, <3>2, MigrationServers DEF Phases, Migrating, Unlocking
      <3>6. ledger' = ledger /\ schema' = schema
        BY <1>1
      <3>7. OrphansCanCommit'
        <4>1. \A file \in inFlight' : Applicable(directory[s], file)
          BY <3>2, <3>3
        <4> QED
          BY <3>6, <4>1 DEF OrphansCanCommit, Applicable
      <3>8. LoopIsTrue'
        <4>1. ASSUME NEW t \in Servers \ {s} PROVE LoopIsTrueOf(t)'
          BY <1>3, <3>6 DEF LoopIsTrue, LoopIsTrueOf, SameProcess, Current
        <4> QED
          BY <1>4, <4>1 DEF LoopIsTrue
      <3>9. LedgerDescribesSchema'
        BY <3>6 DEF LedgerDescribesSchema
      <3> QED
        BY <3>4, <3>5, <3>7, <3>8, <3>9
    <2>2. CASE lockHolder # s
      <3>1. lockHolder' = lockHolder /\ inFlight' = inFlight
        BY <1>6, <2>2 DEF LoseConnection, session
      <3>2. pc[s] \notin Migrating \cup Unlocking
        BY <2>2
      <3>3. TypeOK'
        BY <1>1, <1>2, <3>1 DEF Phases, Unlocking
      <3>4. LockGuardsMigrating'
        BY <1>2, <1>6, <2>2, <3>1, <3>2 DEF Phases, Migrating, Unlocking
      <3> QED
        BY <1>1, <1>3, <1>4, <3>1, <3>3, <3>4, Quiet DEF database
    <2> QED
      BY <2>1, <2>2
  <1> QED
    BY <1>2, <1>5, <1>6

(* The two steps that change ledger and schema.                            *)
LEMMA CommitKeeps ==
    ASSUME IInv, NEW s \in Servers, Commit(s)
    PROVE  IInv'
  <1> USE DEF IInv, TypeOK, LockGuardsMigrating
  <1> DEFINE file == Current(s)
  <1>1. /\ pc[s] = "commit" /\ pc' = [pc EXCEPT ![s] = "status"]
        /\ todo' = [todo EXCEPT ![s] = @ \ {file}]
        /\ UNCHANGED <<lockHolder, inFlight, directory, starts>>
        /\ TakesEffect(file)
    BY DEF Commit, Goto, session, process
  <1>2. Applicable(directory[s], file) /\ file \in Promise!File
    BY <1>1, CurrentIsApplicable DEF Applying
  <1>3. lockHolder = s /\ inFlight = {}
    BY <1>1, MigrationServers DEF Migrating
  <1>4. /\ ledger' \in [Versions -> Promise!LedgerRow \cup {None}]
        /\ schema' \in Seq(Versions) /\ LedgerDescribesSchema'
        /\ ledger'[file.version] = Promise!Recorded(file)
    BY <1>1, <1>2, EffectIsRecorded
  <1>5. TypeOK'
    BY <1>1, <1>4 DEF Phases, Migrating
  <1>6. LockGuardsMigrating'
    BY <1>1 DEF Phases, Migrating, Unlocking
  <1>7. LoopIsTrueOf(s)'
    <2>1. LoopIsTrueOf(s)
      BY DEF LoopIsTrue
    <2>2. ASSUME NEW f \in directory[s] \ (todo[s] \ {file})
          PROVE  ledger'[f.version] = Promise!Recorded(f)
      <3>1. CASE f = file
        BY <1>4, <3>1
      <3>2. CASE f # file
        <4>1. ledger[f.version] = Promise!Recorded(f) /\ f \in Promise!File
          BY <1>1, <2>1, <3>2 DEF LoopIsTrueOf, Looping, Applying
        <4> QED
          BY <1>1, <1>2, <4>1, OthersKeepTheirRows
      <3> QED
        BY <3>1, <3>2
    <2> QED
      BY <1>1, <2>1, <2>2 DEF LoopIsTrueOf, Looping, Applying
  <1>8. ASSUME NEW t \in Servers \ {s} PROVE LoopIsTrueOf(t)'
    <2>1. /\ pc'[t] = pc[t] /\ directory'[t] = directory[t] /\ todo'[t] = todo[t]
          /\ pc[t] \notin Migrating \cup Unlocking /\ LoopIsTrueOf(t)
      BY <1>1, <1>3 DEF LoopIsTrue
    <2>2. ASSUME pc[t] \in Looping, NEW f \in directory[t] \ todo[t]
          PROVE  ledger'[f.version] = Promise!Recorded(f)
      <3>1. ledger[f.version] = Promise!Recorded(f) /\ f \in Promise!File
        BY <2>1, <2>2 DEF LoopIsTrueOf
      <3> QED
        BY <1>1, <1>2, <3>1, OthersKeepTheirRows
    <2> QED
      BY <2>1, <2>2 DEF LoopIsTrueOf, Looping, Applying, Migrating
  <1>9. OrphansCanCommit'
    BY <1>1, <1>3 DEF OrphansCanCommit
  <1> QED
    BY <1>4, <1>5, <1>6, <1>7, <1>8, <1>9 DEF LoopIsTrue

LEMMA OrphanCommitsKeeps ==
    ASSUME IInv, OrphanCommits
    PROVE  IInv'
  <1> USE DEF IInv, TypeOK, LockGuardsMigrating
  <1>1. PICK file \in inFlight : TakesEffect(file)
    BY DEF OrphanCommits
  <1>2. /\ UNCHANGED <<lockHolder, pc, directory, todo, starts>> /\ inFlight' = {}
        /\ lockHolder = Orphan
    BY <1>1 DEF OrphanCommits, process
  <1>3. PICK files \in Directories : Applicable(files, file)
    BY <1>1 DEF OrphansCanCommit
  <1>4. file \in Promise!File
    BY <1>3 DEF Applicable
  <1>5. /\ ledger' \in [Versions -> Promise!LedgerRow \cup {None}]
        /\ schema' \in Seq(Versions) /\ LedgerDescribesSchema'
    BY <1>1, <1>3, <1>4, EffectIsRecorded
  <1>6. TypeOK' /\ LockGuardsMigrating' /\ OrphansCanCommit'
    BY <1>2, <1>5 DEF OrphansCanCommit
  <1>7. ASSUME NEW t \in Servers PROVE LoopIsTrueOf(t)'
    <2>1. pc[t] \notin Migrating \cup Unlocking /\ LoopIsTrueOf(t)
      BY <1>2, MigrationServers DEF LoopIsTrue
    <2>2. ASSUME pc[t] \in Looping, NEW f \in directory[t] \ todo[t]
          PROVE  ledger'[f.version] = Promise!Recorded(f)
      <3>1. ledger[f.version] = Promise!Recorded(f) /\ f \in Promise!File
        BY <2>1, <2>2 DEF LoopIsTrueOf
      <3> QED
        BY <1>1, <1>3, <1>4, <3>1, OthersKeepTheirRows
    <2> QED
      BY <1>2, <2>1, <2>2 DEF LoopIsTrueOf, Looping, Applying, Migrating
  <1> QED
    BY <1>5, <1>6, <1>7 DEF LoopIsTrue

LEMMA OrphanEndsKeeps ==
    ASSUME IInv, OrphanEnds
    PROVE  IInv'
  <1> USE DEF IInv, TypeOK, LockGuardsMigrating
  <1>1. /\ UNCHANGED <<ledger, schema, pc, directory, todo, starts>>
        /\ lockHolder = Orphan /\ lockHolder' = None /\ inFlight' = {}
    BY DEF OrphanEnds, database, process
  <1>2. TypeOK' /\ OrphansCanCommit' /\ LedgerDescribesSchema'
    BY <1>1 DEF OrphansCanCommit, LedgerDescribesSchema
  <1>3. LockGuardsMigrating'
    BY <1>1, MigrationServers
  <1>4. LoopIsTrue'
    BY <1>1 DEF LoopIsTrue, LoopIsTrueOf, Current
  <1> QED
    BY <1>2, <1>3, <1>4

LEMMA NextKeeps == IInv /\ [Next]_vars => IInv'
  <1> SUFFICES ASSUME IInv, [Next]_vars PROVE IInv'
    OBVIOUS
  <1>1. CASE UNCHANGED vars
    <2>1. UNCHANGED <<ledger, schema, lockHolder, inFlight, pc, directory, todo,
                      starts>>
      BY <1>1 DEF vars, database, session, process
    <2>2. TypeOK' /\ LockGuardsMigrating' /\ LedgerDescribesSchema'
      BY <2>1 DEF IInv, TypeOK, LockGuardsMigrating, LedgerDescribesSchema
    <2>3. LoopIsTrue'
      BY <2>1 DEF IInv, LoopIsTrue, LoopIsTrueOf, Current
    <2>4. OrphansCanCommit'
      BY <2>1 DEF IInv, OrphansCanCommit, Applicable
    <2> QED
      BY <2>2, <2>3, <2>4 DEF IInv
  <1>2. ASSUME NEW s \in Servers,
               Start(s) \/ Proceed(s) \/ LockTimeout(s) \/ StatementFails(s) \/ Crash(s)
        PROVE  IInv'
    BY <1>2, StartKeeps, LockingKeeps, ReadMigrationsKeeps, PhaseKeeps,
       AlreadyAppliedKeeps, UnlockKeeps, LosingKeeps, CommitKeeps DEF Proceed
  <1> QED
    BY <1>1, <1>2, OrphanCommitsKeeps, OrphanEndsKeeps DEF Next

THEOREM RunnerInductive == Spec => []IInv
  BY InitHolds, NextKeeps, PTL DEF Spec

-----------------------------------------------------------------------------
(* Every variable keeps its type, and only the holder of the advisory lock *)
(* migrates, whatever fails, crashes and restarts (RunMigrations takes the *)
(* lock before its first statement and gives it up after its last).        *)
THEOREM LockExcludesMigrators == Spec => []RunnerInvariant
  <1>1. IInv => RunnerInvariant
    BY DEF IInv, RunnerInvariant
  <1> QED
    BY <1>1, RunnerInductive, PTL

(* The ledger says exactly which migrations took effect, each of them once *)
(* (the row and the statements are one transaction of the holder).         *)
THEOREM LedgerIsTheSchema == Spec => []LedgerDescribesSchema
  <1>1. IInv => LedgerDescribesSchema
    BY DEF IInv
  <1> QED
    BY <1>1, RunnerInductive, PTL

(* A server that serves has all migrations of its build, with its contents *)
(* (main runs RunMigrations to its end before it listens).                 *)
THEOREM ServersHaveTheirMigrations == Spec => []ServesItsMigrations
  <1>1. IInv => ServesItsMigrations
    BY DEF IInv, LoopIsTrue, LoopIsTrueOf, Looping, ServesItsMigrations
  <1> QED
    BY <1>1, RunnerInductive, PTL

(* RunMigrations implements the ledger: every step of every process is a   *)
(* whole migration of one of the builds, in its order, or changes neither  *)
(* ledger nor schema.                                                      *)
THEOREM RunnerImplementsLedger == Spec => ImplementsLedger
  <1>1. Init => Promise!LedgerInit
    BY DEF Init
  <1>2. IInv /\ [Next]_vars => [Promise!LedgerNext]_<<ledger, schema>>
    <2> SUFFICES ASSUME IInv, [Next]_vars,
                        ~ UNCHANGED <<ledger, schema>>
                 PROVE  Promise!LedgerNext
      OBVIOUS
    <2>1. ASSUME NEW file, NEW files, Applicable(files, file), TakesEffect(file)
          PROVE  Promise!LedgerNext
      BY <2>1 DEF Applicable, TakesEffect, Promise!LedgerNext, Promise!ApplyNext
    <2>2. ASSUME NEW s \in Servers,
                 Start(s) \/ Proceed(s) \/ LockTimeout(s) \/ StatementFails(s) \/ Crash(s)
          PROVE  Commit(s)
      BY <2>2 DEF Start, AcquireLock, LockTimeout, EnsureLedger, ReadMigrations,
                  NeedsApplying, AlreadyApplied, Refuse, Apply, Record, AllVisited,
                  Unlock, StatementFails, Crash, Proceed, database
    <2>3. ASSUME NEW s \in Servers, Commit(s) PROVE Promise!LedgerNext
      <3>1. pc[s] \in Applying /\ TakesEffect(Current(s))
        BY <2>3 DEF Commit, Applying
      <3> QED
        BY <2>1, <3>1, CurrentIsApplicable
    <2>4. ASSUME OrphanCommits PROVE Promise!LedgerNext
      BY <2>1, <2>4 DEF OrphanCommits, IInv, OrphansCanCommit
    <2>5. ~ OrphanEnds
      BY DEF OrphanEnds, database
    <2>6. ~ UNCHANGED vars
      BY DEF vars, database
    <2> QED
      BY <2>2, <2>3, <2>4, <2>5, <2>6 DEF Next
  <1> QED
    BY <1>1, <1>2, RunnerInductive, PTL
       DEF Spec, ImplementsLedger, Promise!LedgerSpec, Promise!ledgerVars
=============================================================================
