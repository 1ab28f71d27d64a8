--------------------------- MODULE MigrationLedger ---------------------------
(***************************************************************************)
(* What RunMigrations promises, whichever server processes start, stop,    *)
(* crash and race: the schema changes by whole migrations, each one at     *)
(* most once and recorded with it, and never before an earlier migration   *)
(* of the same directory, whose names can all be read.  MigrationRunner    *)
(* implements this specification.                                          *)
(***************************************************************************)
EXTENDS Naturals, Sequences

CONSTANTS
    Versions,     \* migration versions, positive numbers
    Checksums,    \* contents of migration files, as their checksums
    Directories,  \* the sets of migration files that builds ship
    Dirty,        \* versions another tool may have recorded as failed
    None          \* no ledger row

File == [version : Versions, checksum : Checksums]

LedgerRow == [checksum : Checksums \cup {None}, success : BOOLEAN]

(* The row of a migration that another tool recorded as failed.            *)
FailedRow == [checksum |-> None, success |-> FALSE]

Recorded(file) == [checksum |-> file.checksum, success |-> TRUE]

VARIABLES
    ledger,  \* ledger[v]: the row of _sqlx_migrations, None without one
    schema   \* the versions whose statements took effect, in that order

ledgerVars == <<ledger, schema>>

LedgerInit ==
    /\ \E failed \in SUBSET Dirty :
          ledger = [v \in Versions |-> IF v \in failed THEN FailedRow ELSE None]
    /\ schema = <<>>

ApplyNext(files, file) ==
    /\ ledger[file.version] = None
    /\ \A earlier \in files :
          earlier.version < file.version => ledger[earlier.version] = Recorded(earlier)
    /\ ledger' = [ledger EXCEPT ![file.version] = Recorded(file)]
    /\ schema' = Append(schema, file.version)

LedgerNext ==
    \E files \in Directories \cap SUBSET File : \E file \in files :
        ApplyNext(files, file)

LedgerSpec == LedgerInit /\ [][LedgerNext]_ledgerVars
=============================================================================
