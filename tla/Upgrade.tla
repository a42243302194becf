------------------------------ MODULE Upgrade -------------------------------
(***************************************************************************)
(* The database file over starts, upgrades and maintenance                 *)
(* (internal/database, the lock of internal/maintenance): servers that     *)
(* prepare the database, migrate it from the v2 to the v3 schema after a   *)
(* verified backup and back it up periodically, and backfill jobs that     *)
(* take a backup of their own, prepare the database too, and rewrite       *)
(* computed values.  Servers share the lock, a job excludes everybody; the *)
(* kernel releases it when a process ends.  A copy, a check, a transaction *)
(* or a removal may fail and a process may die at every step.              *)
(*                                                                         *)
(* A backup is in files from the moment it is created, newest last; its    *)
(* name is a timestamp, which rotation sorts by.                           *)
(***************************************************************************)
EXTENDS Naturals, Sequences, FiniteSets, SequencesExt

CONSTANTS Servers, Jobs,      \* the processes
          MaxBackups,         \* max_backups (0 keeps all)
          Stored,             \* the status rows a v2 database may hold
          MaxRows,            \* bound: status rows
          MaxFaults           \* bound: failures and crashes

Procs == Servers \cup Jobs
Nobody == "nobody"

\* Schema versions: MinCompatibleVersion, CurrentSchemaVersion.
Oldest == 2
Current == 3

\* Status rows (error_data, of one register): an instant, and the layout its
\* timestamp is stored in.  (register, timestamp) is unique, and only the normal
\* layout has one text for an instant.  A timestamp may be none at all.
\* An instant stands for a millisecond, as in TimestampLayout: the older layouts
\* have finer ones, which NormalizeStatusTimestamp truncates.  Two rows of one
\* millisecond would become one; polls are at least a second apart.
Forms == {"string", "rfc3339", "normal"}
NoRow == [at |-> 0, form |-> "none"]
Garbage == [at |-> 0, form |-> "garbage"]
Ids == 1 .. MaxRows
Empty == [i \in Ids |-> NoRow]
Normal(t) == [at |-> t, form |-> "normal"]
Legacy(row) == row.form \in {"string", "rfc3339"}

ASSUME UpgradeAssumption ==
    /\ Servers \cap Jobs = {} /\ Nobody \notin Procs
    /\ MaxBackups \in Nat /\ MaxRows \in Nat \ {0} /\ MaxFaults \in Nat
    /\ \A rows \in Stored :
          /\ rows \in [Ids -> {NoRow, Garbage} \cup [at : 1 .. MaxRows - 1, form : Forms]]
          /\ rows[MaxRows] = NoRow
          /\ \A i, j \in Ids : rows[i] = rows[j] /\ rows[i].form = "normal" => i = j

VARIABLES
    db,         \* the schema version, the status rows, the computed values
    exists,     \* the database file exists
    files,      \* the backups
    pc, goal,   \* per process: its next step, what its backup is for
    original,   \* db at first (history variable)
    faults

vars == <<db, exists, files, pc, goal, original, faults>>

\* A v0 database with data tables is from before the migration system.
Init ==
    /\ db \in [version : {0, Oldest}, rows : Stored, computed : {0}]
              \cup [version : {0, 1, Current, Current + 1}, rows : {Empty}, computed : {0}]
    /\ exists \in IF db.version = 0 /\ db.rows = Empty THEN BOOLEAN ELSE {TRUE}
    /\ files = << >>
    /\ pc = [p \in Procs |-> "off"] /\ goal = [p \in Procs |-> "none"]
    /\ original = db /\ faults = 0

Goto(p, step) == pc' = [pc EXCEPT ![p] = step]

\* A failure or a crash, as long as the bound allows one.
Fault == faults < MaxFaults /\ faults' = faults + 1

-----------------------------------------------------------------------------
\* Backups.

\* WriteBackup names and creates the file.
StartBackup(p, for) ==
    /\ files' = Append(files, [by |-> p, state |-> "partial", content |-> db])
    /\ goal' = [goal EXCEPT ![p] = for]
    /\ Goto(p, "copy")

\* The file p is writing; another process may have rotated it away.
Mine(p) == {i \in DOMAIN files : files[i].by = p}

\* A backup that fails ends the start or the job; a server that runs goes on.
GiveUp(p) == Goto(p, IF goal[p] = "periodic" THEN "rotate" ELSE "off")

\* runBackup copies the database as it is in one step; the copy may be unsound.
Copy(p) ==
    /\ pc[p] = "copy" /\ Mine(p) # {}
    /\ \/ /\ files' = [i \in DOMAIN files |-> IF i \in Mine(p)
                          THEN [by |-> p, state |-> "sound", content |-> db] ELSE files[i]]
          /\ UNCHANGED faults
       \/ /\ Fault
          /\ files' = [i \in DOMAIN files |-> IF i \in Mine(p)
                          THEN [by |-> p, state |-> "unsound", content |-> db] ELSE files[i]]
    /\ Goto(p, "verify")
    /\ UNCHANGED <<db, exists, goal, original>>

\* createSQLiteBackup returns before the check: the file stays.
CopyFails(p) ==
    /\ pc[p] = "copy" /\ Mine(p) # {} /\ Fault
    /\ files' = [i \in DOMAIN files |-> IF i \in Mine(p) THEN [files[i] EXCEPT !.by = Nobody]
                                                         ELSE files[i]]
    /\ GiveUp(p)
    /\ UNCHANGED <<db, exists, goal, original>>

\* (mutant) The check is skipped.
SoundUnchecked(file) == TRUE

\* checkBackupIntegrity
Sound(file) == file.state = "sound"

\* verifyBackupFile: a copy that passes counts, ...
Verify(p) ==
    /\ pc[p] = "verify" /\ \E i \in Mine(p) : Sound(files[i])
    /\ files' = [i \in DOMAIN files |-> IF i \in Mine(p) THEN [files[i] EXCEPT !.by = Nobody]
                                                         ELSE files[i]]
    /\ Goto(p, IF goal[p] = "migration" THEN "migrate" ELSE "rotate")
    /\ UNCHANGED <<db, exists, goal, original, faults>>

\* ... one that fails, or cannot be checked, is removed, ...
VerifyFails(p) ==
    /\ pc[p] = "verify"
    /\ \E i \in Mine(p) : /\ files' = RemoveAt(files, i)
                          /\ IF Sound(files[i]) THEN Fault ELSE UNCHANGED faults
    /\ GiveUp(p)
    /\ UNCHANGED <<db, exists, goal, original>>

\* ... and one that is gone fails as well.
BackupGone(p) ==
    /\ pc[p] \in {"copy", "verify"} /\ Mine(p) = {}
    /\ GiveUp(p)
    /\ UNCHANGED <<db, exists, files, goal, original, faults>>

\* The newest MaxBackups files.
Kept == SubSeq(files, Len(files) - MaxBackups + 1, Len(files))

\* CleanupBackups: the newest MaxBackups files stay, whatever they hold; a file
\* that cannot be removed stays too.
Rotate(p) ==
    /\ pc[p] = "rotate"
    /\ \/ /\ files' = IF MaxBackups = 0 \/ Len(files) <= MaxBackups THEN files ELSE Kept
          /\ UNCHANGED faults
       \/ /\ MaxBackups > 0 /\ Len(files) > MaxBackups /\ Fault
          /\ files' = <<Head(files)>> \o Kept
    /\ Goto(p, IF goal[p] = "job" THEN "prepare" ELSE "open")
    /\ UNCHANGED <<db, exists, goal, original>>

-----------------------------------------------------------------------------
\* The migration to v3.

\* (mutant) A row whose twin exists stays as it is.
RewrittenKept(rows, i) ==
    IF Legacy(rows[i]) /\ \A j \in Ids : rows[j] # Normal(rows[i].at)
    THEN [rows EXCEPT ![i] = Normal(@.at)] ELSE rows

\* rewriteStatusTimestamp: normalize the row, or delete it when its twin exists.
Rewritten(rows, i) ==
    IF ~Legacy(rows[i]) THEN rows
    ELSE [rows EXCEPT ![i] = IF \E j \in Ids : rows[j] = Normal(@.at) THEN NoRow ELSE Normal(@.at)]

\* normalizeStatusTimestamps, in id order; what cannot be parsed stays.
Normalized(rows) == FoldLeft(Rewritten, rows, [i \in Ids |-> i])

\* (mutant) The version is recorded outside of the transaction, and is lost.
MigratedUnrecorded(d) == [d EXCEPT !.rows = Normalized(@)]

\* applyInTx: the migration and its version.
Migrated(d) == [d EXCEPT !.version = Current, !.rows = Normalized(@)]

\* migrate: an existing database is backed up first.
Pending(p) ==
    IF exists THEN StartBackup(p, "migration")
    ELSE Goto(p, "migrate") /\ goal' = [goal EXCEPT ![p] = "migration"] /\ UNCHANGED files

\* checkCompatible: version 0 only without data tables.
Compatible(d) == d.version >= Oldest \/ (d.version = 0 /\ d.rows = Empty)

\* Prepare, upgrade: opening the database creates the file.
Prepare(p) ==
    /\ pc[p] = "prepare"
    /\ exists' = TRUE
    /\ \/ db.version = Current /\ Goto(p, "open") /\ UNCHANGED <<files, goal>>
       \/ /\ db.version > Current \/ (db.version < Current /\ ~Compatible(db))
          /\ Goto(p, "off") /\ UNCHANGED <<files, goal>>
       \/ db.version < Current /\ Compatible(db) /\ Pending(p)
    /\ UNCHANGED <<db, original, faults>>

\* ApplyMigration commits, ...
Migrate(p) ==
    /\ pc[p] = "migrate"
    /\ db' = Migrated(db)
    /\ Goto(p, "rotate")
    /\ UNCHANGED <<exists, files, goal, original, faults>>

\* ... or is rolled back.
MigrateFails(p) ==
    /\ pc[p] = "migrate" /\ Fault
    /\ Goto(p, "off")
    /\ UNCHANGED <<db, exists, files, goal, original>>

-----------------------------------------------------------------------------
\* Processes.

\* AcquireShared, AcquireExclusive
Free(p) == \A q \in IF p \in Jobs THEN Procs ELSE Jobs : pc[q] = "off"

\* A server prepares the database; a job backs it up first, if there is one.
Acquire(p) ==
    /\ pc[p] = "off" /\ Free(p)
    /\ \/ p \in Servers /\ Goto(p, "prepare") /\ UNCHANGED <<files, goal>>
       \/ p \in Jobs /\ exists /\ StartBackup(p, "job")
    /\ UNCHANGED <<db, exists, original, faults>>

\* RunBackfill rewrites computed values, or fails, and ends.
Recompute(p) ==
    /\ p \in Jobs /\ pc[p] = "open"
    /\ \/ db' = [db EXCEPT !.computed = 1 - @]
       \/ UNCHANGED db
    /\ Goto(p, "off")
    /\ UNCHANGED <<exists, files, goal, original, faults>>

\* The poller of a server stores a status change of a new instant.
Record(p) ==
    /\ p \in Servers /\ pc[p] = "open" /\ db.rows[MaxRows] = NoRow
    /\ db' = [db EXCEPT !.rows[MaxRows] = Normal(MaxRows)]
    /\ UNCHANGED <<exists, files, pc, goal, original, faults>>

\* RunPeriodicBackups
Periodic(p) ==
    /\ p \in Servers /\ pc[p] = "open"
    /\ StartBackup(p, "periodic")
    /\ UNCHANGED <<db, exists, original, faults>>

Stop(p) ==
    /\ p \in Servers /\ pc[p] = "open"
    /\ Goto(p, "off")
    /\ UNCHANGED <<db, exists, files, goal, original, faults>>

\* The process dies; what it was writing stays.
Crash(p) ==
    /\ pc[p] # "off" /\ Fault
    /\ files' = [i \in DOMAIN files |-> IF i \in Mine(p) THEN [files[i] EXCEPT !.by = Nobody]
                                                         ELSE files[i]]
    /\ Goto(p, "off")
    /\ UNCHANGED <<db, exists, goal, original>>

Work(p) ==
    \/ Copy(p) \/ Verify(p) \/ VerifyFails(p) \/ BackupGone(p) \/ Rotate(p)
    \/ Prepare(p) \/ Migrate(p)

Next ==
    \E p \in Procs :
        \/ Acquire(p) \/ Work(p) \/ CopyFails(p) \/ MigrateFails(p)
        \/ Recompute(p) \/ Record(p) \/ Periodic(p) \/ Stop(p) \/ Crash(p)

Spec == Init /\ [][Next]_vars

\* Somebody starts the server; a process that has begun goes on.
FairSpec ==
    /\ Spec
    /\ \A p \in Procs : WF_vars(Work(p)) /\ WF_vars(Recompute(p))
    /\ \A p \in Servers : SF_vars(Acquire(p))

-----------------------------------------------------------------------------
\* Correctness.

\* backupBeforeMigration, RunBackfill: "no backup means no migration", "No backup,
\* no write": at the moment stored data is migrated or recomputed there is a sound
\* backup it can be restored from, whoever wrote, failed, rotated or died before.
RewriteCovered ==
    [][db.version >= Oldest /\ (db'.version # db.version \/ db'.computed # db.computed) =>
          \E i \in DOMAIN files : /\ files[i].state = "sound"
                                  /\ db \in {files[i].content, Migrated(files[i].content)}]_vars

\* normalizeStatusTimestamps, checkCompatible: the migrated table has one row, in
\* the fixed layout, for every instant it had, and what cannot be parsed is left
\* alone, also when two servers migrate it; a schema that is refused is untouched.
UpgradeExact ==
    /\ db.version = Current /\ original.version = Oldest =>
          /\ \A i \in Ids : Legacy(original.rows[i]) \/ original.rows[i].form = "normal" =>
                Cardinality({j \in Ids : db.rows[j].at = original.rows[i].at /\ db.rows[j] # NoRow}) = 1
          /\ \A i \in Ids : ~Legacy(db.rows[i])
          /\ \A i \in Ids : original.rows[i].form = "garbage" => db.rows[i] = original.rows[i]
    /\ original.version > Current \/ ~Compatible(original) => db = original

\* Prepare: a v2 database, and a fresh one, is migrated in the end, whatever
\* crashes and failures left behind.
UpgradeCompletes == (db.version < Current /\ Compatible(db)) ~> db.version = Current
=============================================================================
