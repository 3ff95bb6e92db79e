------------------------------ MODULE Migrate -------------------------------
(***************************************************************************)
(* Migrations applied by replicas that start together                      *)
(* (internal/platform/migrate, Up).                                        *)
(*                                                                         *)
(* A replica holds a session's advisory lock from before it reads what is  *)
(* applied to its end, and loses it with its connection.  Each file is one *)
(* transaction with its row of schema_migrations.                          *)
(***************************************************************************)
EXTENDS Naturals, Sequences, SequencesExt

CONSTANTS
    Replicas,
    FilesOf,      \* per replica: its files by version, each a <<version, content>>
    MaxMigrateFaults \* bound: connections lost and files that fail

ASSUME MigrateBounds == MaxMigrateFaults \in Nat

\* Load sorts the files by version, and refuses two of one version.
Loaded(files) == \A i, j \in DOMAIN files : i < j => files[i][1] < files[j][1]

ASSUME MigrateFiles ==
    \A r \in Replicas : FilesOf[r] \in Seq(Nat \X STRING) /\ Loaded(FilesOf[r])

VARIABLES
    migrated,  \* schema_migrations: what was applied, in order
    replica,   \* where each replica is, what it found applied, its next file
    locked,    \* the replicas that hold the advisory lock
    migrateFaults

migrateVars == <<migrated, replica, locked, migrateFaults>>

NotStarted == [at |-> "waiting", found |-> {}, next |-> 1, hit |-> FALSE]

MigrateInit ==
    /\ migrated = <<>>
    /\ replica = [r \in Replicas |-> NotStarted]
    /\ locked = {}
    /\ migrateFaults = 0

Versions(files) == {f[1] : f \in files}
File(r) == FilesOf[r][replica[r].next]

\* Mutant of MayLock: the lock is not waited for.
MayLockAlways(r) == TRUE

\* pg_advisory_lock waits for whoever has it.
MayLock(r) == locked = {}

Lock(r) ==
    /\ replica[r].at = "waiting" /\ MayLock(r)
    /\ locked' = locked \cup {r}
    /\ replica' = [replica EXCEPT ![r].at = "locked"]
    /\ UNCHANGED <<migrated, migrateFaults>>

\* ensureTable and loadApplied.
LoadApplied(r) ==
    /\ replica[r].at = "locked"
    /\ replica' = [replica EXCEPT ![r].at = "applying", ![r].found = ToSet(migrated)]
    /\ UNCHANGED <<migrated, locked, migrateFaults>>

\* Up returns, and unlocks.
Ends(r, at) ==
    /\ replica' = [replica EXCEPT ![r].at = at]
    /\ locked' = locked \ {r}

Skip(r) ==
    /\ replica[r].at = "applying" /\ replica[r].next <= Len(FilesOf[r])
    /\ File(r) \in replica[r].found
    /\ replica' = [replica EXCEPT ![r].next = @ + 1]
    /\ UNCHANGED <<migrated, locked, migrateFaults>>

\* The file is applied with another content: ErrDrift.
Drift(r) ==
    /\ replica[r].at = "applying" /\ replica[r].next <= Len(FilesOf[r])
    /\ File(r)[1] \in Versions(replica[r].found) /\ File(r) \notin replica[r].found
    /\ Ends(r, "drifted")
    /\ UNCHANGED <<migrated, migrateFaults>>

\* applyOne: the file and its row, whose version is the primary key.
ApplyOne(r) ==
    /\ replica[r].at = "applying" /\ replica[r].next <= Len(FilesOf[r])
    /\ File(r)[1] \notin Versions(replica[r].found)
    /\ IF File(r)[1] \in Versions(ToSet(migrated))
       THEN Ends(r, "failed") /\ UNCHANGED migrated
       ELSE /\ migrated' = Append(migrated, File(r))
            /\ replica' = [replica EXCEPT ![r].next = @ + 1]
            /\ UNCHANGED locked
    /\ UNCHANGED migrateFaults

UpEnds(r) ==
    /\ replica[r].at = "applying" /\ replica[r].next > Len(FilesOf[r])
    /\ Ends(r, "done")
    /\ UNCHANGED <<migrated, migrateFaults>>

\* A file fails, or the replica dies and is started again.
MigrateFails(r) ==
    /\ migrateFaults < MaxMigrateFaults
    /\ r \in locked
    /\ locked' = locked \ {r}
    /\ \/ replica' = [replica EXCEPT ![r] = NotStarted]
       \/ replica' = [replica EXCEPT ![r].at = "failed", ![r].hit = TRUE]
    /\ migrateFaults' = migrateFaults + 1
    /\ UNCHANGED migrated

MigrateStep(r) ==
    Lock(r) \/ LoadApplied(r) \/ Skip(r) \/ Drift(r) \/ ApplyOne(r) \/ UpEnds(r)

MigrateNext == \E r \in Replicas : MigrateStep(r) \/ MigrateFails(r)

MigrateSpec == MigrateInit /\ [][MigrateNext]_migrateVars

----------------------------------------------------------------------------
(* Properties. *)

MigrateTypeOK ==
    /\ \A r \in Replicas :
          /\ replica[r].at \in {"waiting", "locked", "applying", "drifted", "failed", "done"}
          /\ replica[r].next \in 1 .. Len(FilesOf[r]) + 1
          /\ replica[r].found \subseteq ToSet(migrated)
    /\ locked \subseteq Replicas
    /\ migrateFaults \in 0 .. MaxMigrateFaults

\* migrate.go:1: "applies embedded SQL migrations exactly once, in order".  Each version
\* is applied once, after the earlier versions of the binary that applied it; a replica
\* that is done runs on its own files; and one that starts while another migrates waits
\* for it: it fails of its own accord never, and stops only at a file that was edited.
MigrationsApplyOnce ==
    /\ \A i, j \in DOMAIN migrated : migrated[i][1] = migrated[j][1] => i = j
    /\ \A i \in DOMAIN migrated : \E r \in Replicas : \E n \in DOMAIN FilesOf[r] :
          /\ FilesOf[r][n] = migrated[i]
          /\ \A m \in 1 .. n - 1 : \E j \in 1 .. i - 1 : migrated[j] = FilesOf[r][m]
    /\ \A r \in Replicas :
          /\ replica[r].at = "done" => ToSet(FilesOf[r]) \subseteq ToSet(migrated)
          /\ replica[r].at = "failed" => replica[r].hit
          /\ replica[r].at = "drifted" => \E i \in DOMAIN migrated :
                migrated[i][1] = File(r)[1] /\ migrated[i] # File(r)

=============================================================================
