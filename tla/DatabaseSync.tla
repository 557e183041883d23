---------------------------- MODULE DatabaseSync ----------------------------
(***************************************************************************)
(* The synchronisation of the pacman databases (parallel_sync.rs): every   *)
(* process downloads all databases and their signatures into a staging     *)
(* directory of its own, takes the lock of libalpm, links the live files   *)
(* into the staging directory, renames the new ones into place, and takes  *)
(* everything back if a step fails.                                        *)
(*                                                                         *)
(* Odd files are databases, the next even one is the signature.  The       *)
(* contents of a file are the process that downloaded it.                  *)
(***************************************************************************)
EXTENDS Naturals

CONSTANTS
  Syncers,   \* processes
  First,     \* contents of the files that are there at the start
  Absent,    \* no file, no process
  LastFile   \* number of files, even

ASSUME SyncConstants ==
  /\ LastFile \in Nat \ {0} /\ LastFile % 2 = 0
  /\ First \notin Syncers /\ Absent \notin Syncers \cup {First}

VARIABLES
  live,      \* the files in the sync directory
  dbLock,    \* holder of db.lck; the file outlives a killed holder
  syncer,    \* per process: control point and file to work on
  wanted,    \* per process: files that are to be published
  backup,    \* per process: live files linked into its staging directory
  placed,    \* per process: files with "published" set
  failed,    \* per process: a step of the roll back failed
  writer,    \* the last process that took the lock
  before,    \* what it found
  told       \* what its caller was told

syncVars == <<live, dbLock, syncer, wanted, backup, placed, failed, writer, before, told>>

DbFiles == 1..LastFile
Databases == {f \in DbFiles : f % 2 = 1}
Contents == Syncers \cup {First, Absent}
SyncPoints == {"idle", "downloaded", "backup", "publish", "sync", "clean",
               "withdraw", "restore", "done"}

Step(p, point, f) == syncer' = [syncer EXCEPT ![p] = [at |-> point, file |-> f]]
Point(p, point) == syncer[p].at = point

SyncInit ==
  /\ live \in {files \in [DbFiles -> {First, Absent}] :
                 \A f \in Databases : files[f] = Absent => files[f + 1] = Absent}
  /\ dbLock = Absent
  /\ syncer = [p \in Syncers |-> [at |-> "idle", file |-> 0]]
  /\ wanted = [p \in Syncers |-> {}] /\ placed = wanted
  /\ backup = [p \in Syncers |-> [f \in DbFiles |-> Absent]]
  /\ failed = [p \in Syncers |-> FALSE]
  /\ writer = Absent /\ before = live /\ told = "none"

\* download_db of every repository: a repository whose SigLevel does not check
\* databases gets no signature, and a mirror without one is refused when the level
\* checks them and the live database has one.
Download(p) ==
  /\ Point(p, "idle")
  /\ \E checked \in SUBSET (DbFiles \ Databases) : \E signed \in SUBSET checked :
       /\ \A f \in checked \ signed : live[f] = Absent
       /\ wanted' = [wanted EXCEPT ![p] = Databases \cup signed]
  /\ Step(p, "downloaded", 0)
  /\ UNCHANGED <<live, dbLock, backup, placed, failed, writer, before, told>>

\* A failed download or a failed verification, or a lock that another process
\* holds or left behind: nothing is touched.
Refused(p) ==
  /\ Point(p, "downloaded") /\ Step(p, "done", 0)
  /\ UNCHANGED <<live, dbLock, wanted, backup, placed, failed, writer, before, told>>

\* trans_init
LockDatabase(p) ==
  /\ Point(p, "downloaded") /\ dbLock = Absent
  /\ dbLock' = p /\ writer' = p /\ before' = live /\ told' = "none"
  /\ Step(p, "backup", 1)
  /\ UNCHANGED <<live, wanted, backup, placed, failed>>

RollBack(p) == Step(p, "withdraw", LastFile)

\* The live file is linked, not moved: it stays in place for the readers.
Backup(p) ==
  LET f == syncer[p].file IN
  /\ Point(p, "backup")
  /\ \/ /\ f <= LastFile
        /\ \/ /\ live[f] # Absent /\ f \in wanted[p]
              /\ backup' = [backup EXCEPT ![p][f] = live[f]] /\ Step(p, "backup", f + 1)
           \/ /\ live[f] = Absent \/ f \notin wanted[p]
              /\ Step(p, "backup", f + 1) /\ UNCHANGED backup
           \/ RollBack(p) /\ UNCHANGED backup
     \/ f > LastFile /\ Step(p, "publish", 1) /\ UNCHANGED backup
  /\ UNCHANGED <<live, dbLock, wanted, placed, failed, writer, before, told>>

Publish(p) ==
  LET f == syncer[p].file IN
  /\ Point(p, "publish")
  /\ \/ /\ f <= LastFile
        /\ live' = IF f \in wanted[p] THEN [live EXCEPT ![f] = p] ELSE live
        /\ placed' = [placed EXCEPT ![p] = @ \cup {f}] /\ Step(p, "publish", f + 1)
     \/ f \in wanted[p] /\ RollBack(p) /\ UNCHANGED <<live, placed>>
     \/ f > LastFile /\ Step(p, "sync", 0) /\ UNCHANGED <<live, placed>>
  /\ UNCHANGED <<dbLock, wanted, backup, failed, writer, before, told>>

\* The directory is synced while the backups are still there.
SyncDirectory(p) ==
  /\ Point(p, "sync")
  /\ Step(p, "clean", 0) \/ RollBack(p)
  /\ UNCHANGED <<live, dbLock, wanted, backup, placed, failed, writer, before, told>>

\* Backups removed, lock released.
Committed(p) ==
  /\ Point(p, "clean")
  /\ backup' = [backup EXCEPT ![p] = [f \in DbFiles |-> Absent]]
  /\ \/ dbLock' = Absent /\ told' = "ok"
     \/ UNCHANGED dbLock /\ told' = "attention"
  /\ Step(p, "done", 0)
  /\ UNCHANGED <<live, wanted, placed, failed, writer, before>>

-----------------------------------------------------------------------------
(* rollback_database_publication: from the last file to the first.         *)

\* Mutation: new files without a predecessor stay.
WithdrawReplacedOnly(p) ==
  LET f == syncer[p].file IN
  /\ Point(p, "withdraw") /\ f > 0 /\ Step(p, "restore", f)
  /\ UNCHANGED <<live, dbLock, wanted, backup, placed, failed, writer, before, told>>

\* A new file with a predecessor is linked back to its staged name, one without
\* is moved there.
Withdraw(p) ==
  LET f == syncer[p].file
      there == f \in placed[p] \cap wanted[p]
  IN
  /\ Point(p, "withdraw") /\ f > 0 /\ Step(p, "restore", f)
  /\ \/ /\ live' = IF there /\ backup[p][f] = Absent THEN [live EXCEPT ![f] = Absent] ELSE live
        /\ UNCHANGED failed
     \/ there /\ failed' = [failed EXCEPT ![p] = TRUE] /\ UNCHANGED live
  /\ UNCHANGED <<dbLock, wanted, backup, placed, writer, before, told>>

Restore(p) ==
  LET f == syncer[p].file
      kept == backup[p][f]
  IN
  /\ Point(p, "restore") /\ Step(p, "withdraw", f - 1)
  /\ \/ /\ kept # Absent
        /\ live' = [live EXCEPT ![f] = kept]
        /\ backup' = [backup EXCEPT ![p][f] = Absent] /\ UNCHANGED failed
     \/ kept # Absent /\ failed' = [failed EXCEPT ![p] = TRUE] /\ UNCHANGED <<live, backup>>
     \/ kept = Absent /\ UNCHANGED <<live, backup, failed>>
  /\ UNCHANGED <<dbLock, wanted, placed, writer, before, told>>

\* Mutation: the staging directory goes although a restore failed.
RolledBackAndCleaned(p) ==
  /\ Point(p, "withdraw") /\ syncer[p].file = 0
  /\ \/ ~failed[p] /\ told' = "failed"
     \/ told' = "attention"
  /\ backup' = [backup EXCEPT ![p] = [f \in DbFiles |-> Absent]]
  /\ dbLock' = Absent /\ Step(p, "done", 0)
  /\ UNCHANGED <<live, wanted, placed, failed, writer, before>>

\* The directory is synced again; the staging directory goes unless it may hold
\* the only copy of a file.
RolledBack(p) ==
  /\ Point(p, "withdraw") /\ syncer[p].file = 0
  /\ \/ ~failed[p] /\ told' = "failed"
     \/ told' = "attention"
  /\ backup' = IF told' = "failed"
               THEN [backup EXCEPT ![p] = [f \in DbFiles |-> Absent]] ELSE backup
  /\ dbLock' = Absent /\ Step(p, "done", 0)
  /\ UNCHANGED <<live, wanted, placed, failed, writer, before>>

\* The staging directory and the lock file stay behind.
SyncKilled(p) ==
  /\ syncer[p].at \notin {"idle", "done"} /\ Step(p, "done", 0)
  /\ told' = IF dbLock = p THEN "killed" ELSE told
  /\ UNCHANGED <<live, dbLock, wanted, backup, placed, failed, writer, before>>

-----------------------------------------------------------------------------
SyncNext ==
  \E p \in Syncers :
    \/ Download(p) \/ Refused(p) \/ LockDatabase(p) \/ Backup(p) \/ Publish(p)
    \/ SyncDirectory(p) \/ Committed(p)
    \/ Withdraw(p) \/ Restore(p) \/ RolledBack(p) \/ SyncKilled(p)

SyncSpec == SyncInit /\ [][SyncNext]_syncVars

-----------------------------------------------------------------------------
(* Properties.                                                             *)

\* Every variable has its type.
SyncTypeOK ==
  /\ live \in [DbFiles -> Contents] /\ dbLock \in Syncers \cup {Absent}
  /\ syncer \in [Syncers -> [at : SyncPoints, file : 0..(LastFile + 1)]]
  /\ wanted \in [Syncers -> SUBSET DbFiles] /\ placed \in [Syncers -> SUBSET DbFiles]
  /\ backup \in [Syncers -> [DbFiles -> Contents]] /\ failed \in [Syncers -> BOOLEAN]
  /\ writer \in Syncers \cup {Absent} /\ before \in [DbFiles -> Contents]
  /\ told \in {"none", "ok", "failed", "attention", "killed"}

\* Until the whole new set is in place and synced, every file that was live when
\* the publication began is live still or kept in the staging directory, however
\* many steps of it and of its roll back fail and wherever it is killed
\* (commit_staged_files, rollback_database_publication).
OldSetRecoverable ==
  \A f \in DbFiles :
     \/ writer = Absent \/ before[f] \in {Absent, live[f], backup[writer][f]}
     \/ \A g \in wanted[writer] : live[g] = writer

\* A publication tells its caller the truth: "ok" means every database and
\* signature that was staged is live and no other file changed, an ordinary
\* failure means that nothing changed.
SyncState ==
  IF writer = Absent \/ live = before THEN "before"
  ELSE IF live = [f \in DbFiles |-> IF f \in wanted[writer] THEN writer ELSE before[f]]
  THEN "after" ELSE "between"
Sync == INSTANCE AllOrNothing WITH state <- SyncState, report <- told
SyncAllOrNothing == Sync!Spec
=============================================================================
