-------------------------------- MODULE Backup --------------------------------
(***************************************************************************)
(* Backups of the panel's database, restores, and what the panel does with *)
(* the database files when it starts (BackupService, main.ts), with crashes    *)
(* between any two steps.  The copy of them that a start keeps for the     *)
(* user (db-bootstrap-backup.ts) is not modelled: nothing reads it.        *)
(*                                                                         *)
(* The database is in WAL mode: what is committed is in the -wal file      *)
(* until a checkpoint moves it to the database file.  A content is the     *)
(* number of the commit it ends with.                                      *)
(***************************************************************************)
EXTENDS Integers

CONSTANTS
    Restores,       \* calls of restoreBackup
    MaxCommits,     \* bound on commits
    MaxDowns        \* bound on ends of the panel's process

ASSUME BackupAssumption ==
    MaxCommits \in Nat /\ MaxDowns \in Nat

Broken == -1    \* not a database: half a file, or pages of different states
Absent == -2    \* no such file
Empty  == 0     \* the tables TypeORM creates

Commits  == 0..MaxCommits
Contents == Commits \cup {Broken}
NoWal == [on |-> Absent, to |-> Absent]
Wals  == [on : Commits, to : Commits] \cup {NoWal}

VARIABLES
    db, wal,        \* fcc_database.sqlite and its -wal file
    pending,        \* fcc_database.sqlite.restore
    archives,       \* the databases in the backups there are
    panel,          \* the panel runs, or where its start is
    backup,         \* the call of createBackup under way
    restore,        \* one record for each call of restoreBackup
    commits, downs,
    committed, chosen, cut, spoilt      \* what the properties remember; see below

files   == <<db, wal>>
bounds  == <<commits, downs>>
history == <<committed, chosen, cut, spoilt>>
vars == <<files, pending, archives, panel, backup, restore, bounds, history>>

BackupRec == [pc : {"idle", "ready", "copy"}, since : Commits, seen : Contents,
              synced : BOOLEAN]
RestoreRec == [pc : {"idle", "extract", "exit"}, from : Contents, mixed : BOOLEAN]

NoBackup  == [pc |-> "idle", since |-> Empty, seen |-> Empty, synced |-> FALSE]
NoRestore == [pc |-> "idle", from |-> Empty, mixed |-> FALSE]

TypeOK ==
    /\ db \in Contents \cup {Absent} /\ wal \in Wals
    /\ pending \in Contents \cup {Absent}
    /\ archives \subseteq Contents
    /\ panel \in {"down", "unlink", "unlinkWal", "rename", "copy", "drop",
                  "open", "up"}
    /\ panel = "up" \/ (panel = "open" /\ ~spoilt) => db # Absent
    /\ backup \in BackupRec /\ restore \in [Restores -> RestoreRec]
    /\ commits \in Commits /\ downs \in 0..MaxDowns
    /\ committed \in Contents /\ chosen \in Contents \cup {Absent}
    /\ cut \in BOOLEAN /\ spoilt \in BOOLEAN

\* A panel that was installed a while ago runs.
Init ==
    /\ db = Empty /\ wal = NoWal
    /\ pending = Absent /\ archives = {}
    /\ panel = "up" /\ backup = NoBackup /\ restore = [k \in Restores |-> NoRestore]
    /\ commits = 0 /\ downs = 0
    /\ committed = Empty /\ chosen = Absent
    /\ cut = FALSE /\ spoilt = FALSE

\* What SQLite finds in a file and the -wal beside it.  Frames that belong to
\* another state of the file are played over it all the same.
Opened(file, log) ==
    IF log = NoWal THEN file
    ELSE IF file \in {log.on, log.to} THEN log.to ELSE Broken

-----------------------------------------------------------------------------
(* The running panel and its database.                                     *)

Commit ==
    /\ panel = "up" /\ commits < MaxCommits
    /\ commits' = commits + 1 /\ committed' = commits + 1
    /\ wal' = [on |-> db, to |-> commits + 1]
    /\ UNCHANGED <<db, pending, archives, panel, backup, restore,
                   downs, chosen, cut, spoilt>>

\* The log is moved to the file, and emptied.
Flush == db' = Opened(db, wal) /\ wal' = NoWal

Checkpoint ==
    /\ panel = "up" /\ wal # NoWal
    /\ Flush
    /\ UNCHANGED <<pending, archives, panel, backup, restore, bounds, history>>

Extracting == {k \in Restores : restore[k].pc = "extract"}

\* The process ends; a clean end closes the database first.  What was being
\* extracted is cut off.
Down ==
    /\ panel' = "down"
    /\ backup' = NoBackup
    /\ restore' = [k \in Restores |-> NoRestore]
    /\ cut' = (cut \/ Extracting # {})
    /\ UNCHANGED <<pending, archives, commits, committed, chosen, spoilt>>

\* A crash at any point, or a stop of the panel.
Ends ==
    /\ downs < MaxDowns /\ downs' = downs + 1
    /\ \/ panel # "down" /\ UNCHANGED files
       \/ panel = "up" /\ Flush
    /\ Down

-----------------------------------------------------------------------------
(* createBackup().                                                         *)

\* Mutant: no checkpoint before the copy.
BackupStarts_NoCheckpoint ==
    /\ panel = "up" /\ backup.pc = "idle"
    /\ UNCHANGED files
    /\ backup' = [pc |-> "ready", since |-> committed, seen |-> Empty, synced |-> TRUE]
    /\ UNCHANGED <<pending, archives, panel, restore, bounds, history>>

\* PRAGMA wal_checkpoint(TRUNCATE), whose failure is ignored.
BackupStarts ==
    /\ panel = "up" /\ backup.pc = "idle"
    /\ \E ok \in BOOLEAN :
         /\ IF ok THEN Flush ELSE UNCHANGED files
         /\ backup' = [pc |-> "ready", since |-> committed, seen |-> Empty, synced |-> ok]
    /\ UNCHANGED <<pending, archives, panel, restore, bounds, history>>

\* The file is hashed and put in the queue of the archiver, which reads it.
BackupCopies ==
    /\ backup.pc = "ready"
    /\ backup' = [backup EXCEPT !.pc = "copy", !.seen = db]
    /\ UNCHANGED <<files, pending, archives, panel, restore, bounds, history>>

\* The archive is renamed from .tmp.  If a checkpoint ran while the file was
\* read, the copy has pages from before and after it.
BackupEnds ==
    /\ backup.pc = "copy"
    /\ archives' = archives \cup {IF db = backup.seen THEN db ELSE Broken}
    /\ backup' = NoBackup
    /\ UNCHANGED <<files, pending, panel, restore, bounds, history>>

BackupFails ==
    /\ backup.pc # "idle" /\ backup' = NoBackup
    /\ UNCHANGED <<files, pending, archives, panel, restore, bounds, history>>

\* deleteBackup, or pruneOldBackups after a scheduled one.  A restore of it
\* goes on: it has the archive open.
Deleted ==
    /\ panel = "up"
    /\ \E a \in archives : archives' = archives \ {a}
    /\ UNCHANGED <<files, pending, panel, backup, restore, bounds, history>>

-----------------------------------------------------------------------------
(* restoreBackup(), with the database among what is restored, and the end  *)
(* of the process that the controller schedules after it.                  *)

\* The entry of the database is extracted straight to the pending file; two
\* calls write to the same one.
RestoreStarts(k) ==
    /\ panel = "up" /\ restore[k].pc = "idle"
    /\ \E a \in archives :
         restore' = [l \in Restores |->
            IF l = k THEN [pc |-> "extract", from |-> a,
                           mixed |-> \E x \in Extracting : restore[x].from # a]
            ELSE IF l \in Extracting /\ restore[l].from # a
                 THEN [restore[l] EXCEPT !.mixed = TRUE]
                 ELSE restore[l]]
    /\ pending' = Broken
    /\ UNCHANGED <<files, archives, panel, backup, bounds, history>>

\* Mutant: the exit is not scheduled.
RestoreEnds_Stays(k) ==
    /\ restore[k].pc = "extract"
    /\ restore' = [restore EXCEPT ![k] = NoRestore]
    /\ pending' = IF restore[k].mixed \/ Extracting # {k} THEN Broken ELSE restore[k].from
    /\ chosen' = restore[k].from
    /\ cut' = (cut \/ restore[k].mixed)
    /\ UNCHANGED <<files, archives, panel, backup, bounds, committed, spoilt>>

\* The last bytes; if another call still writes, they are not.
RestoreEnds(k) ==
    /\ restore[k].pc = "extract"
    /\ restore' = [restore EXCEPT ![k] = [NoRestore EXCEPT !.pc = "exit"]]
    /\ pending' = IF restore[k].mixed \/ Extracting # {k} THEN Broken ELSE restore[k].from
    /\ chosen' = restore[k].from
    /\ cut' = (cut \/ restore[k].mixed)
    /\ UNCHANGED <<files, archives, panel, backup, bounds, committed, spoilt>>

\* extract throws; what it wrote stays.
RestoreFails(k) ==
    /\ restore[k].pc = "extract"
    /\ restore' = [restore EXCEPT ![k] = NoRestore]
    /\ cut' = TRUE
    /\ UNCHANGED <<files, pending, archives, panel, backup, bounds, committed, chosen,
                   spoilt>>

\* process.exit(0), 1.5 s after a restore.
Exits(k) ==
    /\ restore[k].pc = "exit"
    /\ UNCHANGED files \/ Flush
    /\ Down /\ UNCHANGED downs

-----------------------------------------------------------------------------
(* The start of the panel: main.ts applies a pending restore before the    *)
(* database is opened.                                                     *)

To(pc) == panel' = pc

\* Mutant: the old files are removed whether or not there is a pending one.
BootStarts_Always ==
    /\ panel = "down" /\ To("unlink")
    /\ UNCHANGED <<files, pending, archives, backup, restore, bounds, history>>

BootStarts ==
    /\ panel = "down"
    /\ To(IF pending # Absent THEN "unlink" ELSE "open")
    /\ UNCHANGED <<files, pending, archives, backup, restore, bounds, history>>

\* A file that cannot be removed is left, and the start goes on.
BootUnlinks ==
    /\ panel = "unlink" /\ To("unlinkWal")
    /\ db' \in {Absent, db}
    /\ UNCHANGED <<wal, pending, archives, backup, restore, bounds, history>>

\* Mutant: the log of the old database is left.
BootUnlinksWal_Not ==
    /\ panel = "unlinkWal" /\ To("rename")
    /\ UNCHANGED <<files, pending, archives, backup, restore, bounds, history>>

BootUnlinksWal ==
    /\ panel = "unlinkWal" /\ To("rename")
    /\ wal' \in {NoWal, wal}
    /\ spoilt' = (spoilt \/ wal' # NoWal)
    /\ UNCHANGED <<db, pending, archives, backup, restore, bounds, committed,
                   chosen, cut>>

BootRenames ==
    /\ panel = "rename" /\ To("open")
    /\ db' = pending /\ pending' = Absent
    /\ UNCHANGED <<wal, archives, backup, restore, bounds, history>>

\* renameSync throws: the file is copied instead, which takes a while.
BootCopies ==
    /\ panel = "rename" /\ To("copy")
    /\ db' = Broken
    /\ UNCHANGED <<wal, pending, archives, backup, restore, bounds, history>>

BootCopied ==
    /\ panel = "copy" /\ To("drop")
    /\ db' = pending
    /\ UNCHANGED <<wal, pending, archives, backup, restore, bounds, history>>

BootDrops ==
    /\ panel = "drop" /\ To("open")
    /\ pending' = Absent
    /\ UNCHANGED <<files, archives, backup, restore, bounds, history>>

\* The rename and the copy both throw, or the pending file that was copied cannot
\* be removed: that is logged, and the start goes on.
BootGivesUp ==
    /\ panel \in {"rename", "copy", "drop"} /\ To("open")
    /\ spoilt' = TRUE
    /\ UNCHANGED <<files, pending, archives, backup, restore, bounds, committed,
                   chosen, cut>>

\* TypeORM opens the database, and creates one where there is none: SQLite
\* removes the log beside an empty one.  If what is there is no database, the
\* start fails.
BootOpens ==
    /\ panel = "open"
    /\ \/ /\ db = Absent /\ To("up")
          /\ db' = Empty /\ wal' = NoWal /\ committed' = Empty
       \/ /\ db # Absent /\ Opened(db, wal) # Broken /\ To("up")
          /\ committed' = Opened(db, wal) /\ UNCHANGED files
       \/ /\ db # Absent /\ Opened(db, wal) = Broken /\ To("down")
          /\ UNCHANGED <<files, committed>>
    /\ IF panel' = "up" THEN chosen' = Absent /\ spoilt' = (spoilt /\ pending # Absent)
                        ELSE UNCHANGED <<chosen, spoilt>>
    /\ UNCHANGED <<pending, archives, backup, restore, bounds, cut>>

-----------------------------------------------------------------------------
Database == Commit \/ Checkpoint
Backups  == BackupStarts \/ BackupCopies \/ BackupEnds \/ BackupFails \/ Deleted
Restoring(k) == RestoreStarts(k) \/ RestoreEnds(k) \/ RestoreFails(k) \/ Exits(k)
Boot == \/ BootStarts \/ BootUnlinks \/ BootUnlinksWal \/ BootRenames
        \/ BootCopies \/ BootCopied \/ BootDrops \/ BootGivesUp \/ BootOpens

Next == Database \/ Ends \/ Backups \/ Boot \/ \E k \in Restores : Restoring(k)

\* The exit is scheduled, whoever supervises the panel starts it again, and a
\* start takes its steps.
Fairness == WF_vars(Boot) /\ \A k \in Restores : WF_vars(Exits(k))

Spec == Init /\ [][Next]_vars /\ Fairness

-----------------------------------------------------------------------------
(* Properties.  committed: the last commit to the database in use.         *)
(* chosen: the database of the restore that ended last, until a start has  *)
(* applied it.  cut: the process ended while a restore was writing, or two *)
(* restores of different backups wrote at once.  spoilt: a start could not *)
(* remove the old log, or not put the pending file in its place, and went  *)
(* on; until a start opens what there is with no pending file left.        *)

\* Every start opens what is due: the restore that was reported complete, whole
\* and without anything of the database before it, or else every commit; with
\* crashes before and during that start, and an old database that cannot be
\* removed.  It does not when the old -wal cannot: main.ts goes on with it beside
\* the restored database (spoilt).
BootKeepsData ==
    panel = "open" /\ ~cut /\ ~spoilt =>
        Opened(db, wal) = IF chosen # Absent THEN chosen ELSE committed

\* A backup has every commit from before it was asked for, if its checkpoint
\* worked; or it is a torn copy.
BackupIsCurrent ==
    [][\A a \in archives' \ archives :
          backup.synced => a = Broken \/ a >= backup.since]_vars

\* A restore that was reported complete is taken up by a start of the panel, unless
\* the file operations of that start fail.
RestoreTakesEffect ==
    chosen \in Commits ~> chosen \in {Absent, Broken} \/ cut \/ spoilt
=============================================================================
