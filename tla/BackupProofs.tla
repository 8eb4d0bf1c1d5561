----------------------------- MODULE BackupProofs -----------------------------
(***************************************************************************)
(* Safety of Backup for every number of restores, commits and crashes.     *)
(* BootKeepsData looks at one moment of a start.  The invariant carries it *)
(* from the running panel, through a crash at any point, to that moment:   *)
(* what each step of a start may assume of the database file, its -wal     *)
(* and the pending file.                                                   *)
(***************************************************************************)
EXTENDS Backup, TLAPS

\* Only a running panel backs up and restores.
IdleWhenDown ==
    panel # "up" => backup = NoBackup /\ restore = [k \in Restores |-> NoRestore]

\* The -wal file belongs to the database file beside it, unless a start was
\* cut off after it had removed that file.
WalFits ==
    wal # NoWal => db \in {wal.on, wal.to} \/ (db = Absent /\ pending # Absent)

\* The database file is missing only while a start replaces it, and the file
\* it is replaced by is there.
Replacing ==
    /\ db = Absent => panel \in {"down", "unlink", "unlinkWal", "rename"}
                      /\ pending # Absent
    /\ panel \in {"unlink", "unlinkWal", "rename", "copy", "drop"} => pending # Absent
    /\ panel \in {"rename", "copy", "drop"} => wal = NoWal
    /\ panel = "drop" => db = pending
    /\ panel = "open" => pending = Absent

\* A running panel has what it committed.
InUse == panel = "up" => Opened(db, wal) = committed /\ committed # Broken

\* A restore that was reported complete is in the pending file until it is in
\* the place of the database; without one, every commit is in the files.
Due ==
    ~cut /\ Extracting = {} =>
        /\ \/ pending = chosen
           \/ /\ panel \in {"down", "open"} /\ chosen # Absent
              /\ pending = Absent /\ wal = NoWal /\ db = chosen
        /\ chosen = Absent => Opened(db, wal) = committed

\* What holds while no file operation of a start has gone wrong.
Sound == ~spoilt => WalFits /\ Replacing /\ Due

FilesInv == IdleWhenDown /\ InUse /\ Sound

IInv == TypeOK /\ FilesInv

\* No file holds a commit that was not made yet.
NoneFromLater ==
    /\ db <= commits /\ wal.to <= commits /\ pending <= commits
    /\ committed <= commits
    /\ \A a \in archives : a <= commits
    /\ \A k \in Restores : restore[k].from <= commits

\* A backup whose checkpoint worked copies a file that has the commits from
\* before it was asked for.
CopiesCurrent ==
    /\ backup.pc # "idle" => backup.since <= committed
    /\ backup.synced /\ backup.pc = "ready" => backup.since <= db
    /\ backup.synced /\ backup.pc = "copy" => backup.since <= backup.seen

CommitsInv == NoneFromLater /\ CopiesCurrent

CurrentInv == IInv /\ CommitsInv
-----------------------------------------------------------------------------
\* One step as a disjunction of the actions.
LEMMA NextCases ==
    ASSUME Next
    PROVE  \/ Commit \/ Checkpoint \/ Ends
           \/ BackupStarts \/ BackupCopies \/ BackupEnds \/ BackupFails \/ Deleted
           \/ BootStarts \/ BootUnlinks \/ BootUnlinksWal \/ BootRenames
           \/ BootCopies \/ BootCopied \/ BootDrops \/ BootGivesUp \/ BootOpens
           \/ \E k \in Restores :
                 RestoreStarts(k) \/ RestoreEnds(k) \/ RestoreFails(k) \/ Exits(k)
BY Zenon DEF Next, Database, Backups, Boot, Restoring

\* The marks of no file and of no database are no commits.
LEMMA Marks ==
    /\ Broken \notin Commits /\ Absent \notin Commits /\ Absent \notin Contents
    /\ Broken # Absent /\ Broken \in Contents /\ Empty \in Commits
    /\ Commits \subseteq Contents
    /\ \A c \in Contents : c # Broken => c \in Commits
BY BackupAssumption DEF Broken, Absent, Empty, Commits, Contents

\* The records of a call that is not under way have their types.
LEMMA IdleRecords == NoBackup \in BackupRec /\ NoRestore \in RestoreRec
BY Marks DEF NoBackup, BackupRec, NoRestore, RestoreRec

\* Without a log there is what is in the file; the log of a file that is there
\* ends with the commit that is found.
LEMMA OpenedValue ==
    ASSUME TypeOK
    PROVE  /\ wal = NoWal => Opened(db, wal) = db
           /\ wal # NoWal /\ db \in {wal.on, wal.to} => Opened(db, wal) = wal.to
           /\ wal # NoWal /\ db \notin {wal.on, wal.to} => Opened(db, wal) = Broken
           /\ db # Absent => Opened(db, wal) \in Contents
           /\ wal # NoWal => wal.on \in Commits /\ wal.to \in Commits
<1>1. wal # NoWal => wal.on \in Commits /\ wal.to \in Commits
  BY DEF TypeOK, Wals
<1> QED
  BY <1>1, Marks DEF TypeOK, Opened

\* The first state.
LEMMA InitIInv == ASSUME Init PROVE IInv
<1>1. TypeOK
  <2>1. 0 \in Commits /\ 0 \in Contents /\ 0 \in 0..MaxDowns
    BY Marks, BackupAssumption DEF Empty
  <2>2. NoWal \in Wals
    BY DEF Wals
  <2> QED
    BY <2>1, <2>2, IdleRecords, Marks DEF Init, TypeOK, Empty
<1>2. IdleWhenDown /\ InUse /\ Sound
  BY Marks DEF Init, IdleWhenDown, Sound, WalFits, Replacing, InUse, Due, Opened
<1> QED
  BY <1>1, <1>2 DEF IInv, FilesInv

\* Every step keeps the types.
LEMMA StepTypeOK == ASSUME IInv, Next PROVE TypeOK'
<1> USE BackupAssumption DEF IInv, FilesInv
<1>1. CASE Commit
  <2>1. commits + 1 \in Commits
    BY <1>1 DEF Commit, TypeOK, Commits
  <2>2. db \in Commits
    BY <1>1, OpenedValue, Marks DEF Commit, InUse, TypeOK
  <2>3. wal' \in Wals
    BY <1>1, <2>1, <2>2 DEF Commit, Wals
  <2> QED
    BY <1>1, <2>1, <2>3, Marks DEF Commit, TypeOK, files, bounds, history
<1>2. CASE Checkpoint
  BY <1>2, Marks, OpenedValue, IdleRecords DEF Checkpoint, Flush, Wals,
     TypeOK, files, bounds, history
<1>3. CASE Ends
  BY <1>3, Marks, OpenedValue, IdleRecords DEF Ends, Down, Flush, Wals,
     TypeOK, files, bounds, history
<1>4. CASE BackupStarts
  <2>1. db' \in Contents /\ wal' \in Wals
    BY <1>4, OpenedValue DEF BackupStarts, Flush, TypeOK, Wals, files
  <2>2. committed \in Commits
    BY <1>4, Marks DEF BackupStarts, InUse, TypeOK
  <2>3. backup' \in BackupRec
    BY <1>4, <2>2, Marks DEF BackupStarts, BackupRec
  <2> QED
    BY <1>4, <2>1, <2>3, Marks DEF BackupStarts, TypeOK, bounds, history
<1>5. CASE BackupCopies
  BY <1>5, Marks, OpenedValue, IdleRecords DEF BackupCopies, BackupRec,
     IdleWhenDown, NoBackup, TypeOK, files, bounds, history
<1>6. CASE BackupEnds
  BY <1>6, Marks, OpenedValue, IdleRecords DEF BackupEnds, IdleWhenDown,
     NoBackup, TypeOK, files, bounds, history
<1>7. CASE BackupFails
  BY <1>7, Marks, OpenedValue, IdleRecords DEF BackupFails, TypeOK, files,
     bounds, history
<1>8. CASE Deleted
  BY <1>8, Marks, OpenedValue, IdleRecords DEF Deleted, TypeOK, files, bounds,
     history
<1>9. CASE BootStarts
  BY <1>9, Marks, OpenedValue, IdleRecords DEF BootStarts, To, Sound, Replacing,
     TypeOK, files, bounds, history
<1>10. CASE BootUnlinks
  BY <1>10, Marks, OpenedValue, IdleRecords DEF BootUnlinks, To, TypeOK,
     files, bounds, history
<1>11. CASE BootUnlinksWal
  BY <1>11, Marks, OpenedValue, IdleRecords DEF BootUnlinksWal, To, Wals,
     TypeOK, files, bounds, history
<1>12. CASE BootRenames
  BY <1>12, Marks, OpenedValue, IdleRecords DEF BootRenames, To, Sound, Replacing,
     TypeOK, files, bounds, history
<1>13. CASE BootCopies
  BY <1>13, Marks, OpenedValue, IdleRecords DEF BootCopies, To, TypeOK, files,
     bounds, history
<1>14. CASE BootCopied
  BY <1>14, Marks, OpenedValue, IdleRecords DEF BootCopied, To, TypeOK, files,
     bounds, history
<1>15. CASE BootDrops
  BY <1>15, Marks, OpenedValue, IdleRecords DEF BootDrops, To, Sound, Replacing,
     TypeOK, files, bounds, history
<1>16. CASE BootOpens
  <2>1. /\ db' \in Contents \cup {Absent} /\ wal' \in Wals
        /\ panel' \in {"up", "down"} /\ (panel' = "up" => db' # Absent)
    BY <1>16, Marks DEF BootOpens, To, TypeOK, Wals, files
  <2>2. committed' \in Contents /\ chosen' \in Contents \cup {Absent} /\ spoilt' \in BOOLEAN
    BY <1>16, Marks, OpenedValue DEF BootOpens, To, TypeOK
  <2> QED
    BY <1>16, <2>1, <2>2 DEF BootOpens, TypeOK, bounds
<1>21. CASE BootGivesUp
  BY <1>21, Marks, OpenedValue, IdleRecords DEF BootGivesUp, To, TypeOK, files,
     bounds
<1>17. ASSUME NEW k \in Restores, RestoreStarts(k) PROVE TypeOK'
  <2>1. restore' \in [Restores -> RestoreRec]
    <3>1. PICK a \in archives :
            restore' = [l \in Restores |->
               IF l = k THEN [pc |-> "extract", from |-> a,
                              mixed |-> \E x \in Extracting : restore[x].from # a]
               ELSE IF l \in Extracting /\ restore[l].from # a
                    THEN [restore[l] EXCEPT !.mixed = TRUE]
                    ELSE restore[l]]
      BY <1>17 DEF RestoreStarts
    <3>2. a \in Contents
      BY DEF TypeOK
    <3>3. \A l \in Restores : [restore[l] EXCEPT !.mixed = TRUE] \in RestoreRec
      BY DEF TypeOK, RestoreRec
    <3>4. [pc |-> "extract", from |-> a,
           mixed |-> \E x \in Extracting : restore[x].from # a] \in RestoreRec
      BY <3>2 DEF RestoreRec
    <3> QED
      BY <3>1, <3>3, <3>4 DEF TypeOK
  <2> QED
    BY <1>17, <2>1, Marks DEF RestoreStarts, TypeOK, files, bounds, history
<1>18. ASSUME NEW k \in Restores, RestoreEnds(k) PROVE TypeOK'
  BY <1>18, Marks, OpenedValue, IdleRecords DEF RestoreEnds, RestoreRec,
     NoRestore, TypeOK, files, bounds, history
<1>19. ASSUME NEW k \in Restores, RestoreFails(k) PROVE TypeOK'
  BY <1>19, Marks, OpenedValue, IdleRecords DEF RestoreFails, TypeOK, files,
     bounds, history
<1>20. ASSUME NEW k \in Restores, Exits(k) PROVE TypeOK'
  <2>1. panel = "up" /\ db # Absent
    BY <1>20 DEF Exits, IdleWhenDown, NoRestore, TypeOK
  <2>2. db' \in Contents \cup {Absent} /\ wal' \in Wals
    BY <1>20, <2>1, OpenedValue DEF Exits, Flush, TypeOK, Wals, files
  <2> QED
    BY <1>20, <2>2, IdleRecords DEF Exits, Down, TypeOK
<1> QED
  BY <1>1, <1>2, <1>3, <1>4, <1>5, <1>6, <1>7, <1>8, <1>9, <1>10, <1>11,
     <1>12, <1>13, <1>14, <1>15, <1>16, <1>17, <1>18, <1>19, <1>20, <1>21, NextCases

\* Every step keeps the other parts of the invariant.
LEMMA StepFiles == ASSUME IInv, Next PROVE FilesInv'
<1> USE BackupAssumption DEF IInv, FilesInv
<1>1. CASE Commit
  <2>1. commits + 1 \in Commits
    BY <1>1 DEF Commit, TypeOK, Commits
  <2>2. wal' = [on |-> db, to |-> commits + 1] /\ wal' # NoWal /\ db # Absent
    BY <1>1 DEF Commit, NoWal, TypeOK
  <2>3. Opened(db, wal)' = commits + 1
    BY <1>1, <2>2 DEF Commit, Opened
  <2>4. IdleWhenDown' /\ InUse'
    BY <1>1, <2>1, <2>3, Marks DEF Commit, IdleWhenDown, InUse
  <2>5. Sound'
    BY <1>1, <2>2, <2>3 DEF Commit, Sound, WalFits, Replacing, Due, Extracting
  <2> QED
    BY <2>4, <2>5
<1>2. CASE Checkpoint
  BY <1>2, Marks, OpenedValue DEF Checkpoint, Flush, TypeOK, IdleWhenDown,
     InUse, Sound, WalFits, Replacing, Due, Opened, NoBackup, NoRestore, Extracting,
     files, bounds, history
<1>3. CASE Ends
  BY <1>3, Marks, OpenedValue DEF Ends, Down, Flush, TypeOK, IdleWhenDown,
     InUse, Sound, WalFits, Replacing, Due, Opened, NoBackup, NoRestore, Extracting,
     files, bounds, history
<1>4. CASE BackupStarts
  BY <1>4, Marks, OpenedValue DEF BackupStarts, Flush, TypeOK, IdleWhenDown,
     InUse, Sound, WalFits, Replacing, Due, Opened, NoBackup, NoRestore, Extracting,
     files, bounds, history
<1>5. CASE BackupCopies
  BY <1>5, Marks, OpenedValue DEF BackupCopies, TypeOK, IdleWhenDown, InUse, Sound,
     WalFits, Replacing, Due, Opened, NoBackup, NoRestore, Extracting, files,
     bounds, history
<1>6. CASE BackupEnds
  BY <1>6, Marks, OpenedValue DEF BackupEnds, TypeOK, IdleWhenDown, InUse, Sound,
     WalFits, Replacing, Due, Opened, NoBackup, NoRestore, Extracting, files,
     bounds, history
<1>7. CASE BackupFails
  BY <1>7, Marks, OpenedValue DEF BackupFails, TypeOK, IdleWhenDown, InUse, Sound,
     WalFits, Replacing, Due, Opened, NoBackup, NoRestore, Extracting, files,
     bounds, history
<1>8. CASE Deleted
  BY <1>8, Marks, OpenedValue DEF Deleted, TypeOK, IdleWhenDown, InUse, Sound,
     WalFits, Replacing, Due, Opened, NoBackup, NoRestore, Extracting, files,
     bounds, history
<1>9. CASE BootStarts
  BY <1>9, Marks, OpenedValue DEF BootStarts, To, TypeOK, IdleWhenDown,
     InUse, Sound, WalFits, Replacing, Due, Opened, NoBackup, NoRestore, Extracting,
     files, bounds, history
<1>10. CASE BootUnlinks
  BY <1>10, Marks, OpenedValue DEF BootUnlinks, To, TypeOK, IdleWhenDown,
     InUse, Sound, WalFits, Replacing, Due, Opened, NoBackup, NoRestore, Extracting,
     files, bounds, history
<1>11. CASE BootUnlinksWal
  BY <1>11, Marks, OpenedValue DEF BootUnlinksWal, To, TypeOK, IdleWhenDown,
     InUse, Sound, WalFits, Replacing, Due, Opened, NoBackup, NoRestore, Extracting,
     files, bounds, history
<1>12. CASE BootRenames
  BY <1>12, Marks, OpenedValue DEF BootRenames, To, TypeOK, IdleWhenDown,
     InUse, Sound, WalFits, Replacing, Due, Opened, NoBackup, NoRestore, Extracting,
     files, bounds, history
<1>13. CASE BootCopies
  BY <1>13, Marks, OpenedValue DEF BootCopies, To, TypeOK, IdleWhenDown,
     InUse, Sound, WalFits, Replacing, Due, Opened, NoBackup, NoRestore, Extracting,
     files, bounds, history
<1>14. CASE BootCopied
  BY <1>14, Marks, OpenedValue DEF BootCopied, To, TypeOK, IdleWhenDown,
     InUse, Sound, WalFits, Replacing, Due, Opened, NoBackup, NoRestore, Extracting,
     files, bounds, history
<1>15. CASE BootDrops
  BY <1>15, Marks, OpenedValue DEF BootDrops, To, TypeOK, IdleWhenDown,
     InUse, Sound, WalFits, Replacing, Due, Opened, NoBackup, NoRestore, Extracting,
     files, bounds, history
<1>16. CASE BootOpens
  BY <1>16, Marks, OpenedValue DEF BootOpens, To, TypeOK, IdleWhenDown,
     InUse, Sound, WalFits, Replacing, Due, Opened, NoBackup, NoRestore, Extracting,
     files, bounds, history
<1>21. CASE BootGivesUp
  BY <1>21 DEF BootGivesUp, To, TypeOK, IdleWhenDown, InUse, Sound, files
<1>17. ASSUME NEW k \in Restores, RestoreStarts(k) PROVE FilesInv'
  <2>1. restore'[k].pc = "extract" /\ panel = "up"
    BY <1>17 DEF RestoreStarts, TypeOK
  <2>2. k \in Extracting'
    BY <2>1 DEF Extracting
  <2> QED
    BY <1>17, <2>1, <2>2, Marks DEF RestoreStarts, TypeOK, IdleWhenDown, InUse,
       Sound, WalFits, Replacing, Due, files, bounds, history
<1>18. ASSUME NEW k \in Restores, RestoreEnds(k) PROVE FilesInv'
  <2>1. panel = "up" /\ restore[k].from \in Contents
    BY <1>18 DEF RestoreEnds, IdleWhenDown, NoRestore, TypeOK, RestoreRec
  <2>2. Extracting' = Extracting \ {k}
    BY <1>18 DEF RestoreEnds, Extracting, NoRestore, TypeOK
  <2>3. Due'
    <3> SUFFICES ASSUME ~cut', Extracting' = {}
                 PROVE  pending' = chosen' /\ chosen' # Absent
      BY DEF Due
    <3>1. Extracting = {k}
      BY <1>18, <2>2 DEF RestoreEnds, Extracting
    <3>2. ~restore[k].mixed
      BY <1>18 DEF RestoreEnds
    <3> QED
      BY <1>18, <2>1, <3>1, <3>2, Marks DEF RestoreEnds
  <2> QED
    BY <1>18, <2>1, <2>3, Marks DEF RestoreEnds, TypeOK, IdleWhenDown, InUse, Sound,
       WalFits, Replacing, files, bounds, history
<1>19. ASSUME NEW k \in Restores, RestoreFails(k) PROVE FilesInv'
  BY <1>19, Marks, OpenedValue DEF RestoreFails, TypeOK, IdleWhenDown,
     InUse, Sound, WalFits, Replacing, Due, Opened, NoBackup, NoRestore, Extracting,
     files, bounds, history
<1>20. ASSUME NEW k \in Restores, Exits(k) PROVE FilesInv'
  BY <1>20, Marks, OpenedValue DEF Exits, Down, Flush, TypeOK, IdleWhenDown,
     InUse, Sound, WalFits, Replacing, Due, Opened, NoBackup, NoRestore, Extracting,
     files, bounds, history
<1> QED
  BY <1>1, <1>2, <1>3, <1>4, <1>5, <1>6, <1>7, <1>8, <1>9, <1>10, <1>11,
     <1>12, <1>13, <1>14, <1>15, <1>16, <1>17, <1>18, <1>19, <1>20, <1>21, NextCases

\* The invariant holds, by its steps.
LEMMA Invariance == Spec => []IInv
<1>1. Init => IInv
  BY InitIInv
<1>2. IInv /\ [Next]_vars => IInv'
  <2>1. ASSUME IInv, Next PROVE IInv'
    BY <2>1, StepTypeOK, StepFiles, Zenon DEF IInv
  <2>2. ASSUME IInv, UNCHANGED vars PROVE IInv'
    BY <2>2 DEF vars, files, bounds, history, IInv, FilesInv, TypeOK,
       IdleWhenDown, InUse, Sound, WalFits, Replacing, Due, Extracting, Opened
  <2> QED
    BY <2>1, <2>2
<1> QED
  BY <1>1, <1>2, PTL DEF Spec

\* Type correctness: the files hold commits or are broken, a record of a call
\* is well formed, and a start never gets as far as opening a file that is not
\* there.
THEOREM TypeCorrect == Spec => []TypeOK
BY Invariance, PTL DEF IInv

\* A start of the panel opens what is due, with crashes before and during it:
\* the restore that was reported complete, or else every commit.
THEOREM BootDataKept == Spec => []BootKeepsData
<1>1. IInv => BootKeepsData
  BY Marks DEF IInv, FilesInv, Sound, TypeOK, IdleWhenDown, Replacing, Due,
     BootKeepsData, Opened, Extracting, NoRestore
<1> QED
  BY <1>1, Invariance, PTL

-----------------------------------------------------------------------------
(* Backups.                                                                *)

\* Every content is a number, and the marks are less than every commit.
LEMMA NumberMarks ==
    /\ Commits \subseteq Nat /\ Contents \subseteq Nat \cup {-1}
    /\ Broken = -1 /\ Absent = -2 /\ Empty = 0 /\ NoWal.to = Absent
BY BackupAssumption DEF Contents, Commits, Broken, Absent, Empty, NoWal

\* What is found in the files is from no later commit than what is in them.
LEMMA OpenedBound ==
    ASSUME TypeOK, NoneFromLater
    PROVE  Opened(db, wal) <= commits
BY NumberMarks DEF TypeOK, NoneFromLater, Opened

\* Every step keeps the numbers of commits in order, and a backup ahead of its
\* request.
LEMMA StepCurrent == ASSUME CurrentInv, Next PROVE CommitsInv'
<1> USE BackupAssumption DEF CurrentInv, IInv, FilesInv, CommitsInv
<1>1. CASE Commit
  <2>1. commits' = commits + 1 /\ commits \in Nat
    BY <1>1, NumberMarks DEF Commit, TypeOK
  <2>2. NoneFromLater'
    <3>1. db \in Int /\ pending \in Int /\ archives \subseteq Int
      BY NumberMarks DEF TypeOK
    <3>2. \A k \in Restores : restore[k].from \in Nat \cup {-1}
      BY NumberMarks DEF TypeOK, RestoreRec
    <3> QED
      BY <1>1, <2>1, <3>1, <3>2 DEF Commit, NoneFromLater
  <2>3. CopiesCurrent'
    <3>1. backup.since \in Commits /\ committed \in Contents
      BY DEF TypeOK, BackupRec
    <3>2. backup.since \in Nat /\ committed \in Nat \cup {-1}
      BY <3>1, NumberMarks
    <3> QED
      BY <1>1, <2>1, <3>2 DEF Commit, CopiesCurrent, NoneFromLater
  <2> QED
    BY <2>2, <2>3
<1>2. CASE Checkpoint
  BY <1>2, OpenedBound, NumberMarks DEF Checkpoint, Flush, InUse,
     CopiesCurrent, NoneFromLater, TypeOK, files, bounds, history
<1>3. CASE Ends
  BY <1>3, OpenedBound, NumberMarks DEF Ends, Down, Flush, NoBackup,
     NoRestore, CopiesCurrent, NoneFromLater, TypeOK, files, bounds, history
<1>4. CASE BackupStarts
  BY <1>4, OpenedBound, NumberMarks DEF BackupStarts, Flush, InUse,
     CopiesCurrent, NoneFromLater, TypeOK, files, bounds, history
<1>5. CASE BackupCopies
  BY <1>5, OpenedBound, NumberMarks DEF BackupCopies, CopiesCurrent,
     NoneFromLater, TypeOK, files, bounds, history
<1>6. CASE BackupEnds
  BY <1>6, OpenedBound, NumberMarks DEF BackupEnds, NoBackup, CopiesCurrent,
     NoneFromLater, TypeOK, files, bounds, history
<1>7. CASE BackupFails
  BY <1>7, OpenedBound, NumberMarks DEF BackupFails, NoBackup, CopiesCurrent,
     NoneFromLater, TypeOK, files, bounds, history
<1>8. CASE Deleted
  BY <1>8, OpenedBound, NumberMarks DEF Deleted, CopiesCurrent, NoneFromLater,
     TypeOK, files, bounds, history
<1>9. CASE BootStarts
  BY <1>9, OpenedBound, NumberMarks DEF BootStarts, To, IdleWhenDown,
     NoBackup, CopiesCurrent, NoneFromLater, TypeOK, files, bounds, history
<1>10. CASE BootUnlinks
  BY <1>10, OpenedBound, NumberMarks DEF BootUnlinks, To, IdleWhenDown,
     NoBackup, CopiesCurrent, NoneFromLater, TypeOK, files, bounds, history
<1>11. CASE BootUnlinksWal
  BY <1>11, OpenedBound, NumberMarks DEF BootUnlinksWal, To, IdleWhenDown,
     NoBackup, CopiesCurrent, NoneFromLater, TypeOK, files, bounds, history
<1>12. CASE BootRenames
  BY <1>12, OpenedBound, NumberMarks DEF BootRenames, To, IdleWhenDown,
     NoBackup, CopiesCurrent, NoneFromLater, TypeOK, files, bounds, history
<1>13. CASE BootCopies
  BY <1>13, OpenedBound, NumberMarks DEF BootCopies, To, IdleWhenDown,
     NoBackup, CopiesCurrent, NoneFromLater, TypeOK, files, bounds, history
<1>14. CASE BootCopied
  BY <1>14, OpenedBound, NumberMarks DEF BootCopied, To, IdleWhenDown,
     NoBackup, CopiesCurrent, NoneFromLater, TypeOK, files, bounds, history
<1>15. CASE BootDrops
  BY <1>15, OpenedBound, NumberMarks DEF BootDrops, To, IdleWhenDown,
     NoBackup, CopiesCurrent, NoneFromLater, TypeOK, files, bounds, history
<1>16. CASE BootOpens
  BY <1>16, OpenedBound, NumberMarks DEF BootOpens, To, IdleWhenDown,
     NoBackup, CopiesCurrent, NoneFromLater, TypeOK, files, bounds, history
<1>21. CASE BootGivesUp
  BY <1>21, NumberMarks DEF BootGivesUp, To, IdleWhenDown, CopiesCurrent,
     NoneFromLater, TypeOK, files, bounds
<1>17. ASSUME NEW k \in Restores, RestoreStarts(k) PROVE CommitsInv'
  BY <1>17, OpenedBound, NumberMarks DEF RestoreStarts, CopiesCurrent,
     NoneFromLater, TypeOK, files, bounds, history
<1>18. ASSUME NEW k \in Restores, RestoreEnds(k) PROVE CommitsInv'
  BY <1>18, OpenedBound, NumberMarks DEF RestoreEnds, NoRestore,
     CopiesCurrent, NoneFromLater, TypeOK, files, bounds, history
<1>19. ASSUME NEW k \in Restores, RestoreFails(k) PROVE CommitsInv'
  BY <1>19, OpenedBound, NumberMarks DEF RestoreFails, NoRestore,
     CopiesCurrent, NoneFromLater, TypeOK, files, bounds, history
<1>20. ASSUME NEW k \in Restores, Exits(k) PROVE CommitsInv'
  BY <1>20, OpenedBound, NumberMarks DEF Exits, Down, Flush, NoBackup,
     NoRestore, CopiesCurrent, NoneFromLater, TypeOK, files, bounds, history
<1> QED
  BY <1>1, <1>2, <1>3, <1>4, <1>5, <1>6, <1>7, <1>8, <1>9, <1>10, <1>11,
     <1>12, <1>13, <1>14, <1>15, <1>16, <1>17, <1>18, <1>19, <1>20, <1>21, NextCases

\* The longer invariant holds, by its steps.
LEMMA CurrentInvariance == Spec => []CurrentInv
<1>1. Init => CurrentInv
  <2>1. ASSUME Init PROVE CommitsInv
    BY <2>1, NumberMarks DEF Init, CommitsInv, NoneFromLater, CopiesCurrent,
       NoBackup, NoRestore
  <2> QED
    BY <2>1, InitIInv DEF CurrentInv
<1>2. CurrentInv /\ [Next]_vars => CurrentInv'
  <2>1. ASSUME CurrentInv, Next PROVE CurrentInv'
    BY <2>1, StepTypeOK, StepFiles, StepCurrent, Zenon DEF CurrentInv, IInv
  <2>2. ASSUME CurrentInv, UNCHANGED vars PROVE CurrentInv'
    BY <2>2 DEF vars, files, bounds, history, CurrentInv, IInv, FilesInv, TypeOK,
       IdleWhenDown, InUse, Sound, WalFits, Replacing, Due, Extracting, Opened, CommitsInv,
       NoneFromLater, CopiesCurrent
  <2> QED
    BY <2>1, <2>2
<1> QED
  BY <1>1, <1>2, PTL DEF Spec

\* Only the end of a backup adds an archive.
LEMMA ArchivesGrow ==
    ASSUME Next
    PROVE  archives' \subseteq archives \/ BackupEnds
BY NextCases DEF Commit, Checkpoint, Ends, Down, BackupStarts, BackupCopies,
   BackupFails, Deleted, BootStarts, BootUnlinks, BootUnlinksWal, BootRenames,
   BootCopies, BootCopied, BootDrops, BootGivesUp, BootOpens, RestoreStarts, RestoreEnds,
   RestoreFails, Exits

\* A backup has every commit from before it was asked for, if its checkpoint
\* worked; or it is a torn copy.
THEOREM BackupCurrent == Spec => BackupIsCurrent
<1>1. CurrentInv /\ [Next]_vars
        => [\A a \in archives' \ archives :
               backup.synced => a = Broken \/ a >= backup.since]_vars
  <2> SUFFICES ASSUME CurrentInv, Next, backup.synced,
                      NEW a \in archives' \ archives
               PROVE  a = Broken \/ a >= backup.since
    BY DEF vars
  <2>1. BackupEnds
    BY ArchivesGrow
  <2>2. a = Broken \/ (a = db /\ db = backup.seen)
    BY <2>1 DEF BackupEnds
  <2>3. backup.since <= backup.seen
    BY <2>1 DEF BackupEnds, CurrentInv, CommitsInv, CopiesCurrent
  <2>4. backup.since \in Commits /\ backup.seen \in Contents
    BY DEF CurrentInv, IInv, TypeOK, BackupRec
  <2> QED
    BY <2>2, <2>3, <2>4, NumberMarks
<1> QED
  BY <1>1, CurrentInvariance, PTL DEF Spec, BackupIsCurrent

=============================================================================
