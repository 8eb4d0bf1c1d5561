--------------------------- MODULE GameUpdateProofs ---------------------------
(***************************************************************************)
(* Safety of GameUpdate for every number of calls and versions.  What a    *)
(* job reports at its end follows from what it knows on the way there: how *)
(* the version it read, the patch in hand and the plan relate to the files *)
(* of the game, which other jobs may have changed since they were read.    *)
(***************************************************************************)
EXTENDS GameUpdate, TLAPS

Patching == {"installed", "link", "zip", "apply"}
Looping  == Patching \cup {"slaves"}

\* The files never go back to a version before v.
NotBefore(v) == installed = Unknown \/ installed >= v

\* A plan is from a version that was read to one after it.
Plans ==
    \A k \in Calls :
        /\ jobs[k].pc = "available" => jobs[k].ver \in Versions /\ NotBefore(jobs[k].ver)
        /\ AtWork(k) => /\ jobs[k].first \in Versions /\ NotBefore(jobs[k].first)
                        /\ jobs[k].first < jobs[k].last

\* One job is at work, and the state is about it.
Alone ==
    /\ \A k, l \in Calls : AtWork(k) /\ AtWork(l) => k = l
    /\ \A k \in Calls : AtWork(k) =>
         /\ state.running /\ ~state.partial
         /\ state.phase \in {"preparing", "download", "apply"}
         /\ state.from = jobs[k].first /\ state.target = jobs[k].last

\* Of a job at work: the patches before the one in hand are in the files, the
\* version that was read before a download is that of the files and not one after
\* that of the patch, and one that ends with part of its patches reports no more.
\* No child applies a patch but that in hand, until it is waited for no longer.
Progress(k) ==
    /\ jobs[k].pc \in Patching =>
         IF jobs[k].moved THEN installed >= jobs[k].at ELSE jobs[k].at = jobs[k].first
    /\ jobs[k].pc = "final" => installed >= jobs[k].last
    /\ jobs[k].pc \in {"link", "zip", "apply"} /\ jobs[k].ver # Unknown =>
         jobs[k].ver = installed /\ jobs[k].ver <= jobs[k].at
    /\ jobs[k].pc = "partial" =>
         jobs[k].ver >= jobs[k].first /\ jobs[k].ver <= installed
    /\ AtWork(k) => updaters = {} \/ jobs[k].pc \in {"slaves", "unfit"}
    /\ jobs[k].pc = "slaves" =>
         updaters \subseteq {jobs[k].at} /\ (updaters # {} => installed = jobs[k].at)

Settled == (state.phase = "done" => updaters = {}) /\ \A k \in Calls : Progress(k)

OwnState == Alone /\ (~stray => Settled)

IInv == TypeOK /\ Plans /\ (~raced => OwnState) /\ ReportIsTrue

-----------------------------------------------------------------------------
\* One step as a disjunction of the actions.
LEMMA NextCases ==
    ASSUME Next
    PROVE  \/ Stop \/ ServerChanges \/ OfferChanges \/ UpdaterEnds
           \/ \E k \in Calls :
                \/ Start(k) \/ Refused(k) \/ Prepared(k) \/ Planned(k) \/ NoDirectory(k)
                \/ Installed(k) \/ Linked(k) \/ NotLinked(k) \/ Zipped(k)
                \/ NotZipped(k) \/ Applied(k) \/ NotApplied(k) \/ Waited(k)
                \/ Final(k) \/ Failed(k) \/ PartialEnds(k) \/ NotPartial(k)
BY Zenon DEF Next, Outside, Request, Patch, Verdict

\* How a job may change the files: to a later version, or to none that can be read.
FilesGrow ==
    /\ installed' \in Versions \cup {Unknown}
    /\ \/ installed' \in {installed, Unknown}
       \/ installed # Unknown /\ installed' > installed

\* What was applied to the files stays applied.
LEMMA NeverBack ==
    ASSUME TypeOK, FilesGrow, NEW v \in Versions, NotBefore(v)
    PROVE  NotBefore(v)'
BY UpdateAssumption DEF FilesGrow, NotBefore, TypeOK, Versions, Unknown

\* The records of no job have their types.
LEMMA IdleRecords == Idle \in StateRec /\ NoJob \in JobRec /\ NoJob.pc = "idle"
<1>1. 0 \in 0..MaxVersion /\ 0 \in 0..2 * MaxVersion
  BY UpdateAssumption
<1> QED
  BY <1>1 DEF Idle, StateRec, NoJob, JobRec, Unknown

\* A step of a job that is still at work after it.
LEMMA WorkGoesOn ==
    ASSUME IInv, NEW k \in Calls, NEW r \in JobRec,
           jobs' = [jobs EXCEPT ![k] = r], AtWork(k), r.pc \in Working,
           r.first = jobs[k].first, r.last = jobs[k].last,
           r.pc \in Looping => r.first <= r.at /\ r.at < r.last,
           state' \in StateRec, state'.running = state.running,
           state'.partial = state.partial, state'.from = state.from,
           state'.target = state.target, state'.finalTo = state.finalTo,
           state'.phase \in {state.phase, "download", "apply"},
           FilesGrow, updaters' \subseteq Versions \ {MaxVersion},
           stray' \in BOOLEAN, stray => stray',
           UNCHANGED <<offered, serverUp, raced>>,
           ~raced /\ ~stray' => Progress(k)'
    PROVE  IInv'
<1> USE UpdateAssumption DEF IInv
<1>1. TypeOK'
  BY DEF TypeOK, Patching, Looping, Working, FilesGrow
<1>2. Plans'
  <2>1. \A v \in Versions : NotBefore(v) => NotBefore(v)'
    BY NeverBack
  <2>2. ASSUME NEW l \in Calls, l # k PROVE jobs'[l] = jobs[l]
    BY <2>2 DEF TypeOK
  <2>3. jobs'[k] = r /\ r.pc # "available"
    BY DEF TypeOK, Working
  <2> QED
    BY <2>1, <2>2, <2>3 DEF Plans, AtWork
<1>3. ASSUME ~raced PROVE OwnState'
  <2>1. Alone'
    BY <1>3 DEF OwnState, Alone, AtWork, TypeOK
  <2>2. ASSUME NEW l \in Calls, l # k PROVE Progress(l)'
    <3>1. jobs'[l] = jobs[l] /\ ~AtWork(l)
      BY <1>3, <2>2 DEF TypeOK, OwnState, Alone
    <3> QED
      BY <3>1 DEF Progress, AtWork, Working, Patching
  <2>3. state'.phase # "done"
    BY <1>3 DEF OwnState, Alone
  <2> QED
    BY <1>3, <2>1, <2>2, <2>3 DEF OwnState, Settled
<1>4. ReportIsTrue'
  BY <1>3 DEF ReportIsTrue, OwnState, Alone, AtWork, TypeOK
<1> QED
  BY <1>1, <1>2, <1>3, <1>4

\* The end of a job.
LEMMA WorkEnds ==
    ASSUME IInv, NEW k \in Calls, AtWork(k), NEW report \in StateRec, Ends(k, report),
           report.phase \in {"done", "error", "cancelled"},
           FilesGrow, report.phase = "done" => installed' = installed,
           stray' \in BOOLEAN, stray => stray',
           UNCHANGED <<offered, serverUp, updaters, raced>>,
           ~raced /\ ~stray' /\ report.phase = "done" =>
              /\ updaters = {}
              /\ report.finalTo <= installed /\ report.finalTo >= report.from
              /\ ~report.partial => report.finalTo >= report.target
    PROVE  IInv'
<1> USE UpdateAssumption DEF IInv
<1>1. NoJob \in JobRec /\ NoJob.pc = "idle"
  BY IdleRecords
<1>2. PICK removed \in BOOLEAN :
        state' = IF removed THEN [report EXCEPT !.running = FALSE]
                            ELSE [report EXCEPT !.phase = "error"]
  BY DEF Ends
<1>3. jobs' = [jobs EXCEPT ![k] = NoJob]
  BY DEF Ends
<1>4. TypeOK'
  BY <1>1, <1>2, <1>3 DEF TypeOK, StateRec, FilesGrow
<1>5. Plans'
  BY <1>1, <1>3, NeverBack DEF Plans, TypeOK, AtWork, Working
<1>6. ASSUME ~raced PROVE \A l \in Calls : ~AtWork(l)'
  BY <1>1, <1>3, <1>6 DEF OwnState, Alone, AtWork, TypeOK, Working
<1>7. ASSUME ~raced PROVE OwnState'
  <2>1. Alone' /\ \A l \in Calls : Progress(l)'
    BY <1>6, <1>7 DEF Alone, Progress, AtWork, Working, Patching
  <2>2. ~stray' /\ state'.phase = "done" => updaters' = {}
    BY <1>2, <1>7 DEF StateRec
  <2> QED
    BY <2>1, <2>2 DEF OwnState, Settled
<1>8. ReportIsTrue'
  BY <1>2, <1>6 DEF ReportIsTrue, StateRec
<1> QED
  BY <1>4, <1>5, <1>7, <1>8

\* The operators of worker(): a failure or a cancellation, the way to the next
\* patch, the start of a download, and an end with part of the patches.
LEMMA FailKeeps ==
    ASSUME IInv, NEW k \in Calls, AtWork(k), Fail(k) \/ Cancelled(k), FilesGrow,
           stray' \in BOOLEAN, stray => stray',
           UNCHANGED <<offered, serverUp, updaters, raced>>
    PROVE  IInv'
<1>1. /\ [state EXCEPT !.phase = "error"] \in StateRec
      /\ [state EXCEPT !.phase = "cancelled"] \in StateRec
  BY DEF IInv, TypeOK, StateRec
<1>2. CASE Fail(k)
  BY <1>1, <1>2, WorkEnds DEF Fail, StateRec
<1>3. CASE Cancelled(k)
  BY <1>1, <1>3, WorkEnds DEF Cancelled, StateRec
<1> QED
  BY <1>2, <1>3

\* A patch that was applied: the next one, or the check at the end.
LEMMA AdvanceKeeps ==
    ASSUME IInv, NEW k \in Calls, jobs[k].pc \in Looping, Advance(k), FilesGrow,
           stray' \in BOOLEAN, stray => stray',
           UNCHANGED <<offered, serverUp, updaters, raced>>,
           ~raced /\ ~stray' => installed' > jobs[k].at /\ updaters = {}
    PROVE  IInv'
<1> DEFINE at == jobs[k].at + 1
           r  == [jobs[k] EXCEPT !.at = at, !.moved = TRUE, !.ver = Unknown,
                                 !.pc = IF at < jobs[k].last THEN "installed" ELSE "final"]
<1>1. AtWork(k) /\ jobs[k] \in JobRec /\ state \in StateRec
  BY DEF AtWork, Looping, Patching, Working, IInv, TypeOK
<1>2. CASE Cancelled(k)
  BY <1>1, <1>2, FailKeeps
<1>3. CASE ~Cancelled(k)
  <2>1. jobs' = [jobs EXCEPT ![k] = r] /\ state' = state
    BY <1>3 DEF Advance, IInv, TypeOK
  <2>2. /\ jobs[k].at \in Nat /\ jobs[k].last \in 0..MaxVersion
        /\ jobs[k].first <= jobs[k].at /\ jobs[k].at < jobs[k].last
        /\ jobs[k].first \in Nat /\ installed' \in 0..MaxVersion
    BY <1>1, UpdateAssumption DEF IInv, TypeOK, JobRec, Looping, Patching, FilesGrow,
       Versions, Unknown
  <2>3. at \in 0..2 * MaxVersion
    BY <2>2, UpdateAssumption
  <2>4. r \in JobRec /\ r.pc \in Working /\ r.first = jobs[k].first /\ r.last = jobs[k].last
    BY <1>1, <2>3 DEF JobRec, Working
  <2>5. r.pc \in Looping => r.first <= r.at /\ r.at < r.last
    BY <1>1, <2>2 DEF JobRec, Looping, Patching
  <2>6. ~raced /\ ~stray' => Progress(k)'
    <3>1. jobs'[k] = r
      BY <2>1 DEF IInv, TypeOK
    <3>2. r.pc \in {"installed", "final"} /\ r.moved /\ r.at = at
          /\ (r.pc = "final" => at >= r.last)
      BY <1>1, <2>2 DEF JobRec
    <3> QED
      BY <2>2, <2>4, <3>1, <3>2, UpdateAssumption DEF Progress
  <2> QED
    BY <1>1, <2>1, <2>4, <2>5, <2>6, WorkGoesOn DEF IInv, TypeOK
<1> QED
  BY <1>2, <1>3

\* The patch for the version that was read is downloaded.
LEMMA DownloadsKeeps ==
    ASSUME IInv, NEW k \in Calls, jobs[k].pc = "installed", NEW ver \in Read,
           ver <= jobs[k].at, Downloads(k, ver),
           UNCHANGED <<installed, offered, serverUp, updaters, history>>
    PROVE  IInv'
<1> DEFINE r == [jobs[k] EXCEPT !.pc = "link", !.ver = ver]
<1>1. AtWork(k) /\ jobs[k] \in JobRec /\ state \in StateRec
  BY DEF AtWork, Working, IInv, TypeOK
<1>2. ver \in Versions \cup {Unknown} /\ (ver # Unknown => ver = installed)
  BY DEF Read, IInv, TypeOK
<1>3. /\ jobs[k].first \in Nat /\ jobs[k].at \in Nat /\ jobs[k].last \in 0..MaxVersion
      /\ jobs[k].first <= jobs[k].at /\ jobs[k].at < jobs[k].last
  BY <1>1, UpdateAssumption DEF IInv, TypeOK, JobRec
<1>4. r \in JobRec /\ jobs' = [jobs EXCEPT ![k] = r]
  BY <1>1, <1>2 DEF JobRec, Working, Downloads, IInv, TypeOK
<1>5. state' \in StateRec
  <2>1. jobs[k].at - jobs[k].first + 1 \in 0..MaxVersion
    BY <1>3, UpdateAssumption
  <2> QED
    BY <1>1, <2>1 DEF Downloads, StateRec
<1>6. ~raced /\ ~stray' => Progress(k)'
  BY <1>1, <1>2, <1>4 DEF IInv, OwnState, Settled, Progress, TypeOK, JobRec, Patching,
     history
<1>7. FilesGrow
  BY DEF FilesGrow, IInv, TypeOK
<1>8. /\ r.pc \in Working /\ r.first = jobs[k].first /\ r.last = jobs[k].last
      /\ r.pc \in Looping => r.first <= r.at /\ r.at < r.last
  BY <1>1, <1>3 DEF JobRec, Working
<1>9. /\ state'.running = state.running /\ state'.partial = state.partial
      /\ state'.from = state.from /\ state'.target = state.target
      /\ state'.finalTo = state.finalTo /\ state'.phase = "download"
  BY <1>1 DEF Downloads, StateRec
<1> QED
  BY <1>1, <1>4, <1>5, <1>6, <1>7, <1>8, <1>9, WorkGoesOn DEF IInv, TypeOK, history

\* To the catch block.
LEMMA ThrowsKeeps ==
    ASSUME IInv, NEW k \in Calls, AtWork(k), Throws(k),
           ~raced /\ ~stray => updaters = {},
           UNCHANGED <<installed, offered, serverUp, updaters, history>>
    PROVE  IInv'
<1> DEFINE r == [NoJob EXCEPT !.pc = "failed",
                              !.first = jobs[k].first, !.last = jobs[k].last]
<1>1. jobs[k] \in JobRec /\ FilesGrow
  BY DEF IInv, TypeOK, FilesGrow
<1>2. r \in JobRec /\ jobs' = [jobs EXCEPT ![k] = r] /\ state' = state
  BY <1>1, IdleRecords DEF JobRec, Working, Throws
<1>3. /\ r.pc = "failed" /\ r.pc \in Working \ Looping
      /\ r.first = jobs[k].first /\ r.last = jobs[k].last
  BY DEF NoJob, Working, Looping, Patching
<1>4. ~raced /\ ~stray' => Progress(k)'
  BY <1>2, <1>3 DEF IInv, Progress, Patching, TypeOK, history
<1> QED
  BY <1>1, <1>2, <1>3, <1>4, WorkGoesOn DEF IInv, TypeOK, history

\* The update ends, or seems to, before the version it is for.
LEMMA PartialKeeps ==
    ASSUME IInv, NEW k \in Calls, jobs[k].pc \in {"link", "failed"},
           NEW ver \in Versions, NEW at \in 0..2 * MaxVersion, NEW linked \in BOOLEAN,
           ~raced /\ ~stray => ver >= jobs[k].first /\ ver <= installed /\ updaters = {},
           Partial(k, ver, at, linked),
           UNCHANGED <<installed, offered, serverUp, updaters, history>>
    PROVE  IInv'
<1>1. AtWork(k) /\ jobs[k] \in JobRec /\ state \in StateRec /\ FilesGrow
  BY DEF AtWork, Working, IInv, TypeOK, FilesGrow
<1>2. CASE Fail(k)
  BY <1>1, <1>2, FailKeeps DEF IInv, TypeOK, history
<1>3. CASE Throws(k)
  BY <1>1, <1>3, ThrowsKeeps
<1>4. CASE /\ jobs' = [jobs EXCEPT ![k].pc = "partial", ![k].ver = ver,
                                    ![k].at = at, ![k].linked = linked]
           /\ state' = state
  <2> DEFINE r == [jobs[k] EXCEPT !.pc = "partial", !.ver = ver, !.at = at,
                                  !.linked = linked]
  <2>1. r \in JobRec /\ jobs' = [jobs EXCEPT ![k] = r]
    BY <1>1, <1>4 DEF JobRec, Working, IInv, TypeOK
  <2>2. /\ r.pc \in Working \ Patching /\ r.pc = "partial" /\ r.ver = ver
        /\ r.first = jobs[k].first /\ r.last = jobs[k].last
    BY <1>1 DEF JobRec, Working, Patching
  <2>3. ~raced /\ ~stray' => Progress(k)'
    BY <2>1, <2>2 DEF IInv, Progress, Patching, TypeOK, history
  <2> QED
    BY <1>1, <1>4, <2>1, <2>2, <2>3, WorkGoesOn DEF Looping, IInv, TypeOK, history
<1> QED
  BY <1>2, <1>3, <1>4 DEF Partial

-----------------------------------------------------------------------------
\* A step that leaves the jobs at work, the files and what is reported alone.
LEMMA Aside ==
    ASSUME IInv, TypeOK', UNCHANGED <<installed, updaters, history>>,
           state' = state \/ state' = [state EXCEPT !.stop = TRUE],
           \A k \in Calls : jobs'[k] = jobs[k] \/ (~AtWork(k) /\ ~AtWork(k)'),
           \A k \in Calls : jobs'[k].pc = "available" =>
               jobs'[k].ver \in Versions /\ NotBefore(jobs'[k].ver)
    PROVE  IInv'
<1> USE DEF IInv, history
<1>1. \A k \in Calls : AtWork(k)' => jobs'[k] = jobs[k]
  OBVIOUS
<1>2. \A k \in Calls : AtWork(k) <=> AtWork(k)'
  BY DEF AtWork
<1>3. /\ state'.running = state.running /\ state'.partial = state.partial
      /\ state'.from = state.from /\ state'.target = state.target
      /\ state'.finalTo = state.finalTo /\ state'.phase = state.phase
  BY DEF TypeOK, StateRec
<1>4. Plans'
  BY <1>1, <1>2 DEF Plans, NotBefore
<1>5. ASSUME ~raced PROVE OwnState'
  <2>1. Alone'
    BY <1>1, <1>2, <1>3, <1>5 DEF OwnState, Alone
  <2>2. ASSUME ~stray, NEW k \in Calls PROVE Progress(k)'
    <3>1. CASE AtWork(k)'
      BY <1>1, <1>2, <1>5, <2>2, <3>1 DEF OwnState, Settled, Progress
    <3>2. CASE ~AtWork(k)'
      BY <3>2 DEF Progress, AtWork, Working, Patching
    <3> QED
      BY <3>1, <3>2
  <2> QED
    BY <1>3, <1>5, <2>1, <2>2 DEF OwnState, Settled
<1>6. ReportIsTrue'
  BY <1>2, <1>3 DEF ReportIsTrue
<1> QED
  BY <1>4, <1>5, <1>6

\* A job that begins, or fails to: the state is its own from here on.
LEMMA BeginKeeps ==
    ASSUME IInv, NEW k \in Calls, jobs[k].pc = "available", NEW r \in JobRec,
           NEW target \in Reachable(jobs[k].ver), NEW phase \in {"preparing", "error"},
           jobs' = [jobs EXCEPT ![k] = r],
           state' = [Idle EXCEPT !.running = TRUE, !.phase = phase,
                                 !.from = jobs[k].ver, !.target = target],
           raced' = (\E l \in Calls : AtWork(l)), stray' = (updaters # {}),
           phase = "error" => r = NoJob,
           phase = "preparing" =>
              r = [NoJob EXCEPT !.pc = "installed", !.last = target,
                                !.first = jobs[k].ver, !.at = jobs[k].ver],
           UNCHANGED <<installed, offered, serverUp, updaters>>
    PROVE  IInv'
<1> USE UpdateAssumption DEF IInv
<1>1. /\ jobs[k].ver \in Versions /\ target \in Versions /\ target > jobs[k].ver
      /\ NotBefore(jobs[k].ver)
  BY DEF Plans, Reachable
<1>2. state' \in StateRec
  <2>1. Idle \in StateRec /\ jobs[k].ver \in 0..MaxVersion /\ target \in 0..MaxVersion
    BY <1>1, IdleRecords DEF Versions
  <2> QED
    BY <2>1 DEF StateRec
<1>3. /\ state'.running /\ ~state'.partial /\ state'.phase = phase
      /\ state'.from = jobs[k].ver /\ state'.target = target
  BY DEF Idle
<1>4. /\ phase = "error" => r.pc = "idle"
      /\ phase = "preparing" => r.pc = "installed" /\ r.first = jobs[k].ver
                                /\ r.at = r.first /\ r.last = target /\ ~r.moved
  <2>1. CASE phase = "error"
    BY <2>1 DEF NoJob
  <2>2. CASE phase = "preparing"
    BY <2>2 DEF NoJob
  <2> QED
    BY <2>1, <2>2
<1>5. jobs'[k] = r /\ \A l \in Calls : l # k => jobs'[l] = jobs[l]
  BY DEF TypeOK
<1>6. TypeOK'
  <2>1. r.pc \in Looping => r.first <= r.at /\ r.at < r.last
    BY <1>1, <1>4 DEF Looping, Patching, Versions
  <2>2. raced' \in BOOLEAN /\ stray' \in BOOLEAN
    OBVIOUS
  <2> QED
    BY <1>2, <1>5, <2>1, <2>2 DEF TypeOK, Looping, Patching
<1>7. Plans'
  BY <1>1, <1>4, <1>5 DEF Plans, AtWork, NotBefore, Working, Versions
<1>8. ASSUME ~raced' PROVE \A l \in Calls : l # k => ~AtWork(l)'
  BY <1>5, <1>8 DEF AtWork
<1>9. AtWork(k)' <=> phase = "preparing"
  BY <1>4, <1>5 DEF AtWork, Working
<1>10. ASSUME ~raced' PROVE OwnState'
  <2>1. Alone'
    BY <1>3, <1>4, <1>5, <1>8, <1>9, <1>10 DEF Alone
  <2>2. ~stray' => Progress(k)'
    BY <1>4, <1>5 DEF Progress, Patching
  <2>3. \A l \in Calls : l # k => Progress(l)'
    BY <1>8, <1>10 DEF Progress, AtWork, Working, Patching
  <2> QED
    BY <1>3, <2>1, <2>2, <2>3 DEF OwnState, Settled
<1>11. ReportIsTrue'
  BY <1>3, <1>8, <1>9 DEF ReportIsTrue
<1> QED
  BY <1>6, <1>7, <1>10, <1>11

\* Every step keeps the invariant.
LEMMA StepIInv == ASSUME IInv, Next PROVE IInv'
<1> USE UpdateAssumption
<1>1. TypeOK /\ IInv
  BY DEF IInv
<1>2. NoJob \in JobRec /\ NoJob.pc = "idle"
  BY IdleRecords
<1>3. \A k \in Calls : jobs[k].pc = "available" =>
          jobs[k].ver \in Versions /\ NotBefore(jobs[k].ver)
  BY DEF IInv, Plans
<1>4. UNCHANGED installed => FilesGrow
  BY <1>1 DEF FilesGrow, TypeOK
<1>5. CASE Stop
  <2>1. [state EXCEPT !.stop = TRUE] \in StateRec
    BY <1>1 DEF TypeOK, StateRec
  <2> QED
    BY <1>1, <1>3, <1>5, <2>1, Aside DEF Stop, TypeOK, history
<1>6. CASE ServerChanges \/ OfferChanges
  BY <1>1, <1>3, <1>6, Aside DEF ServerChanges, OfferChanges, TypeOK, history
<1>23. CASE UpdaterEnds
  <2>1. PICK v \in updaters :
          /\ updaters' = updaters \ {v}
          /\ installed' \in Read \/ (installed = v /\ installed' = v + 1)
    BY <1>23 DEF UpdaterEnds
  <2>2. v \in Versions /\ v + 1 \in Versions
    BY <1>1 DEF TypeOK, Versions
  <2>3. /\ UNCHANGED <<state, jobs, offered, serverUp, history>>
        /\ raced' = raced /\ stray' = stray
        /\ \A k \in Calls : AtWork(k)' <=> AtWork(k)
    BY <1>23 DEF UpdaterEnds, history, AtWork
  <2>4. FilesGrow
    BY <1>1, <2>1, <2>2 DEF FilesGrow, Read, TypeOK, Versions, Unknown
  <2>5. TypeOK'
    BY <1>1, <2>1, <2>3, <2>4 DEF TypeOK, FilesGrow
  <2>6. Plans'
    <3>1. \A u \in Versions : NotBefore(u) => NotBefore(u)'
      BY <1>1, <2>4, NeverBack
    <3> QED
      BY <1>1, <2>3, <3>1 DEF IInv, Plans
  <2>7. ASSUME ~raced, ~stray PROVE Settled'
    <3>1. state.phase # "done" /\ \A k \in Calls : Progress(k)
      BY <1>1, <2>1, <2>7 DEF IInv, OwnState, Settled
    <3>2. ASSUME NEW k \in Calls PROVE Progress(k)'
      <4>1. CASE ~AtWork(k)
        BY <2>3, <4>1 DEF Progress, AtWork, Working, Patching
      <4>2. CASE AtWork(k)
        <5>1. jobs[k].pc \in {"slaves", "unfit"} /\ jobs' = jobs
          BY <2>1, <2>3, <3>1, <4>2 DEF Progress
        <5>2. jobs[k].pc = "slaves" => updaters' = {}
          BY <2>1, <3>1 DEF Progress
        <5> QED
          BY <5>1, <5>2 DEF Progress, Patching
      <4> QED
        BY <4>1, <4>2
    <3> QED
      BY <2>3, <3>1, <3>2 DEF Settled
  <2>8. ~raced => OwnState'
    <3>1. ~raced => Alone'
      BY <1>1, <2>3 DEF IInv, OwnState, Alone
    <3> QED
      BY <2>3, <2>7, <3>1 DEF OwnState
  <2>9. ReportIsTrue'
    BY <1>1, <2>1, <2>3 DEF IInv, OwnState, Settled, ReportIsTrue
  <2> QED
    BY <2>3, <2>5, <2>6, <2>8, <2>9 DEF IInv
<1>7. ASSUME NEW k \in Calls, Start(k) PROVE IInv'
  <2>1. [jobs[k] EXCEPT !.pc = "prepare"] \in JobRec
    BY <1>1 DEF TypeOK, JobRec, Starting
  <2> QED
    BY <1>1, <1>3, <1>7, <2>1, Aside DEF Start, Goes, TypeOK, AtWork, Working,
       history
<1>8. ASSUME NEW k \in Calls, Refused(k) PROVE IInv'
  BY <1>1, <1>2, <1>3, <1>8, Aside DEF Refused, TypeOK, AtWork, Working,
     Starting, history
<1>9. ASSUME NEW k \in Calls, Prepared(k) PROVE IInv'
  <2>1. jobs' = [jobs EXCEPT ![k] = [jobs[k] EXCEPT !.pc = "available", !.ver = installed]]
    BY <1>1, <1>9 DEF Prepared, TypeOK
  <2>2. [jobs[k] EXCEPT !.pc = "available", !.ver = installed] \in JobRec
    BY <1>1 DEF TypeOK, JobRec, Starting
  <2>3. installed \in Versions /\ NotBefore(installed)
    BY <1>1, <1>9 DEF Prepared, TypeOK, NotBefore, Versions
  <2>4. TypeOK'
    BY <1>1, <1>9, <2>1, <2>2 DEF Prepared, TypeOK, history
  <2> QED
    BY <1>1, <1>3, <1>9, <2>1, <2>2, <2>3, <2>4, Aside DEF Prepared, TypeOK, AtWork,
       Working, history
<1>10. ASSUME NEW k \in Calls, Planned(k) PROVE IInv'
  <2>1. PICK target \in Versions :
          /\ Begins(k, target)
          /\ jobs' = [jobs EXCEPT ![k] = [NoJob EXCEPT !.pc = "installed", !.last = target,
                                              !.first = jobs[k].ver, !.at = jobs[k].ver]]
    BY <1>10 DEF Planned
  <2>2. jobs[k].pc = "available" /\ jobs[k].ver \in Versions
    BY <1>3, <2>1 DEF Begins
  <2>3. [NoJob EXCEPT !.pc = "installed", !.last = target,
                      !.first = jobs[k].ver, !.at = jobs[k].ver] \in JobRec
    <3>1. /\ jobs[k].ver \in 0..MaxVersion /\ jobs[k].ver \in 0..2 * MaxVersion
          /\ target \in 0..MaxVersion
      BY <2>2 DEF Versions
    <3> QED
      BY <1>2, <3>1 DEF JobRec, Working
  <2> QED
    BY <2>1, <2>2, <2>3, BeginKeeps DEF Begins
<1>11. ASSUME NEW k \in Calls, NoDirectory(k) PROVE IInv'
  BY <1>2, <1>11, BeginKeeps DEF NoDirectory
<1>12. ASSUME NEW k \in Calls, Installed(k) PROVE IInv'
  <2>1. PICK ver \in Read : IF ver > jobs[k].at THEN Advance(k) ELSE Downloads(k, ver)
    BY <1>12 DEF Installed
  <2>2. /\ jobs[k].pc = "installed" /\ UNCHANGED <<installed, offered, serverUp, updaters, history>>
        /\ jobs[k].at \in Nat /\ ver \in Nat
    BY <1>1, <1>12 DEF Installed, TypeOK, JobRec, Read, Versions, Unknown
  <2>3. CASE ver > jobs[k].at
    <3>1. ~raced /\ ~stray => updaters = {}
      BY <1>1, <2>2 DEF IInv, OwnState, Settled, Progress, AtWork, Working
    <3> QED
      BY <1>1, <1>4, <2>1, <2>2, <2>3, <3>1, AdvanceKeeps
         DEF Read, Unknown, Looping, Patching, history, TypeOK
  <2>4. CASE ver <= jobs[k].at
    BY <2>1, <2>2, <2>4, DownloadsKeeps
  <2> QED
    BY <2>2, <2>3, <2>4
<1>13. ASSUME NEW k \in Calls, Linked(k) PROVE IInv'
  <2> DEFINE r == [jobs[k] EXCEPT !.pc = "zip"]
  <2>1. /\ AtWork(k) /\ jobs[k].pc = "link" /\ jobs' = [jobs EXCEPT ![k] = r]
        /\ r \in JobRec /\ jobs[k].first <= jobs[k].at /\ jobs[k].at < jobs[k].last
    BY <1>1, <1>13 DEF Linked, Goes, AtWork, TypeOK, JobRec, Working
  <2>2. ~raced /\ ~stray' => Progress(k)'
    BY <1>1, <1>13, <2>1 DEF Linked, IInv, OwnState, Settled, Progress, AtWork, Working,
       Patching, TypeOK, JobRec, history
  <2> QED
    BY <1>1, <1>4, <1>13, <2>1, <2>2, WorkGoesOn DEF Linked, TypeOK, JobRec, Working,
       Looping, Patching, history
<1>14. ASSUME NEW k \in Calls, NotLinked(k) PROVE IInv'
  <2>1. /\ jobs[k].pc = "link" /\ jobs[k].first <= jobs[k].at /\ jobs[k].at < jobs[k].last
        /\ jobs[k] \in JobRec /\ AtWork(k) /\ UNCHANGED <<installed, offered, serverUp, updaters, history>>
    BY <1>1, <1>14 DEF NotLinked, TypeOK, AtWork, Working
  <2>2. CASE jobs[k].moved
    <3> DEFINE ver == IF jobs[k].ver = Unknown THEN jobs[k].at ELSE jobs[k].ver
    <3>1. Partial(k, ver, jobs[k].at, TRUE)
      BY <1>14, <2>2 DEF NotLinked
    <3>2. jobs[k].first \in Versions
      BY <2>1 DEF IInv, Plans
    <3>3. jobs[k].at \in Versions /\ jobs[k].at \in 0..2 * MaxVersion
      BY <2>1, <3>2 DEF JobRec, Versions
    <3>4. ver \in Versions
      BY <2>1, <3>3 DEF JobRec
    <3>5. ~raced /\ ~stray => ver >= jobs[k].first /\ ver <= installed /\ updaters = {}
      <4> SUFFICES ASSUME ~raced, ~stray
                   PROVE  ver >= jobs[k].first /\ ver <= installed /\ updaters = {}
        OBVIOUS
      <4>1. installed >= jobs[k].at /\ (jobs[k].ver # Unknown => jobs[k].ver = installed)
            /\ updaters = {}
        BY <2>1, <2>2 DEF IInv, OwnState, Settled, Progress, Patching
      <4>2. installed \in Nat /\ jobs[k].at \in Nat /\ jobs[k].first \in Nat
        BY <1>1, <3>2, <3>3 DEF TypeOK, Versions, Unknown
      <4> QED
        BY <2>1, <4>1, <4>2
    <3> QED
      BY <2>1, <3>1, <3>3, <3>4, <3>5, PartialKeeps
  <2>3. CASE ~jobs[k].moved
    <3>1. Throws(k)
      BY <1>14, <2>3 DEF NotLinked
    <3>2. ~raced /\ ~stray => updaters = {}
      BY <2>1 DEF IInv, OwnState, Settled, Progress
    <3> QED
      BY <2>1, <3>1, <3>2, ThrowsKeeps
  <2> QED
    BY <2>2, <2>3
<1>15. ASSUME NEW k \in Calls, Zipped(k) PROVE IInv'
  <2> DEFINE r == [jobs[k] EXCEPT !.pc = "apply"]
  <2>1. /\ AtWork(k) /\ jobs[k].pc = "zip" /\ r \in JobRec
        /\ jobs[k].first <= jobs[k].at /\ jobs[k].at < jobs[k].last
        /\ UNCHANGED <<installed, offered, serverUp, updaters, history>>
    BY <1>1, <1>15 DEF Zipped, AtWork, TypeOK, JobRec, Working
  <2>2. CASE Cancelled(k)
    BY <1>1, <1>4, <2>1, <2>2, FailKeeps DEF TypeOK, history
  <2>3. CASE Goes(k, "apply") /\ state' = [state EXCEPT !.phase = "apply"]
    <3>1. jobs' = [jobs EXCEPT ![k] = r]
      BY <1>1, <2>3 DEF Goes, TypeOK
    <3>2. ~raced /\ ~stray' => Progress(k)'
      BY <1>1, <2>1, <3>1 DEF IInv, OwnState, Settled, Progress, AtWork, Working,
         Patching, TypeOK, JobRec, history
    <3>3. /\ state' \in StateRec /\ state'.running = state.running
          /\ state'.partial = state.partial /\ state'.from = state.from
          /\ state'.target = state.target /\ state'.finalTo = state.finalTo
          /\ state'.phase = "apply"
      BY <1>1, <2>3 DEF TypeOK, StateRec
    <3> QED
      BY <1>1, <1>4, <2>1, <3>1, <3>2, <3>3, WorkGoesOn DEF TypeOK, JobRec, Working,
         Looping, Patching, history
  <2> QED
    BY <1>15, <2>2, <2>3 DEF Zipped
<1>16. ASSUME NEW k \in Calls, NotZipped(k) PROVE IInv'
  <2>1. AtWork(k) /\ jobs[k].pc = "zip"
    BY <1>16 DEF NotZipped, AtWork, Working
  <2>2. ~raced /\ ~stray => updaters = {}
    BY <1>1, <2>1 DEF IInv, OwnState, Settled, Progress
  <2> QED
    BY <1>1, <1>16, <2>1, <2>2, ThrowsKeeps DEF NotZipped
<1>17. ASSUME NEW k \in Calls, jobs[k].pc = "apply"
       PROVE  /\ AtWork(k) /\ jobs[k] \in JobRec /\ jobs[k].at \in Versions \ {MaxVersion}
              /\ jobs[k].first <= jobs[k].at /\ jobs[k].at < jobs[k].last
              /\ jobs[k].at + 1 \in Versions
              /\ ~raced /\ ~stray => updaters = {}
  <2>1. /\ AtWork(k) /\ jobs[k] \in JobRec
        /\ jobs[k].first <= jobs[k].at /\ jobs[k].at < jobs[k].last
    BY <1>1, <1>17 DEF TypeOK, AtWork, Working
  <2>2. jobs[k].first \in Versions
    BY <1>1, <2>1 DEF IInv, Plans
  <2>3. ~raced /\ ~stray => updaters = {}
    BY <1>1, <1>17, <2>1 DEF IInv, OwnState, Settled, Progress
  <2> QED
    BY <2>1, <2>2, <2>3 DEF JobRec, Versions
<1>18. ASSUME NEW k \in Calls, Applied(k) PROVE IInv'
  <2> DEFINE r == [jobs[k] EXCEPT !.pc = "slaves"]
  <2>1. /\ jobs[k].pc = "apply" /\ installed = jobs[k].at
        /\ \/ installed' = jobs[k].at + 1 /\ UNCHANGED updaters
           \/ updaters' = updaters \cup {jobs[k].at} /\ UNCHANGED installed
        /\ UNCHANGED <<state, offered, serverUp, raced, stray>>
    BY <1>18 DEF Applied, history
  <2>2. jobs' = [jobs EXCEPT ![k] = r] /\ r \in JobRec
    BY <1>1, <1>17, <1>18, <2>1 DEF Applied, Goes, TypeOK, JobRec, Working
  <2>3. FilesGrow /\ updaters' \subseteq Versions \ {MaxVersion}
    <3>1. jobs[k].at \in Versions \ {MaxVersion} /\ jobs[k].at + 1 \in Versions
      BY <1>17, <2>1
    <3>2. updaters' \subseteq Versions \ {MaxVersion}
      BY <1>1, <2>1, <3>1 DEF TypeOK
    <3>3. CASE installed' = jobs[k].at + 1
      BY <2>1, <3>1, <3>2, <3>3 DEF FilesGrow, Versions, Unknown
    <3>4. CASE UNCHANGED installed
      BY <1>4, <3>2, <3>4
    <3> QED
      BY <2>1, <3>2, <3>3, <3>4
  <2>4. ~raced /\ ~stray' => Progress(k)'
    BY <1>1, <1>17, <2>1, <2>2 DEF Progress, Patching, TypeOK
  <2>5. r.pc = "slaves" /\ r.first = jobs[k].first /\ r.at = jobs[k].at /\ r.last = jobs[k].last
    BY <1>17, <2>1 DEF JobRec
  <2> QED
    BY <1>1, <1>17, <2>1, <2>2, <2>3, <2>4, <2>5, WorkGoesOn DEF TypeOK, Working
<1>24. ASSUME NEW k \in Calls, NotApplied(k) PROVE IInv'
  <2> DEFINE r == [jobs[k] EXCEPT !.pc = "unfit"]
  <2>1. /\ jobs[k].pc = "apply" /\ installed' \in Read
        /\ updaters' \in {updaters, updaters \cup {jobs[k].at}}
        /\ UNCHANGED <<state, offered, serverUp, raced, stray>>
    BY <1>24 DEF NotApplied, history
  <2>2. jobs' = [jobs EXCEPT ![k] = r] /\ r \in JobRec
    BY <1>1, <1>17, <1>24, <2>1 DEF NotApplied, Goes, TypeOK, JobRec, Working
  <2>3. FilesGrow /\ updaters' \subseteq Versions \ {MaxVersion}
    BY <1>1, <1>17, <2>1 DEF FilesGrow, Read, TypeOK
  <2>4. ~raced /\ ~stray' => Progress(k)'
    BY <1>1, <2>2 DEF Progress, Patching, TypeOK
  <2>5. r.pc = "unfit" /\ r.first = jobs[k].first /\ r.last = jobs[k].last
    BY <1>17, <2>1 DEF JobRec
  <2> QED
    BY <1>1, <1>17, <2>1, <2>2, <2>3, <2>4, <2>5, WorkGoesOn
       DEF TypeOK, Working, Looping, Patching
<1>25. ASSUME NEW k \in Calls, Waited(k) PROVE IInv'
  <2>1. UNCHANGED <<installed, offered, serverUp, updaters, raced>> /\ FilesGrow
    BY <1>4, <1>25 DEF Waited
  <2>2. CASE /\ jobs[k].pc = "slaves" /\ Advance(k)
             /\ stray' = (stray \/ installed <= jobs[k].at)
    <3>1. installed \in Nat /\ jobs[k].at \in Nat
      BY <1>1 DEF TypeOK, JobRec, Versions, Unknown
    <3>2. ~stray' => ~stray /\ installed > jobs[k].at
      <4>1. ~stray' => ~stray /\ ~(installed <= jobs[k].at)
        BY <2>2, Zenon
      <4> QED
        BY <3>1, <4>1
    <3>3. ~raced /\ ~stray /\ updaters # {} => installed = jobs[k].at
      BY <1>1, <2>2 DEF IInv, OwnState, Settled, Progress
    <3>4. ~raced /\ ~stray' => installed' > jobs[k].at /\ updaters = {}
      BY <2>1, <3>1, <3>2, <3>3
    <3>5. stray' \in BOOLEAN /\ (stray => stray')
      <4>1. (installed <= jobs[k].at) \in BOOLEAN /\ stray \in BOOLEAN
        BY <1>1, <3>1 DEF TypeOK
      <4> QED
        BY <2>2, <4>1
    <3> QED
      BY <1>1, <2>1, <2>2, <3>4, <3>5, AdvanceKeeps DEF Looping
  <2>3. CASE jobs[k].pc = "unfit" /\ Fail(k) /\ UNCHANGED stray
    BY <1>1, <2>1, <2>3, FailKeeps DEF AtWork, Working, TypeOK
  <2> QED
    BY <1>25, <2>2, <2>3 DEF Waited
<1>19. ASSUME NEW k \in Calls, Final(k) PROVE IInv'
  <2>1. PICK ver \in Read :
          Ends(k, [state EXCEPT !.phase = "done",
                                !.finalTo = IF ver = Unknown THEN jobs[k].last ELSE ver])
    BY <1>19 DEF Final
  <2> DEFINE to     == IF ver = Unknown THEN jobs[k].last ELSE ver
             report == [state EXCEPT !.phase = "done", !.finalTo = to]
  <2>2. /\ AtWork(k) /\ jobs[k].pc = "final" /\ jobs[k] \in JobRec /\ state \in StateRec
        /\ UNCHANGED <<installed, offered, serverUp, updaters, history>>
    BY <1>1, <1>19 DEF Final, AtWork, Working, TypeOK
  <2>3. jobs[k].first \in Versions /\ jobs[k].first < jobs[k].last
        /\ jobs[k].last \in Versions
    BY <2>2 DEF IInv, Plans, JobRec, Versions
  <2>4. to \in Versions \cup {Unknown}
    BY <1>1, <2>3 DEF Read, TypeOK
  <2>5. /\ report \in StateRec /\ report.finalTo = to /\ report.phase = "done"
        /\ report.from = state.from /\ report.target = state.target
        /\ report.partial = state.partial
    BY <2>2, <2>4 DEF StateRec
  <2>6. ASSUME ~raced, ~stray
        PROVE  updaters = {} /\ to <= installed /\ to >= state.from /\ to >= state.target
    <3>1. installed >= jobs[k].last /\ updaters = {}
      BY <2>2, <2>6 DEF IInv, OwnState, Settled, Progress
    <3>2. state.from = jobs[k].first /\ state.target = jobs[k].last
      BY <2>2, <2>6 DEF IInv, OwnState, Alone
    <3>3. to = jobs[k].last \/ to = installed
      BY DEF Read
    <3>4. installed \in Nat
      BY <1>1 DEF TypeOK, Versions, Unknown
    <3> QED
      BY <2>3, <3>1, <3>2, <3>3, <3>4 DEF Versions
  <2> QED
    BY <1>1, <1>4, <2>1, <2>2, <2>5, <2>6, WorkEnds DEF TypeOK, history
<1>20. ASSUME NEW k \in Calls, Failed(k) PROVE IInv'
  <2>1. PICK ver \in Read : IF ver = Unknown THEN Fail(k)
                            ELSE Partial(k, ver, jobs[k].first + Before(state.step), FALSE)
    BY <1>20 DEF Failed
  <2>2. /\ AtWork(k) /\ jobs[k].pc = "failed" /\ jobs[k] \in JobRec /\ state \in StateRec
        /\ UNCHANGED <<installed, offered, serverUp, updaters, history>>
    BY <1>1, <1>20 DEF Failed, AtWork, Working, TypeOK
  <2>3. CASE Fail(k)
    BY <1>1, <1>4, <2>2, <2>3, FailKeeps DEF TypeOK, history
  <2>4. CASE ver # Unknown /\ Partial(k, ver, jobs[k].first + Before(state.step), FALSE)
    <3>1. ver = installed /\ ver \in Versions
      BY <1>1, <2>4 DEF Read, TypeOK
    <3>2. jobs[k].first + Before(state.step) \in 0..2 * MaxVersion
      BY <2>2 DEF JobRec, StateRec, Before
    <3>3. ver >= jobs[k].first
      BY <2>2, <2>4, <3>1 DEF IInv, Plans, NotBefore
    <3>4. ver <= installed
      BY <3>1 DEF Versions
    <3>5. ~raced /\ ~stray => updaters = {}
      BY <2>2 DEF IInv, OwnState, Settled, Progress
    <3> QED
      BY <2>2, <2>4, <3>1, <3>2, <3>3, <3>4, <3>5, PartialKeeps
  <2> QED
    BY <2>1, <2>3, <2>4
<1>21. ASSUME NEW k \in Calls, PartialEnds(k) PROVE IInv'
  <2> DEFINE report == [state EXCEPT !.phase = "done", !.partial = TRUE,
                                     !.finalTo = jobs[k].ver]
  <2>1. /\ AtWork(k) /\ jobs[k].pc = "partial" /\ jobs[k] \in JobRec /\ state \in StateRec
        /\ UNCHANGED <<installed, offered, serverUp, updaters, history>> /\ Ends(k, report)
    BY <1>1, <1>21 DEF PartialEnds, AtWork, Working, TypeOK
  <2>2. /\ report \in StateRec /\ report.finalTo = jobs[k].ver /\ report.phase = "done"
        /\ report.from = state.from /\ report.partial
    BY <2>1 DEF StateRec, JobRec
  <2>3. ~raced /\ ~stray => /\ jobs[k].ver <= installed /\ jobs[k].ver >= state.from
                            /\ updaters = {}
    BY <2>1 DEF IInv, OwnState, Alone, Settled, Progress
  <2> QED
    BY <1>1, <1>4, <2>1, <2>2, <2>3, WorkEnds DEF TypeOK, history
<1>22. ASSUME NEW k \in Calls, NotPartial(k) PROVE IInv'
  <2>1. /\ AtWork(k) /\ jobs[k].pc = "partial"
        /\ UNCHANGED <<installed, offered, serverUp, updaters, history>>
    BY <1>1, <1>22 DEF NotPartial, AtWork, Working
  <2>2. CASE Fail(k)
    BY <1>1, <1>4, <2>1, <2>2, FailKeeps DEF TypeOK, history
  <2>3. CASE Throws(k)
    <3>1. ~raced /\ ~stray => updaters = {}
      BY <1>1, <2>1 DEF IInv, OwnState, Settled, Progress
    <3> QED
      BY <1>1, <2>1, <2>3, <3>1, ThrowsKeeps
  <2> QED
    BY <1>22, <2>2, <2>3 DEF NotPartial
<1> QED
  BY <1>5, <1>6, <1>7, <1>8, <1>9, <1>10, <1>11, <1>12, <1>13, <1>14, <1>15,
     <1>16, <1>18, <1>19, <1>20, <1>21, <1>22, <1>23, <1>24, <1>25, NextCases

\* The invariant holds at first.
LEMMA InitIInv == ASSUME Init PROVE IInv
<1>1. Idle \in StateRec /\ NoJob \in JobRec /\ NoJob.pc = "idle" /\ ~Idle.running
      /\ Idle.phase = "idle"
  BY IdleRecords DEF Idle
<1>2. \A k \in Calls : jobs[k].pc = "idle"
  BY <1>1 DEF Init
<1>3. TypeOK
  <2>1. 1 \in Versions
    BY UpdateAssumption DEF Versions
  <2>2. jobs \in [Calls -> JobRec]
    BY <1>1 DEF Init
  <2> QED
    BY <1>1, <1>2, <2>1, <2>2 DEF Init, TypeOK
<1>4. Plans /\ OwnState
  BY <1>1, <1>2 DEF Init, Settled, Plans, OwnState, Alone, Progress, AtWork, Working, Patching
<1>5. ReportIsTrue
  BY <1>1, <1>2 DEF Init, ReportIsTrue, AtWork, Working
<1> QED
  BY <1>3, <1>4, <1>5 DEF IInv

\* The inductive invariant holds throughout.
LEMMA Invariance == Spec => []IInv
<1>1. IInv /\ [Next]_vars => IInv'
  <2>1. ASSUME IInv, UNCHANGED vars PROVE IInv'
    BY <2>1 DEF vars, IInv, TypeOK, Plans, NotBefore, OwnState, Alone, Settled,
       Progress, ReportIsTrue, history, AtWork
  <2> QED
    BY <2>1, StepIInv
<1> QED
  BY <1>1, InitIInv, PTL DEF Spec

\* Type correctness: the patch in hand is one of the plan of its job.
THEOREM TypeCorrect == Spec => []TypeOK
BY Invariance, PTL DEF IInv

\* A job that is done reports no version above the one there is, and at least
\* the one it was for, unless it says that it is partial or a patch was counted
\* that was not there; and the state says that a job runs exactly while one is at
\* work.
THEOREM ReportTrue == Spec => []ReportIsTrue
BY Invariance, PTL DEF IInv

\* A patch is given to the game only if it is for the version installed then,
\* unless the patch before it was counted and was not there.
THEOREM PatchFitsVersion == Spec => PatchFits
<1>1. IInv /\ [Next]_vars
        => [\A k \in Calls :
              jobs[k].pc = "zip" /\ jobs'[k].pc = "apply" /\ jobs[k].ver # Unknown
                  /\ ~raced /\ ~stray
                => installed = jobs[k].at]_vars
  <2> SUFFICES ASSUME IInv, NEW k \in Calls, jobs[k].pc = "zip",
                      jobs[k].ver # Unknown, ~raced, ~stray
               PROVE  installed = jobs[k].at
    OBVIOUS
  <2>1. jobs[k].ver = installed /\ jobs[k].ver <= jobs[k].at
    BY DEF IInv, OwnState, Settled, Progress
  <2>2. installed >= jobs[k].at
    BY <2>1 DEF IInv, OwnState, Settled, Progress, Plans, NotBefore, AtWork, Working, Patching
  <2>3. installed \in Nat /\ jobs[k].at \in Nat
    BY DEF IInv, TypeOK, JobRec, Versions, Unknown
  <2> QED
    BY <2>1, <2>2, <2>3
<1> QED
  BY <1>1, Invariance, PTL DEF Spec, PatchFits
=============================================================================
