------------------------------- MODULE GameUpdate -------------------------------
(***************************************************************************)
(* FactorioUpdateService: a job that brings the game of one server up to a *)
(* version patch by patch.  All jobs report to one state object.  A        *)
(* version is its place in the sequence of versions; the patch from v      *)
(* leads to v + 1.  Each action is what runs between two awaits.           *)
(***************************************************************************)
EXTENDS Integers

CONSTANTS
    Calls,          \* calls of start()
    MaxVersion      \* the last version there is

ASSUME UpdateAssumption == MaxVersion \in Nat \ {0}

Versions == 1..MaxVersion
Unknown  == 0           \* the version cannot be read

VARIABLES
    state,          \* FactorioUpdateService.state
    jobs,           \* each call of start() and the worker it becomes
    installed,      \* the version of the files
    offered,        \* versions from which the update server has a patch
    serverUp,       \* the game server runs
    updaters,       \* versions whose patch a child of an ended updater still applies
    raced, stray    \* what the properties remember; see below

history == <<raced, stray>>
vars == <<state, jobs, installed, offered, serverUp, updaters, history>>

StateRec == [running : BOOLEAN, stop : BOOLEAN, partial : BOOLEAN,
             phase : {"idle", "preparing", "download", "apply", "done", "error", "cancelled"},
             step : 0..MaxVersion, from : 0..MaxVersion, target : 0..MaxVersion,
             finalTo : Versions \cup {Unknown}]
Idle == [running |-> FALSE, stop |-> FALSE, partial |-> FALSE, phase |-> "idle",
         step |-> 0, from |-> 0, target |-> 0, finalTo |-> Unknown]

\* at: the version the patch in hand is from; ver: the version that was read;
\* moved: a patch of the plan is done with.
Starting == {"prepare", "available"}
Working  == {"installed", "link", "zip", "apply", "slaves", "unfit", "final", "failed",
             "partial"}
JobRec == [pc : {"idle"} \cup Starting \cup Working,
           first : 0..MaxVersion, at : 0..2 * MaxVersion, last : 0..MaxVersion,
           ver : Versions \cup {Unknown}, moved : BOOLEAN, linked : BOOLEAN]
NoJob  == [pc |-> "idle", first |-> 0, at |-> 0, last |-> 0, ver |-> Unknown,
           moved |-> FALSE, linked |-> FALSE]

TypeOK ==
    /\ state \in StateRec /\ jobs \in [Calls -> JobRec]
    /\ installed \in Versions \cup {Unknown}
    /\ offered \subseteq Versions \ {MaxVersion}
    /\ updaters \subseteq Versions \ {MaxVersion}
    /\ serverUp \in BOOLEAN /\ raced \in BOOLEAN /\ stray \in BOOLEAN
    /\ \A k \in Calls : jobs[k].pc \in {"installed", "link", "zip", "apply", "slaves"}
                          => jobs[k].first <= jobs[k].at /\ jobs[k].at < jobs[k].last

Init ==
    /\ state = Idle /\ jobs = [k \in Calls |-> NoJob]
    /\ installed = 1 /\ offered = Versions \ {MaxVersion}
    /\ serverUp = FALSE /\ updaters = {}
    /\ raced = FALSE /\ stray = FALSE

Goes(k, pc) == jobs' = [jobs EXCEPT ![k].pc = pc]
AtWork(k)   == jobs[k].pc \in Working

\* What installedVersion returns: it asks the executable, which may not answer.
Read == {installed, Unknown}

\* pickUpdates: the versions that patches lead to from v, one after the other.
Reachable(v) == {u \in Versions : u > v /\ \A w \in v..u - 1 : w \in offered}

-----------------------------------------------------------------------------
(* start() and stop().                                                     *)

Start(k) ==
    /\ jobs[k].pc = "idle" /\ ~state.running /\ ~serverUp
    /\ Goes(k, "prepare")
    /\ UNCHANGED <<state, installed, offered, serverUp, updaters, history>>

\* prepare() returns an error or throws, or there is nothing to do.
Refused(k) ==
    /\ jobs[k].pc \in Starting
    /\ jobs' = [jobs EXCEPT ![k] = NoJob]
    /\ UNCHANGED <<state, installed, offered, serverUp, updaters, history>>

Prepared(k) ==
    /\ jobs[k].pc = "prepare" /\ installed # Unknown
    /\ jobs' = [jobs EXCEPT ![k].pc = "available", ![k].ver = installed]
    /\ UNCHANGED <<state, installed, offered, serverUp, updaters, history>>

\* The patches there are have arrived: the job begins.
Begins(k, target) ==
    /\ jobs[k].pc = "available" /\ target \in Reachable(jobs[k].ver)
    /\ state' = [Idle EXCEPT !.running = TRUE, !.phase = "preparing",
                             !.from = jobs[k].ver, !.target = target]
    /\ raced' = (\E l \in Calls : AtWork(l)) /\ stray' = (updaters # {})
    /\ UNCHANGED <<installed, offered, serverUp, updaters>>

Planned(k) ==
    \E target \in Versions :
        /\ Begins(k, target)
        /\ jobs' = [jobs EXCEPT ![k] = [NoJob EXCEPT !.pc = "installed", !.last = target,
                                            !.first = jobs[k].ver, !.at = jobs[k].ver]]

\* The directory for the download cannot be made: the worker throws before its
\* try, and fail() leaves state.running.
NoDirectory(k) ==
    /\ jobs[k].pc = "available"
    /\ \E target \in Reachable(jobs[k].ver) :
         state' = [Idle EXCEPT !.running = TRUE, !.phase = "error",
                               !.from = jobs[k].ver, !.target = target]
    /\ raced' = (\E l \in Calls : AtWork(l)) /\ stray' = (updaters # {})
    /\ jobs' = [jobs EXCEPT ![k] = NoJob]
    /\ UNCHANGED <<installed, offered, serverUp, updaters>>

Stop ==
    /\ state.running
    /\ state' = [state EXCEPT !.stop = TRUE]
    /\ UNCHANGED <<jobs, installed, offered, serverUp, updaters, history>>

-----------------------------------------------------------------------------
(* worker().  It reads and writes the state of whichever job began last.   *)

\* The finally block.  If the directory cannot be removed, it throws before it
\* clears state.running, and fail() is called instead.
Ends(k, report) ==
    /\ \E removed \in BOOLEAN :
         state' = IF removed THEN [report EXCEPT !.running = FALSE]
                             ELSE [report EXCEPT !.phase = "error"]
    /\ jobs' = [jobs EXCEPT ![k] = NoJob]

\* To the catch block, where the variables of the loop are gone.
Throws(k) ==
    /\ jobs' = [jobs EXCEPT ![k] = [NoJob EXCEPT !.pc = "failed",
                                    !.first = jobs[k].first, !.last = jobs[k].last]]
    /\ UNCHANGED state

Cancelled(k) == Ends(k, [state EXCEPT !.phase = "cancelled"])
Fail(k)      == Ends(k, [state EXCEPT !.phase = "error"])

\* Mutant: one patch too many.
Advance_OneMore(k) ==
    IF state.stop /\ jobs[k].at < jobs[k].last
    THEN Cancelled(k)
    ELSE /\ jobs' = [jobs EXCEPT ![k].at = jobs[k].at + 1, ![k].moved = TRUE,
                ![k].pc = IF jobs[k].at + 1 <= jobs[k].last THEN "installed" ELSE "final"]
         /\ UNCHANGED state

\* On to the next patch; a request to stop is looked at before it.
Advance(k) ==
    LET at == jobs[k].at + 1 IN
    IF at < jobs[k].last /\ state.stop
    THEN Cancelled(k)
    ELSE /\ jobs' = [jobs EXCEPT ![k].at = at, ![k].moved = TRUE, ![k].ver = Unknown,
                                 ![k].pc = IF at < jobs[k].last THEN "installed" ELSE "final"]
         /\ UNCHANGED state

Downloads(k, ver) ==
    /\ state' = [state EXCEPT !.step = jobs[k].at - jobs[k].first + 1, !.phase = "download"]
    /\ jobs' = [jobs EXCEPT ![k].pc = "link", ![k].ver = ver]

\* Mutant: the version that was read is not compared.
Installed_NoSkip(k) ==
    /\ jobs[k].pc = "installed"
    /\ \E ver \in Read : Downloads(k, ver)
    /\ UNCHANGED <<installed, offered, serverUp, updaters, history>>

\* The version has been read again: the patch is skipped if it is there already.
Installed(k) ==
    /\ jobs[k].pc = "installed"
    /\ \E ver \in Read : IF ver > jobs[k].at THEN Advance(k) ELSE Downloads(k, ver)
    /\ UNCHANGED <<installed, offered, serverUp, updaters, history>>

Linked(k) ==
    /\ jobs[k].pc = "link" /\ jobs[k].at \in offered
    /\ Goes(k, "zip")
    /\ UNCHANGED <<state, installed, offered, serverUp, updaters, history>>

\* Patches of the plan come before the one from v.
HasBefore(k, v) == v \in jobs[k].first + 1..jobs[k].last

\* tryFinishPartialUpdate, up to its request.
Partial(k, ver, at, linked) ==
    IF HasBefore(k, at) => ver >= at
    THEN /\ jobs' = [jobs EXCEPT ![k].pc = "partial", ![k].ver = ver,
                                 ![k].at = at, ![k].linked = linked]
         /\ UNCHANGED state
    ELSE IF linked THEN Throws(k)
                   ELSE Fail(k)

\* No link for the patch, after the retries.
NotLinked(k) ==
    /\ jobs[k].pc = "link"
    /\ IF jobs[k].moved
       THEN Partial(k, IF jobs[k].ver = Unknown THEN jobs[k].at ELSE jobs[k].ver, jobs[k].at, TRUE)
       ELSE Throws(k)
    /\ UNCHANGED <<installed, offered, serverUp, updaters, history>>

Zipped(k) ==
    /\ jobs[k].pc = "zip"
    /\ IF state.stop
       THEN Cancelled(k)
       ELSE Goes(k, "apply") /\ state' = [state EXCEPT !.phase = "apply"]
    /\ UNCHANGED <<installed, offered, serverUp, updaters, history>>

NotZipped(k) ==
    /\ jobs[k].pc = "zip" /\ Throws(k)
    /\ UNCHANGED <<installed, offered, serverUp, updaters, history>>

\* The exit code is 0: the game has applied the patch to the version it is for,
\* while no server runs, or a child of it that is left behind still does.
Applied(k) ==
    /\ jobs[k].pc = "apply" /\ installed = jobs[k].at /\ ~serverUp
    /\ Goes(k, "slaves")
    /\ \/ installed' = jobs[k].at + 1 /\ UNCHANGED updaters
       \/ updaters' = updaters \cup {jobs[k].at} /\ UNCHANGED installed
    /\ UNCHANGED <<state, offered, serverUp, history>>

\* "unexpected content", another exit code, or killed after 15 minutes.
NotApplied(k) ==
    /\ jobs[k].pc = "apply"
    /\ Goes(k, "unfit")
    /\ installed' \in Read /\ updaters' \in {updaters, updaters \cup {jobs[k].at}}
    /\ UNCHANGED <<state, offered, serverUp, history>>

\* waitApplySlaves has returned.  It gives up after 5 minutes, and at once when
\* there is no pgrep, so a child may be at work still; and what became of one
\* that ended is not known.  The patch is counted all the same.
Waited(k) ==
    /\ \/ /\ jobs[k].pc = "slaves" /\ Advance(k)
          /\ stray' = (stray \/ installed <= jobs[k].at)
       \/ jobs[k].pc = "unfit" /\ Fail(k) /\ UNCHANGED stray
    /\ UNCHANGED <<installed, offered, serverUp, updaters, raced>>

Final(k) ==
    /\ jobs[k].pc = "final"
    /\ \E ver \in Read :
         Ends(k, [state EXCEPT !.phase = "done",
                               !.finalTo = IF ver = Unknown THEN jobs[k].last ELSE ver])
    /\ UNCHANGED <<installed, offered, serverUp, updaters, history>>

Before(step) == IF step = 0 THEN 0 ELSE step - 1

\* The catch block has read the version.
Failed(k) ==
    /\ jobs[k].pc = "failed"
    /\ \E ver \in Read : IF ver = Unknown THEN Fail(k)
                         ELSE Partial(k, ver, jobs[k].first + Before(state.step), FALSE)
    /\ UNCHANGED <<installed, offered, serverUp, updaters, history>>

\* Mutant: a job that ends with part of its patches does not pass the finally block.
PartialEnds_Running(k) ==
    /\ jobs[k].pc = "partial"
    /\ state' = [state EXCEPT !.phase = "done", !.partial = TRUE, !.finalTo = jobs[k].ver]
    /\ jobs' = [jobs EXCEPT ![k] = NoJob]
    /\ UNCHANGED <<installed, offered, serverUp, updaters, history>>

\* There are no more patches, or the update server does not say and a patch
\* was applied: the job is done.
PartialEnds(k) ==
    /\ jobs[k].pc = "partial"
    /\ Reachable(jobs[k].ver) = {} \/ HasBefore(k, jobs[k].at)
    /\ Ends(k, [state EXCEPT !.phase = "done", !.partial = TRUE, !.finalTo = jobs[k].ver])
    /\ UNCHANGED <<installed, offered, serverUp, updaters, history>>

NotPartial(k) ==
    /\ jobs[k].pc = "partial"
    /\ IF jobs[k].linked THEN Throws(k) ELSE Fail(k)
    /\ UNCHANGED <<installed, offered, serverUp, updaters, history>>

-----------------------------------------------------------------------------
(* The game server, the update server, and what is left of an updater.     *)

ServerChanges ==
    /\ serverUp' = ~serverUp
    /\ UNCHANGED <<state, jobs, installed, offered, updaters, history>>

OfferChanges ==
    /\ \E v \in Versions \ {MaxVersion} :
         offered' = IF v \in offered THEN offered \ {v} ELSE offered \cup {v}
    /\ UNCHANGED <<state, jobs, installed, serverUp, updaters, history>>

\* A child that was left behind has applied its patch, or fails.
UpdaterEnds ==
    /\ \E v \in updaters :
         /\ updaters' = updaters \ {v}
         /\ installed' \in Read \/ (installed = v /\ installed' = v + 1)
    /\ UNCHANGED <<state, jobs, offered, serverUp, history>>

Request(k) == Start(k) \/ Refused(k) \/ Prepared(k) \/ Planned(k) \/ NoDirectory(k)
Patch(k)   == \/ Installed(k) \/ Linked(k) \/ NotLinked(k) \/ Zipped(k)
              \/ NotZipped(k) \/ Applied(k) \/ NotApplied(k) \/ Waited(k)
Verdict(k) == Final(k) \/ Failed(k) \/ PartialEnds(k) \/ NotPartial(k)
Outside    == ServerChanges \/ OfferChanges \/ UpdaterEnds

Next == Stop \/ Outside \/ \E k \in Calls : Request(k) \/ Patch(k) \/ Verdict(k)

Spec == Init /\ [][Next]_vars

-----------------------------------------------------------------------------
(* Properties.  raced: when the last job began another was at work; two     *)
(* calls of start() that both wait for prepare() can break each property.  *)
(* stray: a patch of the last job was counted that was not in the files,   *)
(* or a child of an earlier job's updater was at work when it began; the   *)
(* properties of the version do not hold then.                             *)

\* What the status says is true.  A job is running when a worker is at work (or
\* could not make or remove its directory).  One that is done reports no version
\* above the one there is, and at least the one it was for, unless it says it is
\* partial; or waitApplySlaves gave up on one of its patches.
ReportIsTrue ==
    ~raced =>
      /\ (\E k \in Calls : AtWork(k)) <=> state.running /\ state.phase # "error"
      /\ state.phase = "done" /\ ~stray =>
           /\ state.finalTo <= installed /\ state.finalTo >= state.from
           /\ ~state.partial => state.finalTo >= state.target

\* A patch is given to the game only if it is for the version installed then,
\* though the plan was made earlier and the version read before the download;
\* unless the version could not be read, or the patch before it was counted and
\* is not there.
PatchFits ==
    [][\A k \in Calls :
          jobs[k].pc = "zip" /\ jobs'[k].pc = "apply" /\ jobs[k].ver # Unknown
              /\ ~raced /\ ~stray
            => installed = jobs[k].at]_vars
=============================================================================
