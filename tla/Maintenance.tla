----------------------------- MODULE Maintenance -----------------------------
(***************************************************************************)
(* Scheduled maintenance (MaintenanceService): ticks of the scheduler, the *)
(* jobs they and runNow start, the task list, the lock a job puts on a     *)
(* server, and the list of servers that wait for manual updates.           *)
(*                                                                         *)
(* Ticks come every 10 s and wait for chat warnings between two tasks, so  *)
(* they overlap, and each works on the task list it read at its beginning. *)
(* A job runs for minutes to hours.  Only the task list, the locks and the *)
(* pending file survive a restart of the panel.                            *)
(***************************************************************************)
EXTENDS FiniteSets, Integers

CONSTANTS
    Tasks, Insts,
    OneShots,       \* tasks that neither repeat weekly nor are manual only
    ManualOnly,     \* tasks that runNow alone starts
    Kind,           \* what a task does while its servers are stopped
    Targets,        \* the servers of a task
    Fires,          \* the times a task is due
    Lists,          \* the task lists users save
    Early, Window,  \* how long before and after its time it may start
    TickMax,        \* how long a tick may take before it counts as overrun,
    JobMax,         \* and a scheduled job, from its due time
    Horizon,        \* bound on time
    NTicks, NJobs,  \* bounds on overlapping ticks and jobs
    MaxManual,      \* bound on calls of runNow
    MaxEdits,       \* bound on saves of the task list
    MaxBoots        \* bound on restarts of the panel

\* Two due times of a task are further apart than a job and a tick that do not
\* overrun can bridge.
ASSUME MaintenanceAssumption ==
    /\ OneShots \subseteq Tasks /\ ManualOnly \subseteq Tasks
    /\ OneShots \cap ManualOnly = {}
    /\ Kind \in [Tasks -> {"restart", "update", "manual"}]
    /\ Targets \in [Tasks -> SUBSET Insts]
    /\ Fires \in [Tasks -> SUBSET Nat]
    /\ Lists \subseteq [tasks : SUBSET Tasks, active : SUBSET Tasks]
    /\ \A e \in Lists : e.active \subseteq e.tasks
    /\ Early \in Nat /\ Window \in Nat /\ Horizon \in Nat
    /\ TickMax \in Nat /\ JobMax \in Nat /\ Window <= JobMax
    /\ NTicks \in Nat /\ NJobs \in Nat
    /\ MaxManual \in Nat /\ MaxEdits \in Nat /\ MaxBoots \in Nat
    /\ \A t \in Tasks : \A m, n \in Fires[t] :
           m < n => m + JobMax + TickMax < n - Early

Ticks == 1..NTicks
Jobs == 1..NJobs
Manual == -1    \* the run identifier of a manual run
Never  == -1    \* lastFireByTask has no entry
None   == "none"

VARIABLES
    now,
    tasks, active,  \* the rows of maintenance_schedules, and those switched on
    jobRunning, lastFire,
    tick,           \* one record for each call of schedulerTick
    asks,           \* calls of runNow between their check and their job
    job,            \* one record for each call of runJob
    saving,         \* calls of set() between their two writes
    server,         \* the status each server reports
    lock,           \* servers whose maintenanceLock is set
    pending,        \* servers in the file of pending manual maintenance
    waiters,        \* servers waitAndResumeManual waits for
    manuals, edits, boots,
    fired, spent, failed, muddled, overran \* what the properties remember; see below

table   == <<tasks, active>>
panel   == <<jobRunning, lastFire>>
servers == <<server, lock, pending, waiters>>
bounds  == <<manuals, edits, boots>>
history == <<fired, spent, failed, muddled, overran>>
vars == <<now, table, panel, tick, asks, job, saving, servers, bounds, history>>

TickRec == [pc : {"idle", "loop"}, at : Nat, todo : SUBSET Tasks]
JobRec  == [pc : {"idle", "next", "stop", "update", "start", "wait", "finally",
                  "disable", "end"},
            task : Tasks \cup {None}, run : Int, todo : SUBSET Insts,
            inst : Insts \cup {None}, held : BOOLEAN, ok : BOOLEAN]

\* Where a job is in runJobImpl, for one server.
AtServer == {"stop", "update", "start", "wait", "finally"}

NoTick == [pc |-> "idle", at |-> 0, todo |-> {}]
NoJob  == [pc |-> "idle", task |-> None, run |-> Manual, todo |-> {},
           inst |-> None, held |-> FALSE, ok |-> TRUE]

\* The parts of TypeOK: jobs, ticks, and the rest.
JobsTyped ==
    /\ job \in [Jobs -> JobRec]
    /\ \A j \in Jobs : /\ job[j].pc # "idle" => job[j].task \in Tasks
                       /\ job[j].pc \in AtServer => job[j].inst \in Insts

TicksTyped == tick \in [Ticks -> TickRec]

RestTyped ==
    /\ now \in 0..Horizon
    /\ tasks \subseteq Tasks /\ active \subseteq tasks
    /\ jobRunning \in BOOLEAN
    /\ lastFire \in [Tasks -> Nat \cup {Never}]
    /\ asks \subseteq Tasks
    /\ saving \subseteq Lists
    /\ server \in [Insts -> {"down", "starting", "running"}]
    /\ lock \subseteq Insts /\ pending \subseteq Insts /\ waiters \subseteq Insts
    /\ manuals \in 0..MaxManual /\ edits \in 0..MaxEdits /\ boots \in 0..MaxBoots
    /\ fired \subseteq Tasks \X Nat /\ spent \subseteq OneShots
    /\ failed \subseteq Jobs
    /\ muddled \in BOOLEAN /\ overran \in BOOLEAN

TypeOK == JobsTyped /\ TicksTyped /\ RestTyped

Init ==
    /\ now = 0
    /\ tasks = Tasks /\ active = Tasks
    /\ jobRunning = FALSE
    /\ lastFire = [t \in Tasks |-> Never]
    /\ tick = [k \in Ticks |-> NoTick]
    /\ job = [j \in Jobs |-> NoJob]
    /\ asks = {} /\ saving = {}
    /\ server \in [Insts -> {"down", "running"}]
    /\ lock = {} /\ pending = {} /\ waiters = {}
    /\ manuals = 0 /\ edits = 0 /\ boots = 0
    /\ fired = {} /\ spent = {} /\ failed = {}
    /\ muddled = FALSE /\ overran = FALSE

-----------------------------------------------------------------------------
(* The scheduler.                                                          *)

Scheduled == {j \in Jobs : job[j].pc # "idle" /\ job[j].run # Manual}

\* Time passes.  Nothing ends a tick or a job that takes long: a tick waits for
\* each chat message, a job for up to hours at each of its servers.
Overruns ==
    \/ \E k \in Ticks : tick[k].pc # "idle" /\ now >= tick[k].at + TickMax
    \/ \E j \in Scheduled : now >= job[j].run + JobMax

Advance ==
    /\ now < Horizon
    /\ now' = now + 1
    /\ overran' = (overran \/ Overruns)
    /\ UNCHANGED <<table, panel, tick, asks, job, saving, servers, bounds,
                   fired, spent, failed, muddled>>

\* nextFireUtcMs: due is the first due time of t after the moment `at`.
IsNextFire(t, at, due) ==
    due \in Fires[t] /\ due > at /\ \A n \in Fires[t] : n > at => due <= n

\* repo.find() and the time zone: the tick has the task list, and nowMs, once
\* for all tasks.
TickStarts(k) ==
    /\ tick[k].pc = "idle" /\ \A l \in Ticks : l < k => tick[l].pc # "idle"
    /\ LET todo == {t \in active \ ManualOnly :
                      \E due \in Fires[t] : IsNextFire(t, now, due)} IN
       /\ todo # {}
       /\ tick' = [tick EXCEPT ![k] = [pc |-> "loop", at |-> now, todo |-> todo]]
    /\ UNCHANGED <<now, table, panel, asks, job, saving, servers, bounds, history>>

InWindow(n) == n - Early <= now /\ now < n + Window

\* runJob begins, in a free slot.
Begin(j, t, run) ==
    /\ job[j].pc = "idle" /\ \A l \in Jobs : l < j => job[l].pc # "idle"
    /\ job' = [job EXCEPT ![j] = [pc |-> "next", task |-> t, run |-> run,
                                  todo |-> Targets[t], inst |-> None,
                                  held |-> FALSE, ok |-> TRUE]]

TickDone(k, t) ==
    tick' = [tick EXCEPT ![k] = IF tick[k].todo = {t} THEN NoTick
                                ELSE [tick[k] EXCEPT !.todo = @ \ {t}]]

\* Mutant: the last fire of a task is not looked at.
TickFires_NoMemory(k, t) ==
    /\ tick[k].pc = "loop" /\ t \in tick[k].todo
    /\ TickDone(k, t)
    /\ ~jobRunning /\ jobRunning' = TRUE
    /\ \E due \in Fires[t] :
         /\ IsNextFire(t, tick[k].at, due) /\ InWindow(due)
         /\ lastFire' = [lastFire EXCEPT ![t] = due]
         /\ \E j \in Jobs : Begin(j, t, due)
         /\ fired' = fired \cup {<<t, due>>}
    /\ UNCHANGED <<now, table, asks, saving, servers, bounds,
                   spent, failed, muddled, overran>>

\* tickFireForTask, after the warnings of the task: it compares the due time
\* taken from the tick's nowMs with the present, and checks and sets the flag
\* without a wait between.
TickFires(k, t) ==
    /\ tick[k].pc = "loop" /\ t \in tick[k].todo
    /\ TickDone(k, t)
    /\ ~jobRunning /\ jobRunning' = TRUE
    /\ \E due \in Fires[t] :
         /\ IsNextFire(t, tick[k].at, due) /\ InWindow(due)
         /\ lastFire[t] # due /\ lastFire' = [lastFire EXCEPT ![t] = due]
         /\ \E j \in Jobs : Begin(j, t, due)
         /\ fired' = fired \cup {<<t, due>>}
    /\ UNCHANGED <<now, table, asks, saving, servers, bounds,
                   spent, failed, muddled, overran>>

\* The task is not due, a job is at work, or the task has had its job; or its
\* warnings throw, which may be whatever the rest is.
TickPasses(k, t) ==
    /\ tick[k].pc = "loop" /\ t \in tick[k].todo
    /\ TickDone(k, t)
    /\ UNCHANGED <<now, table, panel, asks, job, saving, servers, bounds, history>>

-----------------------------------------------------------------------------
(* runNow() and set().                                                     *)

\* Up to the await of repo.findOneBy: the flag is checked and not set.
RunNowChecks(t) ==
    /\ ~jobRunning
    /\ t \notin asks /\ manuals < MaxManual
    /\ asks' = asks \cup {t} /\ manuals' = manuals + 1
    /\ UNCHANGED <<now, table, panel, tick, job, saving, servers, edits, boots, history>>

RunNowStarts(t) ==
    /\ t \in asks
    /\ asks' = asks \ {t}
    /\ IF t \in tasks THEN \E j \in Jobs : Begin(j, t, Manual) ELSE UNCHANGED job
    /\ UNCHANGED <<now, table, panel, tick, saving, servers, bounds, history>>

\* Mutant: the rows are deleted, the others not looked at.
SetDeletes_Rows(e) ==
    /\ edits < MaxEdits /\ edits' = edits + 1
    /\ tasks' = tasks \cap e.tasks
    /\ active' = active
    /\ saving' = saving \cup {e}
    /\ UNCHANGED <<now, panel, tick, asks, job, servers, manuals, boots, history>>

\* set(): the rows that the new list does not have are deleted first.
SetDeletes(e) ==
    /\ edits < MaxEdits /\ edits' = edits + 1
    /\ tasks' = tasks \cap e.tasks
    /\ active' = active \cap e.tasks
    /\ saving' = saving \cup {e}
    /\ UNCHANGED <<now, panel, tick, asks, job, servers, manuals, boots, history>>

SetSaves(e) ==
    /\ e \in saving
    /\ saving' = saving \ {e}
    /\ tasks' = tasks \cup e.tasks
    /\ active' = (active \ e.tasks) \cup e.active
    /\ spent' = spent \ e.active
    /\ UNCHANGED <<now, panel, tick, asks, job, servers, bounds,
                   fired, failed, muddled, overran>>

-----------------------------------------------------------------------------
(* A job: runJob, and runJobImpl for each server in turn.                  *)

To(j, pc) == job' = [job EXCEPT ![j].pc = pc]

\* stop_server is dispatched; its result is only reported.
JobStops(j, i) ==
    /\ job[j].pc = "next" /\ i \in job[j].todo
    /\ job' = [job EXCEPT ![j].pc = "stop", ![j].inst = i]
    /\ UNCHANGED <<now, table, panel, tick, asks, saving, servers, bounds, history>>

\* Object.assign(item, patch): to unlock, the patch has no maintenanceLock key,
\* and the item keeps the one it has.
Locked(i, on) == IF on THEN lock \cup {i} ELSE lock

\* waitStatus sees the server down.
JobStopped(j) ==
    /\ job[j].pc = "stop"
    /\ server[job[j].inst] = "down"
    /\ LET i == job[j].inst
           kind == Kind[job[j].task] IN
       /\ lock' = IF kind = "update" THEN Locked(i, TRUE) ELSE lock
       /\ pending' = IF kind = "manual" THEN pending \cup {i} ELSE pending
       /\ job' = [job EXCEPT ![j].pc = CASE kind = "update"  -> "update"
                                          [] kind = "manual"  -> "finally"
                                          [] kind = "restart" -> "start",
                             ![j].held = (kind = "update")]
    /\ UNCHANGED <<now, table, panel, tick, asks, saving, server, waiters, bounds,
                   history>>

\* factorio_update, then the mod job, end well or find nothing to do.
JobUpdated(j) ==
    /\ job[j].pc = "update"
    /\ To(j, "start")
    /\ UNCHANGED <<now, table, panel, tick, asks, saving, servers, bounds, history>>

\* ServerOpsService.start: it refuses, a mod job being at work; or the lock is
\* cleared, and the runtime starts the server, or reports that it runs or cannot
\* start.
StartServer(i, ok) ==
    /\ lock' = lock \ {i} \/ (~ok /\ UNCHANGED lock)
    /\ IF ok THEN server[i] = "down" /\ server' = [server EXCEPT ![i] = "starting"]
             ELSE UNCHANGED server

\* Mutant: the last server alone decides.
JobStarts_Forgets(j) ==
    /\ job[j].pc = "start"
    /\ \E ok \in BOOLEAN :
         /\ StartServer(job[j].inst, ok)
         /\ job' = [job EXCEPT ![j].pc = IF ok THEN "wait" ELSE "finally", ![j].ok = ok]
         /\ failed' = IF ok THEN failed ELSE failed \cup {j}
    /\ UNCHANGED <<now, table, panel, tick, asks, saving, pending, waiters, bounds,
                   fired, spent, muddled, overran>>

\* start_server answers; the job's servers so far must all be well (allOk).
JobStarts(j) ==
    /\ job[j].pc = "start"
    /\ \E ok \in BOOLEAN :
         /\ StartServer(job[j].inst, ok)
         /\ job' = [job EXCEPT ![j].pc = IF ok THEN "wait" ELSE "finally",
                               ![j].ok = @ /\ ok]
         /\ failed' = IF ok THEN failed ELSE failed \cup {j}
    /\ UNCHANGED <<now, table, panel, tick, asks, saving, pending, waiters, bounds,
                   fired, spent, muddled, overran>>

JobOnline(j) ==
    /\ job[j].pc = "wait" /\ server[job[j].inst] = "running"
    /\ To(j, "finally")
    /\ UNCHANGED <<now, table, panel, tick, asks, saving, servers, bounds, history>>

\* Updates are blocked, a wait times out, a step throws or reports an error.
JobFails(j) ==
    /\ job[j].pc \in {"stop", "update", "start", "wait"}
    /\ job' = [job EXCEPT ![j].pc = "finally", ![j].ok = FALSE]
    /\ failed' = failed \cup {j}
    /\ UNCHANGED <<now, table, panel, tick, asks, saving, servers, bounds,
                   fired, spent, muddled, overran>>

\* A one-shot task whose servers are all done, each with success.
OneShotDone(j) ==
    /\ job[j].ok /\ job[j].inst # None /\ job[j].todo \subseteq {job[j].inst}
    /\ job[j].task \in OneShots

\* Mutant: jobRunning is cleared after each server.
JobFinally_ClearsFlag(j) ==
    /\ job[j].pc = "finally"
    /\ lock' = IF job[j].held THEN Locked(job[j].inst, FALSE) ELSE lock
    /\ job' = [job EXCEPT ![j].pc = "next", ![j].todo = @ \ {job[j].inst},
                          ![j].held = FALSE]
    /\ spent' = IF OneShotDone(j) /\ job[j].run # Manual
                THEN spent \cup {job[j].task} ELSE spent
    /\ jobRunning' = FALSE
    /\ UNCHANGED <<now, table, lastFire, tick, asks, saving, server, pending, waiters,
                   bounds, fired, failed, muddled, overran>>

\* finally of runJobImpl: a lock that was taken is given back.
JobFinally(j) ==
    /\ job[j].pc = "finally"
    /\ lock' = IF job[j].held THEN Locked(job[j].inst, FALSE) ELSE lock
    /\ job' = [job EXCEPT ![j].pc = "next", ![j].todo = @ \ {job[j].inst},
                          ![j].held = FALSE]
    /\ spent' = IF OneShotDone(j) /\ job[j].run # Manual
                THEN spent \cup {job[j].task} ELSE spent
    /\ UNCHANGED <<now, table, panel, tick, asks, saving, server, pending, waiters,
                   bounds, fired, failed, muddled, overran>>

\* maybeDisableOneshotTask finds the row of a one-shot task.
DisableDue(j) == OneShotDone(j) /\ job[j].task \in tasks

\* No server is left: the task is read to be switched off, if it is to be.
JobLeaves(j) ==
    /\ job[j].pc = "next" /\ job[j].todo = {}
    /\ To(j, IF DisableDue(j) THEN "disable" ELSE "end")
    /\ UNCHANGED <<now, table, panel, tick, asks, saving, servers, bounds, history>>

\* The row is written back, switched off; or the database fails, and the task
\* stays on.
JobDisables(j) ==
    /\ job[j].pc = "disable"
    /\ To(j, "end")
    /\ \/ /\ tasks' = tasks \cup {job[j].task}
          /\ active' = active \ {job[j].task}
          /\ UNCHANGED spent
       \/ /\ UNCHANGED table
          /\ spent' = IF job[j].run = Manual THEN spent ELSE spent \ {job[j].task}
    /\ UNCHANGED <<now, panel, tick, asks, saving, servers, bounds,
                   fired, failed, muddled, overran>>

\* Mutant: the flag is cleared only after success.
JobEnds_OnSuccess(j) ==
    /\ job[j].pc = "end"
    /\ job' = [job EXCEPT ![j] = NoJob]
    /\ jobRunning' = (jobRunning /\ ~job[j].ok)
    /\ failed' = failed \ {j}
    /\ muddled' = (Scheduled \ {j} # {})
    /\ UNCHANGED <<now, table, lastFire, tick, asks, saving, servers, bounds,
                   fired, spent, overran>>

\* finally of runJob, whichever job this is.
JobEnds(j) ==
    /\ job[j].pc = "end"
    /\ job' = [job EXCEPT ![j] = NoJob]
    /\ jobRunning' = FALSE
    /\ failed' = failed \ {j}
    /\ muddled' = (Scheduled \ {j} # {})
    /\ UNCHANGED <<now, table, lastFire, tick, asks, saving, servers, bounds,
                   fired, spent, overran>>

-----------------------------------------------------------------------------
(* Servers, their users, and manual maintenance.                           *)

\* A user starts a server; if manual updates were pending, a loop waits for it
\* to run.
UserStarts(i) ==
    /\ \E ok \in BOOLEAN :
         /\ StartServer(i, ok)
         /\ waiters' = IF ok THEN waiters \cup (pending \cap {i}) ELSE waiters
    /\ UNCHANGED <<now, table, panel, tick, asks, job, saving, pending, bounds, history>>

\* A server comes up, or ends, told to or not.
ServerChanges(i) ==
    /\ \E new \in {"down", "running"} :
         /\ server[i] = "starting" \/ new = "down"
         /\ server' = [server EXCEPT ![i] = new]
    /\ UNCHANGED <<now, table, panel, tick, asks, job, saving, lock, pending, waiters,
                   bounds, history>>

\* Mutant: the entry is removed when the wait is over, however it ended.
WaiterEnds_Always(i) ==
    /\ i \in waiters
    /\ waiters' = waiters \ {i}
    /\ pending' = pending \ {i}
    /\ UNCHANGED <<now, table, panel, tick, asks, job, saving, server, lock, bounds,
                   history>>

\* waitAndResumeManual: the server runs, or 10 minutes are over.
WaiterEnds(i) ==
    /\ i \in waiters
    /\ waiters' = waiters \ {i}
    /\ \/ server[i] = "running" /\ pending' = pending \ {i}
       \/ UNCHANGED pending
    /\ UNCHANGED <<now, table, panel, tick, asks, job, saving, server, lock, bounds,
                   history>>

\* clearManual: a user ends the maintenance without starting the server.
ClearManual(i) ==
    /\ i \in pending
    /\ pending' = pending \ {i}
    /\ UNCHANGED <<now, table, panel, tick, asks, job, saving, server, lock, waiters,
                   bounds, history>>

\* The panel restarts; what it keeps in memory is gone.
PanelRestarts ==
    /\ boots < MaxBoots /\ boots' = boots + 1
    /\ jobRunning' = FALSE
    /\ lastFire' = [t \in Tasks |-> Never]
    /\ tick' = [k \in Ticks |-> NoTick]
    /\ job' = [j \in Jobs |-> NoJob]
    /\ asks' = {} /\ saving' = {} /\ waiters' = {}
    /\ server' = [i \in Insts |-> "down"]
    /\ fired' = {} /\ spent' = spent \ active /\ failed' = {}
    /\ muddled' = FALSE /\ overran' = FALSE
    /\ UNCHANGED <<now, table, lock, pending, manuals, edits>>

-----------------------------------------------------------------------------
Tick(k) ==
    TickStarts(k) \/ \E t \in Tasks : TickFires(k, t) \/ TickPasses(k, t)

JobStep(j) ==
    \/ \E i \in Insts : JobStops(j, i)
    \/ JobStopped(j) \/ JobUpdated(j) \/ JobStarts(j) \/ JobOnline(j)
    \/ JobFails(j) \/ JobFinally(j) \/ JobLeaves(j) \/ JobDisables(j) \/ JobEnds(j)

Edit(e) == SetDeletes(e) \/ SetSaves(e)

Server(i) ==
    UserStarts(i) \/ ServerChanges(i) \/ WaiterEnds(i) \/ ClearManual(i)

Next ==
    \/ Advance
    \/ \E k \in Ticks : Tick(k)
    \/ \E t \in Tasks : RunNowChecks(t) \/ RunNowStarts(t)
    \/ \E e \in Lists : Edit(e)
    \/ \E j \in Jobs : JobStep(j)
    \/ \E i \in Insts : Server(i)
    \/ PanelRestarts

Spec == Init /\ [][Next]_vars

(***************************************************************************)
(* Every wait of a job is a bounded number of polls, so its next step      *)
(* comes, be it the timeout.                                               *)
(***************************************************************************)
FairSpec == Spec /\ \A j \in Jobs : WF_vars(JobStep(j))

-----------------------------------------------------------------------------
(* Properties.                                                             *)

\* A scheduled run of t for its due time n starts in this step.
Starts(t, n) ==
    n # Manual /\ \E j \in Jobs : /\ job[j].pc = "idle" /\ job'[j].pc # "idle"
                                  /\ job'[j].task = t /\ job'[j].run = n

\* While the panel stays up a task is run at most once for a due time, however
\* ticks overlap, short the job, and whatever other tasks do meanwhile.
\* (fired holds the scheduled runs since the panel started.)
FiredOnce ==
    [][\A j \in Jobs : Starts(job'[j].task, job'[j].run)
           => <<job'[j].task, job'[j].run>> \notin fired]_vars

\* Scheduled jobs run one at a time, unless another job has ended while one of
\* them was going: that end clears the flag they exclude each other by.
\* (muddled says so, as long as a scheduled job runs.)
ScheduledExclude == Cardinality(Scheduled) > 1 => muddled

\* A job that fails at any of its servers does not come to switch its one-shot
\* task off, whatever the servers after it did; and a one-shot task that has done
\* its scheduled run with success is not run by the schedule again until the user
\* switches it on, whatever ticks hold an older task list and whatever saves
\* overlap its switching off, unless a tick or a job has taken so long that the
\* next due time came in reach.  (failed holds the jobs at work that failed at a
\* server, spent the tasks done and not left on by a database that failed; overran
\* says that a tick or a job took too long since the panel started.)
OneShotRunsOnce ==
    [][/\ \A j \in failed : job'[j].pc # "disable"
       /\ \A t \in spent : \A n \in Fires[t] : Starts(t, n) => overran]_vars

\* A server waits for manual updates until it runs or its user ends the wait:
\* neither a failed start nor a restart of the panel loses it.
ManualModeKept ==
    [][\A i \in Insts : i \in pending /\ i \notin pending'
           => server[i] = "running" \/ ClearManual(i)]_vars

\* Scheduled maintenance is never blocked for good by a job that hangs.
FlagClears == jobRunning ~> ~jobRunning

(***************************************************************************)
(* What the help texts of the panel say; see the README.                   *)
(***************************************************************************)

\* server_lang_en.json:86, "The lock clears automatically when the task ends
\* (whether it succeeded or failed)": a lock belongs to a job at work.
LockClearsAtEnd ==
    \A i \in lock : \E j \in Jobs : job[j].pc # "idle" /\ i \in Targets[job[j].task]
=============================================================================
