# A verified model of the Factorio Control Center

The Factorio Control Center (FCC) is a web panel for Factorio game servers: a
NestJS backend (`src/src`) that spawns the servers, talks to them over RCON,
runs maintenance, mod and update jobs on them, and a React client. Everything
in the backend runs on one Node event loop, so a handler is atomic between two
`await`s and nothing else is. The hard behaviours are what happens at those
awaits, what timers and process and socket events do in between, and what is
left when the panel itself dies. This project models those parts in TLA+,
checks them with TLC and proves their safety with TLAPS.

## 1. Inventory

| Component | State | Operations | Talks to |
|---|---|---|---|
| RconService `ops/rcon.service.ts` | per endpoint: socket, authed, queue, pending, timers | run, close, onModuleDestroy, socket events, reconnect timer, command timeout | the game servers |
| RuntimeService `ops/runtime.service.ts` | per instance: the InstanceRuntime and its process, flags, watchdogs | start, stop, kill, close handler, log lines, onModuleDestroy | RCON, the OS, firewall, notifications |
| ServerOpsService `ops/server/server-ops.service.ts` | none | status, start, stop, restart, kill, saves | Runtime, Instances, ModsJob |
| DispatchService `ops/dispatch.service.ts` | none | routes operations, maintenance lock, resume of manual maintenance, audit | every service |
| InstancesService `instances/instances.service.ts` | cache, selected id, database | add, select, update, clone, remove | database |
| InstanceAutostartService `instances/` | retry attempts | autostart after boot | Runtime, Instances |
| InstanceBootstrapService `instances/instance-bootstrap.service.ts` | one job state, an archive and a directory on disk | start, stop, worker | factorio.com, Instances |
| MaintenanceService `maintenance/maintenance.service.ts` | jobRunning, lastFireByTask, warnByTask, pending file, schedules | tick every 10 s, runNow, jobs, manual maintenance | Dispatch (in process) |
| ModsJobService `ops/mods/mods-job.service.ts` | one job state | start, stop, parallel download workers | mod portal, mods directory |
| FactorioUpdateService `ops/factorio-update/` | one update state | start, stop, worker | factorio.com, the executable |
| BackupService, BackupSchedulerService `backup/`, boot restore `main.ts` | archives, one timer, staged restore files | backup, restore, prune, schedule; apply at boot | database files |
| Sessions, two-factor, rate limiter `auth/` | maps of tokens, challenges, attempts | login, resolve, revoke | database |
| AuditLog, Metrics, LogRotation, EventsGateway, Notifications | files, samples, sockets | record, sample, rotate, push | read the others |
| Mods, saves, files, players, maps, codecs, program ops, configuration | files | one request at a time | disk |
| The client | views | HTTP and WebSocket | the backend |

How they interact: browsers and the scheduler call DispatchService, which calls
the services in process; each service keeps its state in plain fields read
before and written after awaits. RuntimeService and RconService react to events
of processes and sockets that no caller controls. ServerOps, autostart, the
scheduler, mod jobs and updates all act on the same instance and exclude each
other only by checks at their beginning.

What makes each correct:

* RCON: no command is lost, answered twice or kept for ever; the connection
  always comes back; events of an abandoned socket do no harm to the new one.
* Runtime: what a call does after an await hits the process it was made for; a
  stop ends; a shutdown of the panel leaves nothing of its own behind, and ends.
* ServerOps and Dispatch: restart and the maintenance lock act on the instance
  they were asked for and end in the state they say.
* Maintenance: one job at a time, each occurrence run once, warnings sent once,
  the server running again after a failed job.
* Mod jobs: what a job reports is what is on disk; nothing is written after its
  end, nor under a running server; a mod that was installed is never lost.
* Game updates: a patch is given to the game only if it fits the version there;
  the reported version is true.
* Bootstrap: a job that is done leaves a whole server, however often its
  download was cut; every job ends.
* Backup: a crash at any point of a restore leaves a database that opens and is
  the right one; automatic backups keep their distance and never stop.

`PROJECT.json` lists every component with its status, and the hazards of the
code, each at its line, with the properties that cover it or the reason why none
does.

## 2. Modules

```
RconCalls   <-- implements -- RconConnection    <-- RconConnectionProofs
                              ServerRuntime     <-- ServerRuntimeProofs, MCServerRuntime
                              Maintenance       <-- MaintenanceProofs, MCMaintenance
ModJobCalls <-- implements -- ModsJob           <-- ModsJobProofs, MCModsJob
                              GameUpdate        <-- GameUpdateProofs, MCGameUpdate
                              InstanceBootstrap <-- InstanceBootstrapProofs
                              Backup            <-- BackupProofs
                              BackupScheduler   <-- BackupSchedulerProofs
```

### RconConnection and RconCalls

`RconConnection` models RconService for one `host:port`, the game server and the
sockets being the environment. A call of `run` is `RunFirst` (no connection
yet), `RunReconnect` (the password differs) or `RunEnqueue`. The events of
sockets are `Connected`, `AuthAccepted`, `AuthRefused`, `Response`, `BadPacket`,
`PeerDrop` and `SocketClose`; the timers are `ReconnectTimer` and
`CommandTimeout`; `Close` and `OnModuleDestroy` end the connection. Each action
is one callback of the event loop, with everything it does: `SocketClose`, for
instance, clears `authed`, forgets the socket, fails every command and arms the
timer.

| Code | Model |
|---|---|
| the entry of `connections`, `conn.sock`, `authed`, `password` | `present`, `sock`, `authed`, `connpw` |
| `queue`, `pending` | the sets of calls `queue`, `pending` |
| the promise of a call | `outcome`: idle, waiting, or how it settled |
| `reconnectTimer` | `timer` |
| sockets, abandoned ones included, whose handlers stay attached | `sstate`, `authOut`, `wire` |

An important detail is kept: `sock.destroy()` of the replaced socket does not
detach its handlers, and its close event comes in a later turn, when another
socket may be current.

`RconCalls` is what a caller is promised: a call that was issued settles once,
in one way, and is never forgotten while the panel runs. `RconConnection`
implements it (`ImplementsCalls`, liveness included).

### ServerRuntime

`ServerRuntime` models RuntimeService for one instance: the calls `start`,
`stop` and `kill` (several at a time, each in its own slot of `Calls`), the
Windows watchdog and kill timer, the close handler, `onModuleDestroy`, the
crash and restart of the panel, and the processes with the log lines that the
panel reacts to.

| Code | Model |
|---|---|
| `runtimes.get(id)` | `cur` |
| the boolean fields of an InstanceRuntime | `flags[p]`, the set of those that are true |
| `rt.proc`, `exitCode`, the close event | `life[p]` |
| a call between two awaits, and the runtime it has read | `pc[c]`, `rt[c]` |
| `runStopWatchdog`, `scheduleShutdownKill`, `finalizeShutdownKill` under way | `loops`, `armed`, `finalizing` |
| who listens on the game and RCON ports | `bound` |
| signals and `/quit` a process received | `doomed[p]` |
| progress of `onModuleDestroy` | `panel`, `snap` |

`start` is `StartCheck` (up to the first await), `StartCleanup` and `Spawn`;
`stop` is `StopSend`, the environment's `QuitDelivered`, and `StopOk` or
`StopFail`; `kill` is `Kill` and `KillReturns`. An isRunning that is true of a
process killed by a signal until its close handler runs (`exitCode` stays null)
is kept: see `Running`.

Abstractions: waits (600 ms, 2.5 s, 30 s, 180 s, 35 s) are not measured, their
ends are events that may come at any time, so what holds does not depend on
the durations; whether `run('/quit')` resolves or rejects is left open, which
covers every behaviour of `RconConnection`; both ports are one `bound`; the
fields of a runtime whose close handler has run stay empty, since `isRunning`
is false and nothing reads them; `inGame` only feeds the status display;
`sawSaveProgress100` only chooses between two delays; `shutdownKillScheduled`
is what `sawShutdownMarker` says; the two shutdown paths of `main.ts` (Nest's
hooks, line 171, and the signal handlers, 232-245) are one; which notification
the close handler sends is left out; `restart` is calls of these operations.

### Maintenance

`Maintenance` models MaintenanceService with the parts of DispatchService and
ServerOpsService that keep its lock: the scheduler's ticks, `runNow`, `set`, the
jobs, one-shot tasks, pending manual maintenance, and restarts of the panel.
Ticks overlap, since one that waits for the chat warnings of a task is still
going when the next begins, so there is a record for each; likewise for jobs,
because `runNow` does not set the flag it checks.

| Code | Model |
|---|---|
| the rows of `maintenance_schedules`, and those with `active` | `tasks`, `active` |
| `jobRunning`, `lastFireByTask` | the same, `lastFire` |
| a call of `schedulerTick`: its `nowMs` and the tasks it has not reached | `tick[k]` |
| a call of `runJob` and the `runJobImpl` it is in | `job[j]` |
| a `runNow` at `findOneBy`, a `set` between delete and save | `asks`, `saving` |
| `status_kind` of a server, its `maintenanceLock` | `server`, `lock` |
| the file of pending manual maintenance, `waitAndResumeManual` under way | `pending`, `waiters` |

A tick is `TickStarts` and, task by task, `TickFires` or, when a warning throws,
`TickPasses`. A job is `JobStops`, `JobStopped`, `JobUpdated`, `JobStarts`,
`JobOnline` for each server, any of them giving way to `JobFails`; then
`JobFinally`, and at last `JobLeaves`, `JobDisables` and `JobEnds`. `ok` of a job
is `allOk`, over all its servers: a start that succeeds does not make good for
one that failed before. Switching a one-shot task off writes to the database and
may throw, in which case the task stays on.

Five history variables serve the properties: `fired`, the scheduled runs since
the panel started; `spent`, the one-shot tasks that were done and switched off;
`failed`, the jobs at work that failed at a server; `muddled`, that the end of
one job cleared the flag of another; and `overran`. Nothing in the code bounds a
tick (it waits for each chat message) or a job (hours for each server, in
sequence), so `Advance` lets time pass whatever is under way, and `overran` is
set when a tick has lasted `TickMax` or a scheduled job is `JobMax` past its due
time; what depends on their lengths is stated for the time before that.

Abstractions: a due time is a number from the set `Fires[t]`, the calendar and
the time zone being left out; with one server the code switches a one-shot task
off before it unlocks, the model after, as with several, which no other action
can tell; what a server's start and stop do inside is `ServerRuntime`'s matter,
here a server comes up or ends at any time. Instances are not added or removed,
and warnings only take time.

### ModsJob and ModJobCalls

`ModsJob` models ModsJobService on one instance, with ModPortalService's
`downloadRelease`, which writes the zips, and the `start()` of the server that
must not meet a job. A job is `Start`, the steps of `worker()` (`PlanEnds`,
`PoolStarts`, `PoolReturns` or `PoolThrows`, and the ends of a plan that fails,
is cancelled or is empty) and those of its download workers.

| Code | Model |
|---|---|
| `this.state`, and the job whose object it is | `state`, `last` |
| a call of `worker()` and its local variables | `main[j]`; `plan`, `next`, `aborted`, `firstError` |
| the function `worker` of `processPlanParallel`, one record each | `w[j][k]` |
| the zip of a new release, of an older one; mod-list.json | `file`, `old`, `listed` |
| write streams destroyed before their file was open | `late` |
| the server, a `start()` past its checks | `server`, `starting` |

A new job replaces the state object while download workers of an earlier one may
be alive; since every function goes through `this.state`, they then read the
flag and write the phase of the later job, which is why `state` has no index.
`intact` is true of a download as long as nobody else truncated or deleted its
file. `createWriteStream` returns before the file is open: `Answered` makes the
stream, `Opens` is the open. A download that ends in between, by a stop or an
error, finds nothing to unlink, and its stream, which is put in `late`, makes the
zip afterwards (`LateOpens`), perhaps after the end of the job: an empty file
that the planner takes for the installed mod, by its name. `EndFails` is an error
of `ws.end`, outside the `try`, after which nothing is unlinked. The mods of such
zips are in the history variable `litter` until somebody deletes the zip or
writes it anew, and what the properties say of the contents of zips is said of
the others. `processPlanSequential` is a pool of one worker, with the one difference
that it does not look at the request to stop after its last mod
(`WorkerReturns`). `torn` and `raced` are history variables too: a worker threw
`cancelled` from its loop while others were at work (`cancelCheck` is outside
the `try`, and `Promise.all` does not wait), and a job began while a `start()`
was past its checks. Both make a job and the disk disagree, and both are
excepted in the properties; the hazards of `PROJECT.json` list them.

`ModJobCalls` is what the API promises: one job at a time, which ends, and as
cancelled only if `stop()` was called. `ImplementsModJob` says `ModsJob`
implements it, through the mapping `Reported` (what `status()` tells).

Abstractions: the plan is one of `Plans`, none of whose mods has a zip of its
new release; the conflicts that are disabled before the pool take time only; what
the install lock guards is one step. `MaxLate` bounds `late`. An end of the panel
during a job is left out: it leaves a part of a zip behind, as `EndFails` does
(and an error of the disk ends the panel as well, since the stream has no
listener for it, so that what follows `EndFails` may not come to pass).

### GameUpdate

`GameUpdate` models FactorioUpdateService for one instance: `start()` with its
two requests (`Start`, `Prepared`, `Planned`), the worker, patch by patch
(`Installed`, `Linked`, `Zipped`, `Applied` or `NotApplied`, `Waited`), its
failures and verdicts, the withdrawal of patches by the update server, and the
start and stop of the game server.

| Code | Model |
|---|---|
| `this.state` | `state` |
| a call of `start()`, later its `worker()` | `jobs[k]`: where it is, and the patch, plan and version it holds |
| the executable's version, that may not be readable | `installed`, `Unknown` |
| patches offered | `offered`: the versions with a patch to the next |
| child updaters that outlive the process that was waited for | `updaters`: the versions whose patch they apply |

Versions are numbered in their order, and the patch from `v` leads to `v + 1`.
So the code's skip of a patch that the game is past (lines 617-626) is met when
the version was misread or another updater was at work, and not with offers
whose patches lead over several versions. The exit code 0 of the updater does
not mean that the patch is applied: a child of the updater may do that.
`waitApplySlaves` waits for it with `pgrep`, gives up after 300 s, and returns
at once where there is no `pgrep`; the patch is counted either way. So `Applied`
installs the next version or leaves a child (`updaters`), which ends at any
later time, having installed it or not (`UpdaterEnds`), and `Waited` goes on
whatever became of it. `stray` says that the last job counted a patch that was
not in the files, so that the next patch may be given to a game it does not fit,
or began while a child was at work. Two calls of `start()` may both wait for
their requests and both begin; `raced` marks such jobs. The properties are about
jobs that are neither, where they speak of versions. A patch that fails may
leave the game as it was or unreadable.

### InstanceBootstrap

`InstanceBootstrap` models InstanceBootstrapService: `Start` and `Stop`, the
attempts of `downloadWithResume` (`Prepared`, `Answered`, `Piece`, `BodyEnds`,
`Closed`, and `Retries` after any failure), `Extracted` and the registration
`AutoAdd`, with the panel's death, users who add or remove the instance or empty
the directory between jobs, and the publication of another package.

| Code | Model |
|---|---|
| `this.state` | `state` |
| `runWorker`: the await it is at, `attempt`, `expectedTotal` | `worker` |
| `destFile` | `file`: the sequence of the packages its pieces are from |
| the directory of the server | `target`: empty, parts of something, a server |
| the instance of that directory | `registered` |

An answer may give its length or not, be the rest of the package (206) or all
of it (200), and end early with or without an error; the file may lose its end
when it is closed on a full disk. The pieces are what makes a resumed file
checkable: it is whole when all of them are from one package, in order.

### Backup

`Backup` models the database's part of BackupService, the exit after a restore
(`backup.controller.ts`) and `applyPendingDb` of `main.ts`, one file operation
at a time, with crashes between any two. A database file is the number of its
last commit; the `-wal` file has the state it is to be played over and the one
it leads to, so that a log left beside another database shows (`Opened`).

| Code | Model |
|---|---|
| `fcc_database.sqlite`, its `-wal` | `db`, `wal` |
| `fcc_database.sqlite.restore` | `pending` |
| archives | `archives`: the databases in them |
| `createBackup`, `restoreBackup` under way | `backup`, `restore[k]` |
| the process, or the line of `applyPendingDb` it is at | `panel` |

`createBackup` refuses while another is under way (`creating`), so there is one.
The metrics database is a second copy of the same. `applyPendingDb` catches each
error by itself and goes on. `BootUnlinks` and `BootUnlinksWal` may leave their
file where it is; `BootGivesUp` stands for a rename and a copy that both fail (the
database that is missing then is created empty by TypeORM) and for a pending file
that was copied and cannot be removed. An old database that stays does no harm,
as the rename replaces it. An old `-wal` that stays lies beside the restored
database and is played over it: `spoilt` records this and `BootGivesUp`, until a
start opens what there is with no pending file left.

### BackupScheduler

`BackupScheduler` models BackupSchedulerService: its one timer, `saveSettings`
with the row after which it throws, `run` with the backup and the pruning,
manual backups, which refuse or are refused by a run, and the end and start of
the panel. Time goes by in units of the shortest interval (`Passes`); `lastRun`
is an age rather than a date; `MaxDelay` stands for the 2^31 - 1 ms that
`setTimeout` can hold. `hasty` and `unsaved` say that settings were saved during
a run, that a save or the panel failed meanwhile, or that the user's last save
threw.

## 3. Runs

| Run | Question | Bounds |
|---|---|---|
| `rcon` | Is every command accounted for, does the connection recover, does it implement `RconCalls`? | 3 calls, one of them a `/quit`, 2 passwords of which one is right, 3 sockets, 1 drop |
| `runtime` | Do calls touch only the process they were made for, is a stopping server watched, does a shutdown reap? | 2 processes, 2 concurrent calls, both platforms, a shutdown |
| `runtime_live` | Does a stop on Windows end, does a shutdown end? | 1 process, 2 calls, every kind of exit, 1 panel crash and restart |
| `maintenance` | Is a due time run once, do scheduled jobs exclude each other, is manual maintenance kept? | 2 tasks due together on one server, 2 ticks, 2 jobs, 1 `runNow`, 1 panel restart, times 0 to 2 |
| `maintenance_saves` | Is a one-shot task that succeeded not run again and one that failed at a server not switched off, does `jobRunning` clear? | the one-shot on 2 servers with two due times, the weekly task on one; 1 tick, 2 jobs, 1 save of the list, times 0 to 4 |
| `maintenance_lock` | *violated:* "The lock clears automatically when the task ends (whether it succeeded or failed)" | both tasks on one server, the one-shot with two due times, 2 ticks, 2 jobs, no save, no restart, times 0 to 4 |
| `mods_job` | Is what a job reports on disk, is it quiet after its end, are mods kept, does it implement `ModJobCalls`? | 2 mods, one an update; the empty plan and the plan of both; 2 jobs, 2 workers, 2 attempts, 2 streams given up before their open |
| `update` | Does a job report the truth and give the game only patches that fit? | 2 calls of `start()`, interchangeable (`Symmetry`; the run has no liveness property), 3 versions |
| `bootstrap` | Does a finished job leave a whole server, does every job end? | packages of 2, 3 and 4 pieces, 4 attempts (as in the code) |
| `backup` | Does a start of the panel open the right database, is a backup current, does a restore take effect? | 2 restores, 2 commits, 2 ends of the process besides the scheduled ones |
| `scheduler` | Is the timer always set, do backups keep their distance, is an overdue one tried? | intervals 1, 2 and 4, a longest delay of 3, 2 calls of `run()`, 2 saves, 1 end of the panel |
| `scheduler_interval` | *violated:* an interval of up to a year is the time between two automatic backups | as `scheduler` |

Why the bounds are enough. An abandoned socket, its successor and a third one
show every overlap of two sockets and one more reconnect; the proofs then cover
any number. In the runtime two processes are the old and the new one, two calls
are the one that waits and the one that interferes; a third call adds no new
pair. The run with every kind of exit and a crash uses one process, since what
it checks concerns one. The proofs cover every value of the constants.
In `Maintenance` one tick that is late and one that is not show every overlap,
and two jobs of two tasks due at the same moment every conflict; the unit of
time is the window in which a task may start, so with `TickMax` and `JobMax` of 1
a tick or a job that has not overrun reaches from one side of the window to the
other, and one that has overrun from there to the next due time. Two servers of
one task are the one that fails and the one after it, whose success must not hide
that.

In `ModsJob` two jobs are one that leaves workers or streams behind and the one
that meets them, two workers the one that fails and the one in the middle of its
file; the plan of two mods lets a single worker come back for another, two
attempts are one that is retried and the last, and two streams given up are those
of both workers, or of two attempts or jobs at one mod.

In `GameUpdate` three versions make a plan of two patches, the least with a part
that was applied and a part that was not. In `InstanceBootstrap` three package
sizes give every order of shorter and longer, and four pieces leave a file to be
cut at each attempt. In `Backup` two restores overlap, and two crashes hit a
start and the start after it, any of whose file operations may fail besides. In
`BackupScheduler` the intervals are the shortest, one a timer can hold and one
it cannot, and a restart may fall anywhere between them.

The violations are disagreements between the code and what the panel's texts
say; `PROJECT.json` "findings" quotes both sides.

* Unlocking deletes `maintenanceLock` from a patch that is then assigned over
  the instance, so the lock stays: after an update that failed, the server shows
  as in maintenance until somebody starts it.
* An interval of automatic backups above 596 hours is more than `setTimeout`
  can hold, and fires after 1 ms: backups follow each other without a pause.

Some properties are stated with an exception, where the code does not keep them
and promises nothing: `ReplacesOnlyRaced` (two `start()` calls that both passed
the busy check, the later of which replaces the server of the earlier one),
`overran` in `Maintenance` (a tick or a job so long that the next due time of its
task came in reach), `raced`, `torn` and `litter` in `ModsJob`, `raced` and
`stray` in `GameUpdate`, `cut` in `Backup` (a restore that failed half way is
applied by the next start all the same) and `spoilt` (a start that could not
remove the old `-wal` or not put the restored file in its place goes on), `hasty`
and `unsaved` in `BackupScheduler`, and packages that change during a download
in `InstanceBootstrap`. Without the exception each of these runs finds a
counterexample. The comment at `rcon.service.ts:176` has commands "retried via
the queue after reconnect", where `failAllPending` rejects them; the model
follows the code.

## 4. Fairness

`RconConnection`: the event loop runs what is due, so socket events, the
reconnect timer and command timeouts are weakly fair. The server's answers and
drops are not, nor are new calls: every call settles by its timer if by nothing
else. Recovery supposes that the server accepts a connection and its password
once drops are over (`MaxDrops`).

`ServerRuntime`: timers fire, so the watchdog is fair; the OS ends a process
that was killed outright and Node reports its close; an `onModuleDestroy` under
way goes on. Nothing is assumed of callers, and a server asked to quit may hang
for ever: that is the case the watchdog and the deadline of the shutdown exist
for.

`Maintenance`: every wait of a job is a bounded number of polls, after which the
job goes on without, so the steps of a job are weakly fair. Ticks, users and
servers need not do anything.

`ModsJob`: a job goes on as long as its worker function or one of its download
workers can: a fetch gives up a silent connection, and retries are counted. That
is less than the event loop gives, each of them by itself, and enough. A late
open owes nothing.

`InstanceBootstrap`: the same of its one job; `fetch` gives up an answer that
does not begin or continue within its time limits, and `tar` has one of half an
hour. Stops, users and the download server owe nothing.

`Backup`: whoever supervises the panel starts it again, the start takes its
steps, and the exit after a restore is scheduled by a timer.

`BackupScheduler`: timers fire, a backup ends one way or the other, a panel that
went down is started again, and time passes.

`GameUpdate` states no fairness: its properties are about safety.

## 5. Proofs

`RconConnectionProofs` proves, for any number of calls, passwords, sockets and
drops, from `RconAssumption` (quits are calls, the server's password is one of
the passwords, `NoSock` and `NoPw` are no members of their sets):

* `TypeCorrect`, `NoCommandLost`, `NeverStuck`, `NoStaleWait`: the four safety
  invariants of the run `rcon`;
* `PromiseKept`: every step of the connection is a step of `RconCalls` or a
  stutter.

The invariants are not inductive alone. A handler runs whenever its socket is
alive, so the invariant `IInv` adds that an absent connection has neither
commands nor live sockets (`AbsentIsEmpty`), without which an event of a closed
connection could revive it, and that a command in the queue is on no socket
(`QueueUnwritten`), without which an answer could settle it twice.

`ServerRuntimeProofs` proves, for any number of processes, calls and panel
boots and on both platforms, from `RuntimeAssumption` (`Pids` are the numbers
from 1 up, 0 standing for no runtime):

* `TypeCorrect`, `TouchesTargetsOnly`, `StoppingWatched`,
  `ShutdownLeavesNone`: the type invariant and the safety invariants of the run
  `runtime`;
* `ReplacesRaced`: its action property, that `start()` replaces a live runtime
  only when another call spawned it after the busy check.

Here what is missing from the invariants is what a suspended operation
remembers, and `IInv` says it: the runtime a waiting `stop` or a shutdown holds
is still a target, or its close handler has run (`QuitsTargets`); the runtime a
`start` under way has read does not come back to life (`StartsFree`); whatever
the map, a call or a shutdown refers to has been spawned, and a process that has
not been has no fields (`Spawned`, `Fresh`); a process with
`stopWatchdogActive`, and not only one that is stopping, is in a loop or killed
(`Watched`: `stop()` starts no second loop, so `StoppingIsWatched` depends on
it); a shutdown past its deadline has killed the one process it waits for
(`SnapReaped`). One lemma per conjunct has one step per callback.

`MaintenanceProofs` proves, for any tasks, servers, due times, task lists and
numbers of ticks, jobs and panel restarts, from `MaintenanceAssumption` (among
it, that two due times of a task are further apart than `TickMax` and `JobMax`
together, the lengths beyond which a tick or a job counts as overrun; no length
is assumed of those there are):

* `TypeCorrect`, `SchedulesExclude`: the type invariant and the safety invariant
  of the runs;
* `OncePerDueTime`, `ManualStays`, `DoneOnlyOnce`: their action properties
  `FiredOnce`, `ManualModeKept` and `OneShotRunsOnce`.

`OncePerDueTime` is not evident from the code, which remembers one fire time for
each task: an older one is forgotten when the next is due. `FiredPast` says why
that is enough: as long as the window of a due time is open, that time is still
the last fire of its task. `OneScheduled` is the exclusion with the flag it comes
from: while `muddled` is false, a scheduled job at work has `jobRunning` set.

`DoneOnlyOnce` has two halves. A job that failed at a server does not come to
switch its one-shot task off, whatever the servers after it did: `FailedStays`
says that `ok` of such a job stays false. And a task that was done is not run
again by ticks that still hold it in the list they read before it was switched
off; the code does not look again. For this a second invariant, `OnceInv`,
measures how old such a tick can be as long as nothing has overrun. A job about
to switch its task off does so while its time lasts (`Finishing`, `JobTimes`), so
a tick that holds the task began before that time was over (`SpentLate`), and it
is short itself (`TickTimes`): the window of the next due time has not opened when
the tick ends, and for the last one `FiredPast` applies. With `overran` the
property fails, and nothing in the code prevents it.

`ModsJobProofs` proves, for any mods, plans without repetitions and numbers of
jobs, workers and attempts, from `ModsJobAssumption`:

* `TypeCorrect`, `PartialWritten`, `SuccessIsTrue`, `ModsStay`: the four
  invariants of the run `mods_job`;
* `QuietWhenOver`, `ModsHoldStill`: its action properties;
* `PromiseKept`: every step is a step of `ModJobCalls` or a stutter, under the
  mapping `Reported`.

The invariant has two parts. `Jobwise` holds whatever happens: jobs follow each
other and the one that runs has the flag (`OneJob`); a worker holds a mod of the
plan that was taken, and no two of a job the same one (`Holding`, `Distinct`);
nobody gives up as cancelled unless `stop()` was called (`Asked`, on which
`PromiseKept` depends, since what a worker throws decides the verdict); a worker
that has returned left nothing to take, or an error (`Rest`). `Calm` holds as
long as no worker was left behind: only the workers of the running job are at
work (`Solo`), and every mod of the plan is either untouched, in the hands of one
worker and as that worker left it, or installed and counted (`ToCome`, `AtWork`,
`TakenIsKept`), each with the exception of litter, of which there is a part
(`LitterIsPartial`). When the pool returns, nobody holds a mod, so all are installed:
that is `DoneMeansInstalled`. `PartialIsWritten` is in neither part, because it
is true of workers left behind as well. An action of a worker is reduced to one
of five moves (`KeepsMod`, `TakesMod`, `InstallsMod`, `GivesUpMod`, `Leaves`),
which is what the lemmas are about; a late open (`LateOpensKeeps`) is none of
them: it takes a download's `intact` and gives the mod to `litter`.

`BackupProofs` proves, for any number of restores, commits and crashes:

* `TypeCorrect`, `BootDataKept`: the invariants of the run `backup`;
* `BackupCurrent`: its action property `BackupIsCurrent`.

`BootDataKept` is about starts that removed the old `-wal` and put the pending
file in its place (`~spoilt`); a removal of the old database that failed is among
them.

`BootKeepsData` looks at one moment of a start. What carries it there is what
each file operation may assume: a `-wal` file belongs to the database beside it,
unless a start was cut off after removing that database (`WalFits`); the database
is missing only while its replacement is there (`Replacing`); a running panel has
what it committed (`InUse`); and a restore that was reported complete is in the
pending file until it is in the place of the database (`Due`). The order of
`applyPendingDb`, the database removed first, its log next, and the pending file
renamed last, is what makes `Replacing` inductive. For `BackupCurrent`,
`CommitsInv` adds that no file holds a commit that was not made yet, and that a
backup whose checkpoint worked copies a file no older than its request.

`BackupSchedulerProofs` proves, for any intervals, any longest delay, and any
number of runs, saves and ends of the panel, from `SchedulerAssumption`:

* `TypeCorrect`, `AlwaysArmed`: the invariants of the run `scheduler`;
* `AnIntervalApart`: its action property `BackupsSpaced`.

A timer counts down from a delay that was computed from `lastRunAt` when it was
set, so `Spaced` says at every moment that the age of the last backup and what
is left of the delay add up to the interval at least; `RunsKept` says that `lastRunAt`, in
memory and in the database, is not from before the last backup.

`GameUpdateProofs` proves, for any number of calls and versions, from
`UpdateAssumption` (there is a version):

* `TypeCorrect`, `ReportTrue`: the invariants of the run `update`;
* `PatchFitsVersion`: its action property `PatchFits`.

Between its awaits a job holds versions it has read, and others may be at work.
`Plans` says that whatever was read is no version after that of the files, since
the files never go back; `Alone` and `Progress` say of a job begun alone that the
patches before the one in hand are in the files, that the version read before a
download is still that of the files, and that one that ends with part of its
patches reports no more than there is. They hold until the job counts a patch
that is not in the files (`stray`), and they say that no child updater is at work
till then.

`InstanceBootstrapProofs` proves, for any packages and number of attempts, from
`BootstrapAssumption` (a package has at least one piece, and one has the most):

* `TypeCorrect`, `VerdictTrue`: the type invariant of the run `bootstrap` and its
  action property `VerdictIsTrue`.

What a verdict says of the directory is decided by the archive long before.
`OnePackage` follows it: a job all of whose answers were from one package has
pieces of that package only, in a file no longer than it and with no other
length in mind, and while an answer is read, what is there and what is left are
the package; so a file that passes the comparison of lengths before `tar` is the
whole package. A failed close that loses the end of the file and a retry that
resumes at what is left keep it. Nothing is said of a job with answers from two
packages, which the code does not tell apart (see the hazards).

Every invariant and action property of a passing run is a theorem. Only
model-checked is what TLAPS cannot prove, everything temporal that needs
fairness: `Recovers`, `StopEndsOnWindows`, `ShutdownEnds`, `FlagClears`,
`RestoreTakesEffect`, `OverdueIsRun`, `BootstrapEnds`, and the liveness halves
of `ImplementsCalls` and `ImplementsModJob` (`Answers`). Their safety halves are
the theorems called `PromiseKept`. The two violated properties are
counterexamples of TLC.

## 6. Not modelled

The client; file formats and codecs; players, saves, files and map operations,
which work on one directory one request at a time; logging, metrics and
notifications. InstancesService, the sessions, the rate limiter and the audit
log change their state within one turn of the event loop (what they await is a
database driver that is synchronous), so that nothing comes between their
steps; what is left of them is data. UsersService and two-factor do wait for a
password hash, made in the thread pool, between their checks and their save, so
that two updates of users can conflict; that is listed as a hazard and left
out, because it is apart from the control of the servers. `restart` and
autostart call operations that are modelled, and add waits between them. The calendar of maintenance and
its time zones, the mod planner's choice of releases, and the snapshots of the
database are choices over data that the models leave open.

## 7. Plan

Every invariant and action property is proved. What could be added, in order:

1. Statements without an exception: which operations of two raced jobs
   (`raced` in `GameUpdate` and `ModsJob`) still keep their promises.
2. An abstract specification of `Backup` (a database that a restore replaces in
   one step) and the proof that the file operations implement it.
3. An abstract specification of `Maintenance` (each due time is run or skipped,
   once), which `OncePerDueTime` and `DoneOnlyOnce` are the larger part of.
