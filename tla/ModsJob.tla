------------------------------- MODULE ModsJob -------------------------------
(***************************************************************************)
(* Installing and updating mods (ModsJobService) on one server: the job's  *)
(* worker function, the download workers it starts, the zip files they     *)
(* write, and the starts of the server that must not meet them.            *)
(*                                                                         *)
(* Every function reads and writes this.state, the object of the job       *)
(* started last.  A download worker whose own job is over goes on with the *)
(* object of the next one, the flag that asks it to stop included.         *)
(***************************************************************************)
EXTENDS FiniteSets, Integers, Sequences

CONSTANTS
    Items,          \* mods that may be planned, each with its new release
    Held,           \* those of which an older zip is in the directory
    Plans,          \* what the planner may come up with
    NJobs,          \* bound on jobs
    MaxWorkers,     \* bound on mod_download_concurrency
    Attempts,       \* DOWNLOAD_RETRY_ATTEMPTS
    MaxLate         \* bound on streams given up before they opened their zip

ASSUME ModsJobAssumption ==
    /\ Held \subseteq Items
    /\ Plans \subseteq Seq(Items)
    /\ \A p \in Plans : \A m, n \in DOMAIN p : p[m] = p[n] => m = n
    /\ NJobs \in Nat /\ MaxWorkers \in Nat \ {0} /\ Attempts \in Nat \ {0}
    /\ MaxLate \in Nat

Jobs == 1..NJobs
Workers == 1..MaxWorkers
NoItem == "none"

VARIABLES
    state,      \* this.state
    last,       \* the job it belongs to
    main,       \* where worker() is, or how it ended
    plan, next, aborted, firstError,    \* its local variables
    w,          \* the download workers of each job
    file,       \* the new zip of a mod
    late,       \* streams that were given up before they opened their zip
    old,        \* mods of which the older zip is still there
    listed,     \* mods with an entry in mod-list.json
    server, starting,   \* the server, and a start() that is past its checks
    torn, raced, litter     \* what the properties remember; see below

locals  == <<plan, next, aborted, firstError>>
disk    == <<file, late, old, listed>>
servers == <<server, starting>>
history == <<torn, raced, litter>>
vars == <<state, last, main, locals, w, disk, servers, history>>

Verdicts == {"done", "cancelled", "error"}
Active   == {"plan", "conflicts", "pool"}

StateRec == [running : BOOLEAN, stop_requested : BOOLEAN,
             phase : {"idle", "preparing", "download", "install"} \cup Verdicts,
             summary : [Items -> Nat]]
WorkerRec == [pc : {"none", "fetch", "open", "stream", "pause", "loop", "returned", "thrown"},
              item : Items \cup {NoItem}, attempt : 1..Attempts, intact : BOOLEAN]

NoWorker == [pc |-> "none", item |-> NoItem, attempt |-> 1, intact |-> FALSE]
Idle == [running |-> FALSE, stop_requested |-> FALSE, phase |-> "idle",
         summary |-> [i \in Items |-> 0]]

TypeOK ==
    /\ state \in StateRec
    /\ last \in 0..NJobs
    /\ main \in [Jobs -> {"none"} \cup Active \cup Verdicts]
    /\ plan \in [Jobs -> Plans \cup {<<>>}]
    /\ next \in [Jobs -> Nat]
    /\ aborted \in [Jobs -> BOOLEAN]
    /\ firstError \in [Jobs -> {"none", "cancelled", "error"}]
    /\ w \in [Jobs -> [Workers -> WorkerRec]]
    /\ file \in [Items -> {"absent", "partial", "whole"}]
    /\ late \subseteq Items \X Jobs \X (1..Attempts)
    /\ old \subseteq Items /\ listed \subseteq Items
    /\ server \in {"down", "up"} /\ starting \in BOOLEAN
    /\ torn \in BOOLEAN /\ raced \in BOOLEAN /\ litter \subseteq Items

Init ==
    /\ state = Idle /\ last = 0
    /\ main = [j \in Jobs |-> "none"]
    /\ plan = [j \in Jobs |-> <<>>] /\ next = [j \in Jobs |-> 1]
    /\ aborted = [j \in Jobs |-> FALSE]
    /\ firstError = [j \in Jobs |-> "none"]
    /\ w = [j \in Jobs |-> [k \in Workers |-> NoWorker]]
    /\ file = [i \in Items |-> "absent"]
    /\ late = {} /\ old = Held /\ listed = Held
    /\ server = "down" /\ starting = FALSE
    /\ torn = FALSE /\ raced = FALSE /\ litter = {}

\* A worker that may still write.
Busy(j, k) == w[j][k].pc \in {"fetch", "open", "stream", "pause", "loop"}

-----------------------------------------------------------------------------
(* Requests: start() and stop(), and those that start and stop the server. *)

\* Mutant: the server may be running.
Start_AnyTime ==
    /\ ~state.running
    /\ last < NJobs
    /\ last' = last + 1
    /\ state' = [Idle EXCEPT !.running = TRUE, !.phase = "preparing"]
    /\ main' = [main EXCEPT ![last + 1] = "plan"]
    /\ raced' = (raced \/ starting)
    /\ UNCHANGED <<locals, w, disk, servers, torn, litter>>

\* Mutant: a job may be running.
Start_Twice ==
    /\ server = "down"
    /\ last < NJobs
    /\ last' = last + 1
    /\ state' = [Idle EXCEPT !.running = TRUE, !.phase = "preparing"]
    /\ main' = [main EXCEPT ![last + 1] = "plan"]
    /\ raced' = (raced \/ starting)
    /\ UNCHANGED <<locals, w, disk, servers, torn, litter>>

\* A new object replaces the state, and worker() begins.
Start ==
    /\ ~state.running /\ server = "down"
    /\ last < NJobs
    /\ last' = last + 1
    /\ state' = [Idle EXCEPT !.running = TRUE, !.phase = "preparing"]
    /\ main' = [main EXCEPT ![last + 1] = "plan"]
    /\ raced' = (raced \/ starting)
    /\ UNCHANGED <<locals, w, disk, servers, torn, litter>>

Stop ==
    /\ state.running /\ ~state.stop_requested
    /\ state' = [state EXCEPT !.stop_requested = TRUE]
    /\ UNCHANGED <<last, main, locals, w, disk, servers, history>>

\* ServerOpsService.start and RuntimeService.start up to their first await.
ServerStarts ==
    /\ ~state.running /\ server = "down" /\ ~starting
    /\ starting' = TRUE
    /\ UNCHANGED <<state, last, main, locals, w, disk, server, history>>

\* The process is spawned, or it cannot be.
ServerSpawns ==
    /\ starting /\ starting' = FALSE
    /\ server' \in {"down", "up"}
    /\ UNCHANGED <<state, last, main, locals, w, disk, history>>

ServerEnds ==
    /\ server = "up" /\ server' = "down"
    /\ UNCHANGED <<state, last, main, locals, w, disk, starting, history>>

-----------------------------------------------------------------------------
(* worker(): the plan, the pool, the verdict.                              *)

\* The catch and finally of worker(): whatever state there is, is told.
End(j, verdict) ==
    /\ main' = [main EXCEPT ![j] = verdict]
    /\ state' = [state EXCEPT !.running = FALSE, !.phase = verdict]

\* No credentials, no such mod, a newer game needed, the portal unreachable.
PlanFails(j) ==
    /\ main[j] \in {"plan", "conflicts"}
    /\ End(j, "error")
    /\ UNCHANGED <<last, locals, w, disk, servers, history>>

PlanCancelled(j) ==
    /\ main[j] = "plan" /\ state.stop_requested
    /\ End(j, "cancelled")
    /\ UNCHANGED <<last, locals, w, disk, servers, history>>

\* A zip counts as installed by its name: a mod is planned if there is none of
\* its new release, not even a part of one.
PlanEnds(j) ==
    /\ main[j] = "plan" /\ ~state.stop_requested
    /\ \E p \in Plans :
         /\ \A n \in DOMAIN p : file[p[n]] = "absent"
         /\ plan' = [plan EXCEPT ![j] = p]
    /\ main' = [main EXCEPT ![j] = "conflicts"]
    /\ UNCHANGED <<state, last, next, aborted, firstError, w, disk, servers, history>>

NothingToDo(j) ==
    /\ main[j] = "conflicts" /\ plan[j] = <<>>
    /\ End(j, "done")
    /\ UNCHANGED <<last, locals, w, disk, servers, history>>

Fetching(i) == [pc |-> "fetch", item |-> i, attempt |-> 1, intact |-> FALSE]

\* applyInstallConflicts is done.  The n workers run up to their first await one
\* after the other; if a stop was requested meanwhile, each throws at once.  One
\* worker stands for processPlanSequential.
PoolStarts(j, n) ==
    /\ main[j] = "conflicts" /\ n <= Len(plan[j])
    /\ main' = [main EXCEPT ![j] = "pool"]
    /\ state' = [state EXCEPT !.phase =
                   IF state.stop_requested /\ n = 1 THEN @ ELSE "download"]
    /\ w' = [w EXCEPT ![j] = [k \in Workers |->
               CASE k > n -> NoWorker
                 [] k <= n /\ state.stop_requested -> [NoWorker EXCEPT !.pc = "thrown"]
                 [] OTHER -> Fetching(plan[j][k])]]
    /\ next' = [next EXCEPT ![j] = IF state.stop_requested THEN 1 ELSE n + 1]
    /\ UNCHANGED <<last, plan, aborted, firstError, disk, servers, history>>

\* Promise.all rejects with the first worker that throws, and does not wait.
PoolThrows(j) ==
    /\ main[j] = "pool" /\ \E k \in Workers : w[j][k].pc = "thrown"
    /\ End(j, "cancelled")
    /\ UNCHANGED <<last, locals, w, disk, servers, history>>

\* Mutant: the error a worker met is not thrown again.
PoolReturns_Forgets(j) ==
    /\ main[j] = "pool" /\ \A k \in Workers : w[j][k].pc \in {"none", "returned"}
    /\ End(j, IF firstError[j] = "cancelled" THEN "cancelled" ELSE "done")
    /\ UNCHANGED <<last, locals, w, disk, servers, history>>

PoolReturns(j) ==
    /\ main[j] = "pool" /\ \A k \in Workers : w[j][k].pc \in {"none", "returned"}
    /\ End(j, IF firstError[j] = "none" THEN "done" ELSE firstError[j])
    /\ UNCHANGED <<last, locals, w, disk, servers, history>>

-----------------------------------------------------------------------------
(* A download worker: the loop, one mod at a time, up to Attempts times.   *)

Sequential(j) == \A k \in Workers : k # 1 => w[j][k].pc = "none"
Set(j, k, r) == w' = [w EXCEPT ![j][k] = r]

\* processPlanSequential does not look at stop_requested after the last mod.
WorkerReturns(j, k) ==
    /\ w[j][k].pc = "loop"
    /\ \/ aborted[j]
       \/ /\ next[j] > Len(plan[j])
          /\ state.stop_requested => Sequential(j)
    /\ Set(j, k, [w[j][k] EXCEPT !.pc = "returned"])
    /\ UNCHANGED <<state, last, main, locals, disk, servers, history>>

\* cancelCheck, outside the try of the loop.
WorkerCancelled(j, k) ==
    /\ w[j][k].pc = "loop"
    /\ ~aborted[j] /\ state.stop_requested
    /\ Sequential(j) => next[j] <= Len(plan[j])
    /\ Set(j, k, [w[j][k] EXCEPT !.pc = "thrown"])
    /\ torn' = (torn \/ \E l \in Workers \ {k} : Busy(j, l))
    /\ UNCHANGED <<state, last, main, locals, disk, servers, raced, litter>>

WorkerTakes(j, k) ==
    /\ w[j][k].pc = "loop"
    /\ ~aborted[j] /\ ~state.stop_requested /\ next[j] <= Len(plan[j])
    /\ Set(j, k, Fetching(plan[j][next[j]]))
    /\ next' = [next EXCEPT ![j] = @ + 1]
    /\ state' = [state EXCEPT !.phase = "download"]
    /\ UNCHANGED <<last, main, plan, aborted, firstError, disk, servers, history>>

\* A stream that opens its zip truncates that of other downloads of the mod, and
\* a worker that deletes it leaves them without.
Upset(j, k, r) ==
    LET upset == {x \in Jobs \X Workers :
                    /\ w[j][k].pc \in {"open", "stream"}
                    /\ w[x[1]][x[2]].item = w[j][k].item} IN
    w' = [a \in Jobs |-> [b \in Workers |->
            IF a = j /\ b = k THEN r
            ELSE [w[a][b] EXCEPT !.intact = @ /\ <<a, b>> \notin upset]]]

\* The answer is there, and createWriteStream is called, which opens the zip later.
Answered(j, k) ==
    /\ w[j][k].pc = "fetch"
    /\ Set(j, k, [w[j][k] EXCEPT !.pc = "open"])
    /\ state' = IF Sequential(j) THEN state ELSE [state EXCEPT !.phase = "download"]
    /\ UNCHANGED <<last, main, locals, disk, servers, history>>

\* Mutant: the older zip makes room for the new one.
Opens_PrunesFirst(j, k) ==
    /\ w[j][k].pc = "open"
    /\ file' = [file EXCEPT ![w[j][k].item] = "partial"]
    /\ litter' = litter \ {w[j][k].item}
    /\ Upset(j, k, [w[j][k] EXCEPT !.pc = "stream", !.intact = TRUE])
    /\ old' = old \ {w[j][k].item}
    /\ UNCHANGED <<state, last, main, locals, late, listed, servers, torn, raced>>

\* The stream opens the zip itself, under its name, and empties it.
Opens(j, k) ==
    /\ w[j][k].pc = "open"
    /\ file' = [file EXCEPT ![w[j][k].item] = "partial"]
    /\ litter' = litter \ {w[j][k].item}
    /\ Upset(j, k, [w[j][k] EXCEPT !.pc = "stream", !.intact = TRUE])
    /\ UNCHANGED <<state, last, main, locals, late, old, listed, servers, torn, raced>>

\* So does one that was given up before: its zip is made, or emptied, by nobody who
\* will write or delete it.
LateOpens(s) ==
    /\ s \in late
    /\ late' = late \ {s}
    /\ file' = [file EXCEPT ![s[1]] = "partial"]
    /\ litter' = litter \cup {s[1]}
    /\ w' = [a \in Jobs |-> [b \in Workers |->
               [w[a][b] EXCEPT !.intact = @ /\ w[a][b].item # s[1]]]]
    /\ UNCHANGED <<state, last, main, locals, old, listed, servers, torn, raced>>

\* All bytes are there: older zips are pruned, and under the install lock the
\* mod is entered in mod-list.json and in the summary.
Completes(j, k) ==
    LET i == w[j][k].item IN
    /\ w[j][k].pc = "stream"
    /\ file' = [file EXCEPT ![i] = IF w[j][k].intact THEN "whole" ELSE @]
    /\ old' = old \ {i} /\ listed' = listed \cup {i}
    /\ state' = [state EXCEPT !.summary[i] = @ + 1,
                              !.phase = IF Sequential(j) THEN "install" ELSE "download"]
    /\ Set(j, k, [w[j][k] EXCEPT !.pc = "loop", !.item = NoItem, !.intact = FALSE])
    /\ UNCHANGED <<last, main, locals, late, servers, history>>

\* What is there of the zip is deleted; what is not there yet comes later.
Unlink(j, k) ==
    LET i == w[j][k].item
        s == <<i, j, w[j][k].attempt>> IN
    IF w[j][k].pc \in {"open", "stream"}
    THEN /\ w[j][k].pc = "open" => Cardinality(late) < MaxLate
         /\ file' = [file EXCEPT ![i] = "absent"]
         /\ late' = IF w[j][k].pc = "open" THEN late \cup {s} ELSE late
         /\ litter' = litter \ {i}
    ELSE UNCHANGED <<file, late, litter>>

\* Mutant: the error is thrown on, and not kept for when all workers are done.
GivesUp_Throws(j, k, error) ==
    /\ Upset(j, k, [NoWorker EXCEPT !.pc = "thrown"])
    /\ UNCHANGED <<aborted, firstError>>

\* The catch of the loop: the others finish the mod they are at.
GivesUp(j, k, error) ==
    /\ Upset(j, k, [NoWorker EXCEPT !.pc = "returned"])
    /\ aborted' = [aborted EXCEPT ![j] = TRUE]
    /\ firstError' = [firstError EXCEPT ![j] = error]

\* Mutant: one attempt more.
Retries_OneMore(j, k) ==
    /\ w[j][k].pc \in {"fetch", "open", "stream"} /\ w[j][k].attempt <= Attempts
    /\ w[j][k].pc # "fetch" => ~state.stop_requested
    /\ Unlink(j, k)
    /\ Upset(j, k, [w[j][k] EXCEPT !.pc = "pause", !.intact = FALSE])
    /\ UNCHANGED <<state, last, main, locals, old, listed, servers, torn, raced>>

\* A transient error: another attempt after a pause.
Retries(j, k) ==
    /\ w[j][k].pc \in {"fetch", "open", "stream"} /\ w[j][k].attempt < Attempts
    /\ w[j][k].pc # "fetch" => ~state.stop_requested
    /\ Unlink(j, k)
    /\ Upset(j, k, [w[j][k] EXCEPT !.pc = "pause", !.intact = FALSE])
    /\ UNCHANGED <<state, last, main, locals, old, listed, servers, torn, raced>>

Resumes(j, k) ==
    /\ w[j][k].pc = "pause" /\ ~state.stop_requested
    /\ Set(j, k, [w[j][k] EXCEPT !.pc = "fetch", !.attempt = @ + 1])
    /\ state' = IF Sequential(j) THEN state ELSE [state EXCEPT !.phase = "download"]
    /\ UNCHANGED <<last, main, locals, disk, servers, history>>

\* Mutant: what was written so far stays.
Fails_LeavesFile(j, k) ==
    /\ w[j][k].pc \in {"fetch", "open", "stream"}
    /\ GivesUp(j, k, "error")
    /\ UNCHANGED <<state, last, main, plan, next, disk, servers, history>>

\* Any other error, a wrong checksum, or the last attempt.
Fails(j, k) ==
    /\ w[j][k].pc \in {"fetch", "open", "stream"}
    /\ Unlink(j, k)
    /\ GivesUp(j, k, "error")
    /\ UNCHANGED <<state, last, main, plan, next, old, listed, servers, torn, raced>>

\* The last write fails: that is met outside the try, and nothing is deleted.
EndFails(j, k) ==
    /\ w[j][k].pc = "stream"
    /\ Set(j, k, [NoWorker EXCEPT !.pc = "returned"])
    /\ aborted' = [aborted EXCEPT ![j] = TRUE]
    /\ firstError' = [firstError EXCEPT ![j] = "error"]
    /\ litter' = IF w[j][k].intact THEN litter \cup {w[j][k].item} ELSE litter
    /\ UNCHANGED <<state, last, main, plan, next, disk, servers, torn, raced>>

\* shouldAbort, at once or between two chunks, or after an error; cancelCheck of an attempt.
Aborts(j, k) ==
    /\ w[j][k].pc \in {"open", "stream", "pause"} /\ state.stop_requested
    /\ Unlink(j, k)
    /\ GivesUp(j, k, "cancelled")
    /\ UNCHANGED <<state, last, main, plan, next, old, listed, servers, torn, raced>>

-----------------------------------------------------------------------------
MainStep(j) ==
    \/ PlanFails(j) \/ PlanCancelled(j) \/ PlanEnds(j) \/ NothingToDo(j)
    \/ \E n \in Workers : PoolStarts(j, n)
    \/ PoolThrows(j) \/ PoolReturns(j)

WorkerStep(j, k) ==
    \/ WorkerReturns(j, k) \/ WorkerCancelled(j, k) \/ WorkerTakes(j, k)
    \/ Answered(j, k) \/ Opens(j, k) \/ Completes(j, k)
    \/ Retries(j, k) \/ Resumes(j, k)
    \/ Fails(j, k) \/ EndFails(j, k) \/ Aborts(j, k)

Request == Start \/ Stop \/ ServerStarts \/ ServerSpawns \/ ServerEnds

JobStep(j) == MainStep(j) \/ \E k \in Workers : WorkerStep(j, k)

Next ==
    \/ Request
    \/ \E s \in late : LateOpens(s)
    \/ \E j \in Jobs : JobStep(j)

\* A download ends, as fetch gives up a connection that is silent: a job goes on as
\* long as it or one of its workers can.
Fairness == \A j \in Jobs : WF_vars(JobStep(j))

Spec == Init /\ [][Next]_vars /\ Fairness

-----------------------------------------------------------------------------
(* Properties.  torn: a worker threw `cancelled` from its loop while other *)
(* workers of the job were at work, so the job ended without them.         *)
(* raced: a job began while a start() of the server was past its checks.   *)
(* litter: mods of whose zip a late open or a failed end left a part, that *)
(* was neither deleted nor written anew since.                             *)

\* A job that reports success has installed every mod of its plan: the zip is
\* whole, but for litter, the mod is in mod-list.json, and in the summary once.
DoneMeansInstalled ==
    \A j \in Jobs : j = last /\ main[j] = "done" /\ ~torn =>
        \A n \in DOMAIN plan[j] :
            LET i == plan[j][n] IN
            /\ i \notin litter => file[i] = "whole"
            /\ i \in listed /\ state.summary[i] = 1

\* What may change of the mods is a zip that a late open makes or empties.
ModsHold == /\ UNCHANGED <<old, listed>>
            /\ \A i \in Items \ litter' : file'[i] = file[i]

\* Once a job has reported its end, nothing is written until the next begins:
\* neither to the mods, but for the late opens, nor to the status it reported.
QuietAfterEnd ==
    [][~state.running /\ ~torn => ModsHold /\ (state' = state \/ state'.running)]_vars

\* The mods do not change under a running server, but for the late opens.
ServerKeepsMods == [][server = "up" /\ ~torn /\ ~raced => ModsHold]_vars

\* A zip that is not whole is being downloaded, by a worker that will complete
\* it or delete it: only litter is left behind, even by workers on the same file.
PartialIsWritten ==
    \A i \in Items : file[i] = "partial" /\ i \notin litter =>
        \E j \in Jobs, k \in Workers :
            w[j][k].pc = "stream" /\ w[j][k].item = i /\ w[j][k].intact

\* However updates fail or are cancelled, a mod that was installed stays so, in
\* its older release or the new one, unless the new one is litter.
ModKept ==
    ~torn => \A i \in Held \ old : /\ file[i] # "absent"
                                  /\ i \notin litter => file[i] = "whole"

\* The job that status() tells of.
Reported ==
    IF last = 0 THEN "idle"
    ELSE IF main[last] \notin Active THEN main[last]
         ELSE IF state.stop_requested THEN "stopping" ELSE "running"

Promise == INSTANCE ModJobCalls WITH job <- Reported

\* Seen from outside there is one job at a time, which ends, as cancelled only
\* if stop() was called for it.
ImplementsModJob == Promise!Spec
=============================================================================
