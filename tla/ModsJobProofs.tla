---------------------------- MODULE ModsJobProofs ----------------------------
(***************************************************************************)
(* Safety of ModsJob for all sets of mods, all plans, and any number of    *)
(* jobs, download workers and attempts.  The invariant has two parts: what *)
(* holds of the jobs and their workers whatever happens, and what holds of *)
(* the files too as long as no worker was left behind by its job (~torn).  *)
(***************************************************************************)
EXTENDS ModsJob, TLAPS

-----------------------------------------------------------------------------
(* The invariant: jobs and workers.                                        *)

\* A download worker with a mod to fetch.
Holds(j, k) == w[j][k].pc \in {"fetch", "open", "stream", "pause"}

\* Jobs follow each other: the one that runs is the last, and the flag says so.
OneJob ==
    /\ \A j \in Jobs : /\ main[j] = "none" <=> j > last
                       /\ main[j] \in Active => j = last /\ state.running
    /\ state.running => last \in Jobs /\ main[last] \in Active

\* A job has neither workers nor errors before its downloads begin.
Unborn ==
    \A j \in Jobs : main[j] \in {"none", "plan", "conflicts"} =>
        /\ next[j] = 1 /\ firstError[j] = "none"
        /\ \A k \in Workers : w[j][k].pc = "none"

\* A worker holds a mod of the plan that was taken; a pause has an attempt after it.
Holding ==
    \A j \in Jobs, k \in Workers : Holds(j, k) =>
        /\ \E n \in DOMAIN plan[j] : n < next[j] /\ plan[j][n] = w[j][k].item
        /\ w[j][k].pc = "pause" => w[j][k].attempt < Attempts

\* No two workers of a job hold the same mod.
Distinct ==
    \A j \in Jobs, k, l \in Workers :
        Holds(j, k) /\ Holds(j, l) /\ w[j][k].item = w[j][l].item => k = l

\* As long as the job runs, nobody gives up as cancelled unless stop() was called.
Asked ==
    \A j \in Jobs : main[j] = "pool" =>
        /\ \A k \in Workers : w[j][k].pc = "thrown" => state.stop_requested
        /\ firstError[j] = "cancelled" => state.stop_requested

\* A worker that has returned left no mod to take, or an error.
Rest ==
    \A j \in Jobs :
        /\ aborted[j] <=> firstError[j] # "none"
        /\ main[j] = "pool" => \E k \in Workers : w[j][k].pc # "none"
        /\ next[j] > 0
        /\ \A k \in Workers : w[j][k].pc = "returned" => aborted[j] \/ next[j] > Len(plan[j])

\* While a job runs, the server is down and not about to be up.
Unraced == ~raced /\ state.running => server = "down" /\ ~starting

Jobwise == /\ OneJob
           /\ Unborn
           /\ Holding
           /\ Distinct
           /\ Asked
           /\ Rest
           /\ Unraced

-----------------------------------------------------------------------------
(* The invariant: the files, as long as no worker was left behind.         *)

\* Only the workers of a job that runs are at work.
Solo == \A j \in Jobs, k \in Workers : Busy(j, k) => main[j] = "pool"

\* A worker that throws is the last one at work.
ThrownAlone == \A j \in Jobs, k, l \in Workers : w[j][k].pc = "thrown" => ~Busy(j, l)

\* Of a zip that is litter there is a part.
LitterIsPartial == \A i \in litter : file[i] = "partial"

\* Of a mod that no worker has taken there is nothing yet, but its older release.
NotYet(i) == /\ i \in Held => i \in old
             /\ i \notin litter => file[i] = "absent"
             /\ state.summary[i] = 0

ToCome ==
    \A j \in Jobs :
        /\ main[j] = "plan" => \A i \in Items : state.summary[i] = 0
        /\ main[j] \in {"conflicts", "pool"} =>
             \A n \in DOMAIN plan[j] : n >= next[j] => NotYet(plan[j][n])

\* Of a mod that is held there is what its worker has written.
AtWork ==
    \A j \in Jobs, k \in Workers : Holds(j, k) =>
        LET i == w[j][k].item IN
        /\ i \in Held => i \in old
        /\ state.summary[i] = 0
        /\ i \notin litter => file[i] = IF w[j][k].pc = "stream" THEN "partial" ELSE "absent"
        /\ w[j][k].pc = "stream" => (w[j][k].intact <=> i \notin litter)

\* A mod is installed, whole but for litter.
Installed(i) == /\ i \notin litter => file[i] = "whole"
                /\ i \in listed /\ state.summary[i] = 1

\* A mod that was taken is installed or held, unless a worker met an error.
TakenIsKept ==
    \A j \in Jobs : main[j] = "pool" /\ firstError[j] = "none" =>
        \A n \in DOMAIN plan[j] : n < next[j] =>
            \/ Installed(plan[j][n])
            \/ \E k \in Workers : Holds(j, k) /\ w[j][k].item = plan[j][n]

\* The two properties, as they are when no worker was left behind.
AllKept == \A i \in Held : i \in old \/ file[i] = "whole" \/ i \in litter
AllDone ==
    \A j \in Jobs : j = last /\ main[j] = "done" =>
        \A n \in DOMAIN plan[j] : Installed(plan[j][n])

Calm == /\ Solo
        /\ ThrownAlone
        /\ LitterIsPartial
        /\ ToCome
        /\ AtWork
        /\ TakenIsKept
        /\ AllKept
        /\ AllDone

IInv == /\ TypeOK
        /\ Jobwise
        /\ PartialIsWritten
        /\ ~torn => Calm

-----------------------------------------------------------------------------
(* Records, plans and the moves of a worker.                               *)

\* What an assignment to the fields of the state leaves of it.
LEMMA StateFields ==
    ASSUME state \in StateRec
    PROVE  /\ \A ph \in {"preparing", "download", "install"} \cup Verdicts :
                /\ [state EXCEPT !.phase = ph] \in StateRec
                /\ [state EXCEPT !.phase = ph].running = state.running
                /\ [state EXCEPT !.phase = ph].stop_requested = state.stop_requested
                /\ [state EXCEPT !.phase = ph].summary = state.summary
           /\ \A v \in Verdicts :
                /\ [state EXCEPT !.running = FALSE, !.phase = v] \in StateRec
                /\ ~[state EXCEPT !.running = FALSE, !.phase = v].running
                /\ [state EXCEPT !.running = FALSE, !.phase = v].summary = state.summary
           /\ [state EXCEPT !.stop_requested = TRUE] \in StateRec
           /\ [state EXCEPT !.stop_requested = TRUE].stop_requested
           /\ [state EXCEPT !.stop_requested = TRUE].running = state.running
           /\ [state EXCEPT !.stop_requested = TRUE].summary = state.summary
BY DEF StateRec, Verdicts

\* The state of a job that begins.
LEMMA IdleFields ==
    /\ Idle \in StateRec /\ ~Idle.running
    /\ [Idle EXCEPT !.running = TRUE, !.phase = "preparing"] \in StateRec
    /\ [Idle EXCEPT !.running = TRUE, !.phase = "preparing"].running
    /\ ~[Idle EXCEPT !.running = TRUE, !.phase = "preparing"].stop_requested
    /\ \A i \in Items :
         [Idle EXCEPT !.running = TRUE, !.phase = "preparing"].summary[i] = 0
<1>1. [i \in Items |-> 0] \in [Items -> Nat]
  OBVIOUS
<1>2. Idle \in StateRec
  BY <1>1 DEF Idle, StateRec
<1> QED
  BY <1>2 DEF Idle, StateRec

\* The records of workers that begin.
LEMMA WorkerRecs ==
    /\ NoWorker \in WorkerRec /\ NoWorker.pc = "none"
    /\ \A pc \in {"thrown", "returned"} : /\ [NoWorker EXCEPT !.pc = pc] \in WorkerRec
                                          /\ [NoWorker EXCEPT !.pc = pc].pc = pc
    /\ \A i \in Items : /\ Fetching(i) \in WorkerRec /\ Fetching(i).pc = "fetch"
                        /\ Fetching(i).item = i
<1>1. 1 \in 1..Attempts
  BY ModsJobAssumption
<1>2. NoWorker \in WorkerRec
  BY <1>1 DEF NoWorker, WorkerRec
<1>3. \A i \in Items : Fetching(i) \in WorkerRec
  BY <1>1 DEF Fetching, WorkerRec
<1> QED
  BY <1>2, <1>3 DEF NoWorker, Fetching, WorkerRec

\* A step that sets the phase only.
LEMMA PhaseOnly ==
    ASSUME state \in StateRec,
           state' = state \/ state' = [state EXCEPT !.phase = "download"]
    PROVE  /\ state' \in StateRec /\ state'.running = state.running
           /\ state'.stop_requested = state.stop_requested
           /\ state'.summary = state.summary
<1>1. CASE state' = state
  BY <1>1
<1>2. CASE state' = [state EXCEPT !.phase = "download"]
  BY <1>2, StateFields
<1> QED
  BY <1>1, <1>2

\* The records that a worker goes on with.
LEMMA NextRecs ==
    ASSUME NEW x \in WorkerRec
    PROVE  /\ \A p \in {"thrown", "returned"} : /\ [x EXCEPT !.pc = p] \in WorkerRec
                                                /\ [x EXCEPT !.pc = p].pc = p
           /\ [x EXCEPT !.pc = "open"] \in WorkerRec
           /\ [x EXCEPT !.pc = "open"].pc = "open"
           /\ [x EXCEPT !.pc = "open"].item = x.item
           /\ [x EXCEPT !.pc = "stream", !.intact = TRUE] \in WorkerRec
           /\ [x EXCEPT !.pc = "stream", !.intact = TRUE].pc = "stream"
           /\ [x EXCEPT !.pc = "stream", !.intact = TRUE].item = x.item
           /\ [x EXCEPT !.pc = "stream", !.intact = TRUE].intact
           /\ [x EXCEPT !.pc = "loop", !.item = NoItem, !.intact = FALSE] \in WorkerRec
           /\ [x EXCEPT !.pc = "loop", !.item = NoItem, !.intact = FALSE].pc = "loop"
           /\ [x EXCEPT !.pc = "pause", !.intact = FALSE] \in WorkerRec
           /\ [x EXCEPT !.pc = "pause", !.intact = FALSE].pc = "pause"
           /\ [x EXCEPT !.pc = "pause", !.intact = FALSE].item = x.item
           /\ [x EXCEPT !.pc = "pause", !.intact = FALSE].attempt = x.attempt
           /\ x.attempt < Attempts =>
                /\ [x EXCEPT !.pc = "fetch", !.attempt = @ + 1] \in WorkerRec
                /\ [x EXCEPT !.pc = "fetch", !.attempt = @ + 1].pc = "fetch"
                /\ [x EXCEPT !.pc = "fetch", !.attempt = @ + 1].item = x.item
<1>1. x.attempt < Attempts => x.attempt + 1 \in 1..Attempts
  BY ModsJobAssumption DEF WorkerRec
<1>2. /\ [x EXCEPT !.pc = "fetch", !.attempt = @ + 1].pc = "fetch"
      /\ [x EXCEPT !.pc = "fetch", !.attempt = @ + 1].item = x.item
      /\ x.attempt < Attempts =>
           [x EXCEPT !.pc = "fetch", !.attempt = @ + 1] \in WorkerRec
  BY <1>1 DEF WorkerRec
<1>3. \A p \in {"thrown", "returned"} : /\ [x EXCEPT !.pc = p] \in WorkerRec
                                        /\ [x EXCEPT !.pc = p].pc = p
  BY DEF WorkerRec
<1>7. /\ [x EXCEPT !.pc = "open"] \in WorkerRec
      /\ [x EXCEPT !.pc = "open"].pc = "open"
      /\ [x EXCEPT !.pc = "open"].item = x.item
  BY DEF WorkerRec
<1>4. /\ [x EXCEPT !.pc = "stream", !.intact = TRUE] \in WorkerRec
      /\ [x EXCEPT !.pc = "stream", !.intact = TRUE].pc = "stream"
      /\ [x EXCEPT !.pc = "stream", !.intact = TRUE].item = x.item
      /\ [x EXCEPT !.pc = "stream", !.intact = TRUE].intact
  BY DEF WorkerRec
<1>5. /\ [x EXCEPT !.pc = "loop", !.item = NoItem, !.intact = FALSE] \in WorkerRec
      /\ [x EXCEPT !.pc = "loop", !.item = NoItem, !.intact = FALSE].pc = "loop"
  BY DEF WorkerRec
<1>6. /\ [x EXCEPT !.pc = "pause", !.intact = FALSE] \in WorkerRec
      /\ [x EXCEPT !.pc = "pause", !.intact = FALSE].pc = "pause"
      /\ [x EXCEPT !.pc = "pause", !.intact = FALSE].item = x.item
      /\ [x EXCEPT !.pc = "pause", !.intact = FALSE].attempt = x.attempt
  BY DEF WorkerRec
<1> QED
  BY <1>2, <1>3, <1>4, <1>5, <1>6, <1>7

\* The mods of a plan are mods, each of them once.
LEMMA PlanItems ==
    ASSUME TypeOK, NEW j \in Jobs
    PROVE  /\ Len(plan[j]) \in Nat /\ DOMAIN plan[j] = 1..Len(plan[j])
           /\ \A n \in DOMAIN plan[j] : plan[j][n] \in Items
           /\ \A m, n \in DOMAIN plan[j] : plan[j][m] = plan[j][n] => m = n
<1>1. CASE plan[j] \in Plans
  <2>1. plan[j] \in Seq(Items)
    BY <1>1, ModsJobAssumption
  <2>2. \A m, n \in DOMAIN plan[j] : plan[j][m] = plan[j][n] => m = n
    BY <1>1, ModsJobAssumption
  <2> QED
    BY <2>1, <2>2
<1>2. CASE plan[j] = <<>>
  BY <1>2
<1> QED
  BY <1>1, <1>2 DEF TypeOK

\* A step of one worker; of the others only the file they write may be upset.
Moves(j, k, r) ==
    /\ w' \in [Jobs -> [Workers -> WorkerRec]]
    /\ w'[j][k] = r
    /\ \A a \in Jobs, b \in Workers : a # j \/ b # k =>
         w'[a][b].pc = w[a][b].pc /\ w'[a][b].item = w[a][b].item
                                  /\ w'[a][b].attempt = w[a][b].attempt

\* Set replaces the record of the worker and no other.
LEMMA SetMoves ==
    ASSUME TypeOK, NEW j \in Jobs, NEW k \in Workers, NEW r \in WorkerRec, Set(j, k, r)
    PROVE  /\ Moves(j, k, r)
           /\ \A a \in Jobs, b \in Workers : a # j \/ b # k => w'[a][b] = w[a][b]
BY DEF TypeOK, Set, Moves

\* Upset reaches those only that hold the mod, if the worker has a stream.
LEMMA UpsetMoves ==
    ASSUME TypeOK, NEW j \in Jobs, NEW k \in Workers, NEW r \in WorkerRec, Upset(j, k, r)
    PROVE  /\ Moves(j, k, r)
           /\ \A a \in Jobs, b \in Workers : a # j \/ b # k =>
                /\ w[j][k].pc \notin {"open", "stream"} => w'[a][b] = w[a][b]
                /\ w[a][b].item # w[j][k].item => w'[a][b] = w[a][b]
<1> DEFINE upset == {x \in Jobs \X Workers :
                       /\ w[j][k].pc \in {"open", "stream"}
                       /\ w[x[1]][x[2]].item = w[j][k].item}
           other(a, b) == [w[a][b] EXCEPT !.intact = @ /\ <<a, b>> \notin upset]
<1>1. w' = [a \in Jobs |-> [b \in Workers |-> IF a = j /\ b = k THEN r ELSE other(a, b)]]
  BY DEF Upset
<1>2. ASSUME NEW a \in Jobs, NEW b \in Workers
      PROVE  /\ w[a][b] \in WorkerRec /\ other(a, b) \in WorkerRec
             /\ other(a, b).pc = w[a][b].pc /\ other(a, b).item = w[a][b].item
             /\ other(a, b).attempt = w[a][b].attempt
             /\ <<a, b>> \notin upset => other(a, b) = w[a][b]
  <2>1. w[a][b] \in WorkerRec
    BY DEF TypeOK
  <2>2. (<<a, b>> \notin upset) \in BOOLEAN
    OBVIOUS
  <2> HIDE DEF upset
  <2> QED
    BY <2>1, <2>2 DEF WorkerRec
<1>3. ASSUME NEW a \in Jobs, NEW b \in Workers
      PROVE  <<a, b>> \in upset => /\ w[j][k].pc \in {"open", "stream"}
                                   /\ w[a][b].item = w[j][k].item
  OBVIOUS
<1> HIDE DEF upset, other
<1>4. ASSUME NEW a \in Jobs, NEW b \in Workers
      PROVE  w'[a][b] = IF a = j /\ b = k THEN r ELSE other(a, b)
  BY <1>1
<1>5. w' \in [Jobs -> [Workers -> WorkerRec]]
  BY <1>1, <1>2
<1>6. Moves(j, k, r)
  <2>1. ASSUME NEW a \in Jobs, NEW b \in Workers, a # j \/ b # k
        PROVE  /\ w'[a][b].pc = w[a][b].pc /\ w'[a][b].item = w[a][b].item
               /\ w'[a][b].attempt = w[a][b].attempt
    <3>1. w'[a][b] = other(a, b)
      BY <1>4, <2>1
    <3> QED
      BY <1>2, <3>1
  <2>2. w'[j][k] = r
    BY <1>4
  <2> QED
    BY <1>5, <2>1, <2>2, Zenon DEF Moves
<1>7. ASSUME NEW a \in Jobs, NEW b \in Workers, a # j \/ b # k
      PROVE  /\ w[j][k].pc \notin {"open", "stream"} => w'[a][b] = w[a][b]
             /\ w[a][b].item # w[j][k].item => w'[a][b] = w[a][b]
  <2>1. w'[a][b] = other(a, b)
    BY <1>4, <1>7
  <2> QED
    BY <1>2, <1>3, <2>1
<1> QED
  BY <1>6, <1>7

\* The local variables of a job under a step of one of its workers.
LocalsGrow(j) ==
    /\ next' \in [Jobs -> Nat] /\ next'[j] >= next[j]
    /\ aborted[j] => aborted'[j]
    /\ aborted'[j] <=> firstError'[j] # "none"
    /\ firstError'[j] = "cancelled" => firstError[j] = "cancelled" \/ state.stop_requested
    /\ \A a \in Jobs : a # j => /\ next'[a] = next[a] /\ aborted'[a] = aborted[a]
                                /\ firstError'[a] = firstError[a]

\* What every step of a worker has in common: the next record of it is due to
\* what the job and the requests to stop it are.
WorkerMoves(j, k, r) ==
    /\ Moves(j, k, r) /\ Busy(j, k)
    /\ UNCHANGED <<last, main, plan, servers, raced>>
    /\ state'.running = state.running /\ state'.stop_requested = state.stop_requested
    /\ LocalsGrow(j)
    /\ r.pc # "none"
    /\ r.pc = "thrown" => state.stop_requested
    /\ r.pc = "returned" => aborted'[j] \/ next[j] > Len(plan[j])
    /\ r.pc = "pause" => r.attempt < Attempts
    /\ r.pc \in {"fetch", "open", "stream", "pause"} =>
         \/ Holds(j, k) /\ r.item = w[j][k].item
         \/ /\ next[j] \in DOMAIN plan[j] /\ r.item = plan[j][next[j]]
            /\ next'[j] > next[j]

\* What is said of jobs survives the steps of their workers.
LEMMA WorkerJobwise ==
    ASSUME TypeOK, Jobwise, NEW j \in Jobs, NEW k \in Workers, NEW r \in WorkerRec,
           WorkerMoves(j, k, r)
    PROVE  Jobwise'
<1> USE DEF Jobwise
<1>1. /\ UNCHANGED <<last, main, plan, servers, raced>>
      /\ state'.running = state.running /\ state'.stop_requested = state.stop_requested
      /\ Busy(j, k) /\ w'[j][k] = r
  BY DEF WorkerMoves, Moves
<1>2. ASSUME NEW a \in Jobs, NEW b \in Workers, a # j \/ b # k
      PROVE  /\ w'[a][b].pc = w[a][b].pc /\ w'[a][b].item = w[a][b].item
             /\ w'[a][b].attempt = w[a][b].attempt
  BY <1>2 DEF WorkerMoves, Moves
<1>3. \A a \in Jobs : next[a] \in Nat /\ next'[a] \in Nat /\ next'[a] >= next[a]
  BY DEF WorkerMoves, LocalsGrow, TypeOK
<1>4. main[j] \notin {"none", "plan", "conflicts"}
  BY <1>1 DEF Unborn, Busy
<1>5. OneJob' /\ Unraced'
  BY <1>1 DEF OneJob, Unraced, servers
<1>6. Unborn'
  <2> SUFFICES ASSUME NEW a \in Jobs, main[a] \in {"none", "plan", "conflicts"}
               PROVE  /\ next'[a] = 1 /\ firstError'[a] = "none"
                      /\ \A b \in Workers : w'[a][b].pc = "none"
    BY <1>1 DEF Unborn
  <2>1. a # j
    BY <1>4
  <2>2. next'[a] = next[a] /\ firstError'[a] = firstError[a]
    BY <2>1 DEF WorkerMoves, LocalsGrow
  <2>3. \A b \in Workers : w'[a][b].pc = w[a][b].pc
    BY <1>2, <2>1
  <2> QED
    BY <2>2, <2>3 DEF Unborn
<1>7. Holding'
  <2> SUFFICES ASSUME NEW a \in Jobs, NEW b \in Workers, Holds(a, b)'
               PROVE  /\ \E n \in DOMAIN plan[a] : n < next'[a] /\ plan[a][n] = w'[a][b].item
                      /\ w'[a][b].pc = "pause" => w'[a][b].attempt < Attempts
    BY <1>1 DEF Holding
  <2>1. ASSUME Holds(a, b)
        PROVE  \E n \in DOMAIN plan[a] : n < next'[a] /\ plan[a][n] = w[a][b].item
    <3>1. PICK n \in DOMAIN plan[a] : n < next[a] /\ plan[a][n] = w[a][b].item
      BY <2>1 DEF Holding
    <3>2. n \in Nat
      BY PlanItems
    <3>3. n < next'[a]
      BY <1>3, <3>1, <3>2
    <3> QED
      BY <3>1, <3>3
  <2>2. CASE a # j \/ b # k
    BY <1>2, <2>1, <2>2 DEF Holds, Holding
  <2>3. CASE a = j /\ b = k
    <3>1. r.pc \in {"fetch", "open", "stream", "pause"}
      BY <1>1, <2>3 DEF Holds
    <3>2. r.pc = "pause" => r.attempt < Attempts
      BY DEF WorkerMoves
    <3>3. CASE Holds(j, k) /\ r.item = w[j][k].item
      BY <1>1, <2>1, <2>3, <3>2, <3>3
    <3>4. CASE /\ next[j] \in DOMAIN plan[j] /\ r.item = plan[j][next[j]]
               /\ next'[j] > next[j]
      BY <1>1, <1>3, <2>3, <3>2, <3>4
    <3> QED
      BY <3>1, <3>3, <3>4 DEF WorkerMoves
  <2> QED
    BY <2>2, <2>3
<1>8. Distinct'
  <2>1. ASSUME NEW b \in Workers, b # k, Holds(j, b), r.pc \in {"fetch", "open", "stream", "pause"}
        PROVE  w[j][b].item # r.item
    <3>1. CASE Holds(j, k) /\ r.item = w[j][k].item
      BY <2>1, <3>1 DEF Distinct
    <3>2. CASE next[j] \in DOMAIN plan[j] /\ r.item = plan[j][next[j]]
      <4>1. PICK n \in DOMAIN plan[j] : n < next[j] /\ plan[j][n] = w[j][b].item
        BY <2>1 DEF Holding
      <4>2. n # next[j]
        BY <1>3, <4>1
      <4> QED
        BY <3>2, <4>1, <4>2, PlanItems
    <3> QED
      BY <2>1, <3>1, <3>2 DEF WorkerMoves
  <2> SUFFICES ASSUME NEW a \in Jobs, NEW b \in Workers, NEW c \in Workers,
                      Holds(a, b)', Holds(a, c)', w'[a][b].item = w'[a][c].item
               PROVE  b = c
    BY DEF Distinct
  <2>2. CASE a = j /\ b = k /\ c # k
    <3>1. r.pc \in {"fetch", "open", "stream", "pause"} /\ Holds(j, c) /\ w'[j][c].item = w[j][c].item
      BY <1>1, <1>2, <2>2 DEF Holds
    <3> QED
      BY <1>1, <2>1, <2>2, <3>1
  <2>3. CASE a = j /\ c = k /\ b # k
    <3>1. r.pc \in {"fetch", "open", "stream", "pause"} /\ Holds(j, b) /\ w'[j][b].item = w[j][b].item
      BY <1>1, <1>2, <2>3 DEF Holds
    <3> QED
      BY <1>1, <2>1, <2>3, <3>1
  <2>4. CASE (a # j \/ b # k) /\ (a # j \/ c # k)
    BY <1>2, <2>4 DEF Holds, Distinct
  <2> QED
    BY <2>2, <2>3, <2>4
<1>9. Asked'
  <2> SUFFICES ASSUME NEW a \in Jobs, main[a] = "pool"
               PROVE  /\ \A b \in Workers : w'[a][b].pc = "thrown" => state.stop_requested
                      /\ firstError'[a] = "cancelled" => state.stop_requested
    BY <1>1 DEF Asked
  <2>1. \A b \in Workers : w'[a][b].pc = "thrown" => state.stop_requested
    BY <1>1, <1>2 DEF Asked, WorkerMoves
  <2>2. firstError'[a] = "cancelled" => state.stop_requested
    BY DEF Asked, WorkerMoves, LocalsGrow
  <2> QED
    BY <2>1, <2>2
<1>10. Rest'
  <2> SUFFICES ASSUME NEW a \in Jobs
               PROVE  /\ aborted'[a] <=> firstError'[a] # "none"
                      /\ main[a] = "pool" => \E b \in Workers : w'[a][b].pc # "none"
                      /\ next'[a] > 0
                      /\ \A b \in Workers : w'[a][b].pc = "returned" =>
                           aborted'[a] \/ next'[a] > Len(plan[a])
    BY <1>1 DEF Rest
  <2>1. aborted'[a] <=> firstError'[a] # "none"
    BY DEF Rest, WorkerMoves, LocalsGrow
  <2>2. main[a] = "pool" => \E b \in Workers : w'[a][b].pc # "none"
    BY <1>1, <1>2 DEF Rest, WorkerMoves
  <2>3. next'[a] > 0
    BY <1>3 DEF Rest
  <2>4. ASSUME NEW b \in Workers, w'[a][b].pc = "returned"
        PROVE  aborted'[a] \/ next'[a] > Len(plan[a])
    <3>1. aborted'[a] \/ next[a] > Len(plan[a])
      BY <1>1, <1>2, <2>4 DEF Rest, WorkerMoves, LocalsGrow
    <3> QED
      BY <1>3, <3>1, PlanItems
  <2> QED
    BY <2>1, <2>2, <2>3, <2>4
<1> QED
  BY <1>5, <1>6, <1>7, <1>8, <1>9, <1>10

-----------------------------------------------------------------------------
(* The files under a step of a worker, as long as none was left behind.    *)

\* The mod stays held, by a worker that has written a part of it or nothing.
KeepsMod(j, k, r) ==
    /\ Holds(j, k) /\ r.pc \in {"fetch", "open", "stream", "pause"} /\ r.item = w[j][k].item
    /\ file'[r.item] = IF r.pc = "stream" \/ r.item \in litter' THEN "partial" ELSE "absent"
    /\ r.pc = "stream" => (r.intact <=> r.item \notin litter')
    /\ state'.summary = state.summary /\ old' = old
    /\ next' = next

\* The next mod of the plan is taken.
TakesMod(j, k, r) ==
    /\ ~Holds(j, k) /\ next[j] \in DOMAIN plan[j] /\ next'[j] = next[j] + 1
    /\ r.pc = "fetch" /\ r.item = plan[j][next[j]]
    /\ file' = file /\ litter' = litter
    /\ state'.summary = state.summary /\ old' = old

\* The mod is installed, whole but for litter, and its older release is gone.
InstallsMod(j, k, r) ==
    /\ Holds(j, k) /\ r.pc = "loop"
    /\ file'[w[j][k].item] = IF w[j][k].item \in litter' THEN "partial" ELSE "whole"
    /\ w[j][k].item \in listed'
    /\ state'.summary[w[j][k].item] = state.summary[w[j][k].item] + 1
    /\ old' = old \ {w[j][k].item}
    /\ next' = next

\* The mod is given up, and what was written of it deleted, or it is litter.
GivesUpMod(j, k, r) ==
    /\ w[j][k].item \in litter' => file'[w[j][k].item] = "partial"
    /\ Holds(j, k) /\ r.pc = "returned" /\ firstError'[j] # "none"
    /\ state'.summary = state.summary /\ old' = old
    /\ next' = next

\* A worker with no mod leaves.
Leaves(j, k, r) ==
    /\ ~Holds(j, k) /\ r.pc \in {"returned", "thrown"}
    /\ r.pc = "thrown" => \A l \in Workers : l # k => ~Busy(j, l)
    /\ file' = file /\ litter' = litter
    /\ state'.summary = state.summary /\ old' = old
    /\ next' = next

\* Nothing else changes: no other mod, and no worker of another mod.
Elsewhere(j, k) ==
    /\ \A i \in Items : ~(Holds(j, k) /\ i = w[j][k].item) =>
         /\ file'[i] = file[i] /\ (i \in litter' <=> i \in litter)
         /\ state'.summary[i] = state.summary[i]
    /\ listed \subseteq listed'
    /\ \A a \in Jobs, b \in Workers :
         (a # j \/ b # k) /\ ~(Holds(j, k) /\ w[a][b].item = w[j][k].item) =>
           w'[a][b] = w[a][b]

\* What is said of the files survives the steps of workers.
LEMMA WorkerCalm ==
    ASSUME TypeOK, Jobwise, Calm, NEW j \in Jobs, NEW k \in Workers, NEW r \in WorkerRec,
           WorkerMoves(j, k, r), Elsewhere(j, k), TypeOK',
           \/ KeepsMod(j, k, r) \/ TakesMod(j, k, r) \/ InstallsMod(j, k, r)
           \/ GivesUpMod(j, k, r) \/ Leaves(j, k, r)
    PROVE  Calm'
<1> USE DEF Jobwise, Calm
<1> DEFINE i == w[j][k].item
<1>1. /\ UNCHANGED <<last, main, plan>> /\ Busy(j, k) /\ w'[j][k] = r /\ LocalsGrow(j)
  BY DEF WorkerMoves, Moves
<1>2. ASSUME NEW a \in Jobs, NEW b \in Workers, a # j \/ b # k
      PROVE  /\ w'[a][b].pc = w[a][b].pc /\ w'[a][b].item = w[a][b].item
             /\ ~(Holds(j, k) /\ w[a][b].item = i) => w'[a][b] = w[a][b]
  BY <1>2 DEF WorkerMoves, Moves, Elsewhere
<1>3. main[j] = "pool" /\ j = last
  BY <1>1 DEF Solo, OneJob, Active
<1>4. ASSUME NEW a \in Jobs, NEW b \in Workers, Busy(a, b) PROVE a = j
  BY <1>3, <1>4 DEF Solo, OneJob, Active
<1>5. \A x \in Items : ~(Holds(j, k) /\ x = i) =>
        /\ file'[x] = file[x] /\ (x \in litter' <=> x \in litter)
        /\ state'.summary[x] = state.summary[x]
        /\ x \in old' <=> x \in old
  BY DEF Elsewhere, KeepsMod, TakesMod, InstallsMod, GivesUpMod, Leaves
<1>6. Holds(j, k) =>
        /\ i \in Items /\ state.summary[i] = 0 /\ (i \in Held => i \in old)
        /\ \E n \in DOMAIN plan[j] : n < next[j] /\ plan[j][n] = i
  <2> SUFFICES ASSUME Holds(j, k)
               PROVE  /\ i \in Items /\ state.summary[i] = 0 /\ (i \in Held => i \in old)
                      /\ \E n \in DOMAIN plan[j] : n < next[j] /\ plan[j][n] = i
    OBVIOUS
  <2>1. PICK n \in DOMAIN plan[j] : n < next[j] /\ plan[j][n] = i
    BY DEF Holding
  <2>2. i \in Items
    BY <2>1, PlanItems
  <2>3. state.summary[i] = 0 /\ (i \in Held => i \in old)
    BY DEF AtWork
  <2> QED
    BY <2>1, <2>2, <2>3
<1>7. ASSUME NEW n \in DOMAIN plan[j], n >= next[j]
      PROVE  plan[j][n] \in Items /\ ~(Holds(j, k) /\ plan[j][n] = i)
  <2>1. ASSUME NEW m \in DOMAIN plan[j], m < next[j] PROVE plan[j][n] # plan[j][m]
    <3>1. m \in Nat /\ n \in Nat /\ next[j] \in Nat
      BY PlanItems DEF TypeOK
    <3>2. m # n
      BY <1>7, <2>1, <3>1
    <3> QED
      BY <3>2, PlanItems
  <2> QED
    BY <1>6, <2>1, PlanItems
<1>8. Solo'
  <2> SUFFICES ASSUME NEW a \in Jobs, NEW b \in Workers, Busy(a, b)'
               PROVE  main[a] = "pool"
    BY <1>1 DEF Solo
  <2> QED
    BY <1>1, <1>2, <1>3 DEF Solo, Busy
<1>9. ThrownAlone'
  <2> SUFFICES ASSUME NEW a \in Jobs, NEW b \in Workers, NEW c \in Workers,
                      w'[a][b].pc = "thrown", Busy(a, c)'
               PROVE  FALSE
    BY DEF ThrownAlone
  <2>1. a = j
    BY <1>1, <1>2, <1>4 DEF Busy
  <2>2. CASE b = k
    <3>1. r.pc = "thrown" /\ c # k
      BY <1>1, <2>1, <2>2 DEF Busy
    <3>2. ~Busy(j, c)
      BY <3>1 DEF KeepsMod, TakesMod, InstallsMod, GivesUpMod, Leaves
    <3> QED
      BY <1>2, <2>1, <3>1, <3>2 DEF Busy
  <2>3. CASE b # k
    BY <1>1, <1>2, <2>1, <2>3 DEF ThrownAlone
  <2> QED
    BY <2>2, <2>3
<1>10. ToCome'
  <2>1. \A a \in Jobs : main[a] \in {"plan", "conflicts", "pool"} => a = j
    BY <1>3 DEF OneJob, Active
  <2>2. ASSUME NEW n \in DOMAIN plan[j], n >= next'[j]
        PROVE  NotYet(plan[j][n])'
    <3>1. n \in Nat /\ next[j] \in Nat /\ next'[j] \in Nat /\ next'[j] >= next[j]
      BY <1>1, PlanItems DEF LocalsGrow, TypeOK
    <3>2. n >= next[j]
      BY <2>2, <3>1
    <3>3. NotYet(plan[j][n])
      BY <1>3, <3>2 DEF ToCome
    <3>4. plan'[j][n] = plan[j][n]
      BY <1>1
    <3> QED
      BY <1>5, <1>7, <3>2, <3>3, <3>4 DEF NotYet
  <2> QED
    BY <1>1, <1>3, <2>1, <2>2 DEF ToCome
<1>11. AtWork'
  <2> SUFFICES ASSUME NEW a \in Jobs, NEW b \in Workers, Holds(a, b)'
               PROVE  /\ w'[a][b].item \in Held => w'[a][b].item \in old'
                      /\ state'.summary[w'[a][b].item] = 0
                      /\ w'[a][b].item \notin litter' =>
                           file'[w'[a][b].item] = IF w'[a][b].pc = "stream" THEN "partial"
                                                  ELSE "absent"
                      /\ w'[a][b].pc = "stream" =>
                           (w'[a][b].intact <=> w'[a][b].item \notin litter')
    BY DEF AtWork
  <2>1. CASE a # j \/ b # k
    <3>1. Holds(a, b) /\ a = j
      BY <1>2, <1>4, <2>1 DEF Holds, Busy
    <3>2. ~(Holds(j, k) /\ w[a][b].item = i)
      BY <2>1, <3>1 DEF Distinct
    <3>3. w'[a][b] = w[a][b]
      BY <1>2, <2>1, <3>2
    <3>4. w[a][b].item \in Items
      BY <3>1, PlanItems DEF Holding
    <3>5. /\ file'[w[a][b].item] = file[w[a][b].item]
          /\ w[a][b].item \in litter' <=> w[a][b].item \in litter
          /\ w[a][b].item \in old' <=> w[a][b].item \in old
          /\ state'.summary[w[a][b].item] = state.summary[w[a][b].item]
      BY <1>5, <3>2, <3>4
    <3> QED
      BY <3>1, <3>3, <3>5 DEF AtWork
  <2>2. CASE a = j /\ b = k
    <3>1. r.pc \in {"fetch", "open", "stream", "pause"}
      BY <1>1, <2>2 DEF Holds
    <3>2. CASE KeepsMod(j, k, r)
      BY <1>1, <1>6, <2>2, <3>2 DEF KeepsMod
    <3>3. CASE TakesMod(j, k, r)
      <4>1. NotYet(r.item)
        BY <1>3, <3>3 DEF TakesMod, ToCome, TypeOK
      <4> QED
        BY <1>1, <2>2, <3>3, <4>1 DEF TakesMod, NotYet
    <3> QED
      BY <3>1, <3>2, <3>3 DEF InstallsMod, GivesUpMod, Leaves
  <2> QED
    BY <2>1, <2>2
<1>12. TakenIsKept'
  <2> SUFFICES ASSUME firstError'[j] = "none", NEW n \in DOMAIN plan[j], n < next'[j]
               PROVE  \/ Installed(plan[j][n])'
                      \/ \E b \in Workers : Holds(j, b)' /\ w'[j][b].item = plan[j][n]
    <3>1. \A a \in Jobs : main[a] = "pool" => a = j
      BY <1>3 DEF OneJob, Active
    <3> QED
      BY <1>1, <3>1 DEF TakenIsKept
  <2>1. firstError[j] = "none"
    BY <1>1 DEF LocalsGrow, Rest
  <2>2. n \in Nat /\ next[j] \in Nat /\ plan[j][n] \in Items
    BY PlanItems DEF TypeOK
  <2>3. CASE n < next[j] /\ Installed(plan[j][n])
    <3>1. ~(Holds(j, k) /\ plan[j][n] = i)
      BY <1>6, <2>3 DEF Installed
    <3>2. listed \subseteq listed'
      BY DEF Elsewhere
    <3>3. Installed(plan[j][n])'
      BY <1>1, <1>5, <2>2, <2>3, <3>1, <3>2 DEF Installed
    <3> QED
      BY <3>3
  <2>4. ASSUME NEW b \in Workers, n < next[j], Holds(j, b), w[j][b].item = plan[j][n]
        PROVE  \/ Installed(plan[j][n])'
               \/ \E c \in Workers : Holds(j, c)' /\ w'[j][c].item = plan[j][n]
    <3>1. CASE b # k
      BY <1>2, <2>4, <3>1 DEF Holds
    <3>2. CASE b = k /\ KeepsMod(j, k, r)
      BY <1>1, <2>4, <3>2 DEF KeepsMod, Holds
    <3>3. CASE b = k /\ InstallsMod(j, k, r)
      BY <1>1, <1>6, <2>4, <3>3 DEF InstallsMod, Installed
    <3> QED
      BY <2>4, <3>1, <3>2, <3>3 DEF TakesMod, GivesUpMod, Leaves
  <2>5. CASE ~(n < next[j])
    <3>1. TakesMod(j, k, r)
      BY <2>5 DEF KeepsMod, InstallsMod, GivesUpMod, Leaves
    <3>2. n = next[j]
      BY <2>2, <2>5, <3>1 DEF TakesMod
    <3> QED
      BY <1>1, <3>1, <3>2 DEF TakesMod, Holds
  <2> QED
    BY <1>3, <2>1, <2>3, <2>4, <2>5 DEF TakenIsKept
<1>13. AllKept'
  <2> SUFFICES ASSUME NEW x \in Held PROVE x \in old' \/ file'[x] = "whole" \/ x \in litter'
    BY DEF AllKept
  <2>1. x \in Items /\ (x \in old \/ file[x] = "whole" \/ x \in litter)
    BY ModsJobAssumption DEF AllKept
  <2>2. CASE ~(Holds(j, k) /\ x = i)
    BY <1>5, <2>1, <2>2
  <2>3. CASE Holds(j, k) /\ x = i
    BY <1>6, <2>1, <2>3 DEF KeepsMod, TakesMod, InstallsMod, GivesUpMod, Leaves
  <2> QED
    BY <2>2, <2>3
<1>15. LitterIsPartial'
  <2> SUFFICES ASSUME NEW x \in litter' PROVE file'[x] = "partial"
    BY DEF LitterIsPartial
  <2>1. CASE x \in Items /\ ~(Holds(j, k) /\ x = i)
    BY <1>5, <2>1 DEF LitterIsPartial
  <2>2. CASE Holds(j, k) /\ x = i
    BY <2>2 DEF KeepsMod, TakesMod, InstallsMod, GivesUpMod, Leaves
  <2>3. x \in Items
    BY DEF TypeOK
  <2> QED
    BY <2>1, <2>2, <2>3
<1>14. AllDone'
  BY <1>1, <1>3 DEF AllDone
<1> QED
  BY <1>8, <1>9, <1>10, <1>11, <1>12, <1>13, <1>14, <1>15

-----------------------------------------------------------------------------
(* The steps of a worker, one lemma for each.                              *)

\* A zip that is not whole has a worker who writes it, if those of other mods are
\* left alone.
LEMMA PartialKeeps ==
    ASSUME TypeOK, PartialIsWritten, NEW j \in Jobs, NEW k \in Workers,
           NEW r \in WorkerRec, Moves(j, k, r),
           \A i \in Items : file'[i] = "partial" /\ i \notin litter' =>
             \/ r.pc = "stream" /\ r.item = i /\ r.intact
             \/ /\ file[i] = "partial" /\ i \notin litter
                /\ ~(w[j][k].pc = "stream" /\ w[j][k].item = i /\ w[j][k].intact)
                /\ \A a \in Jobs, b \in Workers :
                     (a # j \/ b # k) /\ w[a][b].item = i => w'[a][b] = w[a][b]
    PROVE  PartialIsWritten'
<1> SUFFICES ASSUME NEW i \in Items, file'[i] = "partial", i \notin litter'
             PROVE  \E a \in Jobs, b \in Workers :
                      w'[a][b].pc = "stream" /\ w'[a][b].item = i /\ w'[a][b].intact
  BY DEF PartialIsWritten
<1>1. CASE r.pc = "stream" /\ r.item = i /\ r.intact
  BY <1>1 DEF Moves
<1>2. CASE /\ file[i] = "partial" /\ i \notin litter
           /\ ~(w[j][k].pc = "stream" /\ w[j][k].item = i /\ w[j][k].intact)
           /\ \A a \in Jobs, b \in Workers :
                (a # j \/ b # k) /\ w[a][b].item = i => w'[a][b] = w[a][b]
  <2>1. PICK a \in Jobs, b \in Workers :
          w[a][b].pc = "stream" /\ w[a][b].item = i /\ w[a][b].intact
    BY <1>2 DEF PartialIsWritten
  <2>2. w'[a][b] = w[a][b]
    BY <1>2, <2>1
  <2> QED
    BY <2>1, <2>2
<1> QED
  BY <1>1, <1>2

\* The parts of the invariant together.
LEMMA WorkerKeeps ==
    ASSUME IInv, NEW j \in Jobs, NEW k \in Workers, NEW r \in WorkerRec,
           WorkerMoves(j, k, r), TypeOK', PartialIsWritten', torn => torn',
           ~torn' /\ Calm =>
             /\ Elsewhere(j, k)
             /\ \/ KeepsMod(j, k, r) \/ TakesMod(j, k, r) \/ InstallsMod(j, k, r)
                \/ GivesUpMod(j, k, r) \/ Leaves(j, k, r)
    PROVE  IInv'
<1>1. Jobwise'
  BY WorkerJobwise DEF IInv
<1>2. ~torn' => Calm'
  BY WorkerCalm DEF IInv
<1> QED
  BY <1>1, <1>2 DEF IInv

\* Local variables that stay as they are.
LEMMA LocalsSame ==
    ASSUME TypeOK, Jobwise, NEW j \in Jobs, UNCHANGED <<next, aborted, firstError>>
    PROVE  LocalsGrow(j)
BY DEF LocalsGrow, TypeOK, Jobwise, Rest

\* The mod a worker holds is a mod.
LEMMA HeldItem ==
    ASSUME TypeOK, Jobwise, NEW j \in Jobs, NEW k \in Workers, Holds(j, k)
    PROVE  w[j][k].item \in Items
<1>1. PICK n \in DOMAIN plan[j] : plan[j][n] = w[j][k].item
  BY DEF Jobwise, Holding
<1> QED
  BY <1>1, PlanItems

\* A worker that has nothing more to take, or is not to take more, returns.
LEMMA ReturnsKeeps ==
    ASSUME IInv, NEW j \in Jobs, NEW k \in Workers, WorkerReturns(j, k)
    PROVE  IInv'
<1> DEFINE r == [w[j][k] EXCEPT !.pc = "returned"]
<1>1. /\ w[j][k].pc = "loop" /\ (aborted[j] \/ next[j] > Len(plan[j])) /\ Set(j, k, r)
      /\ UNCHANGED <<state, last, main, locals, disk, servers, history>>
  BY DEF WorkerReturns
<1>2. r \in WorkerRec /\ r.pc = "returned"
  <2>1. w[j][k] \in WorkerRec
    BY DEF IInv, TypeOK
  <2> QED
    BY <2>1, NextRecs
<1> HIDE DEF r
<1>3. /\ Moves(j, k, r)
      /\ \A a \in Jobs, b \in Workers : a # j \/ b # k => w'[a][b] = w[a][b]
  BY <1>1, <1>2, SetMoves DEF IInv
<1>4. WorkerMoves(j, k, r)
  BY <1>1, <1>2, <1>3, LocalsSame DEF IInv, WorkerMoves, Busy, locals, history
<1>5. TypeOK'
  BY <1>1, <1>3 DEF IInv, TypeOK, Moves, locals, disk, servers, history
<1>6. PartialIsWritten'
  BY <1>1, <1>2, <1>3, PartialKeeps DEF IInv, disk, history
<1>7. Elsewhere(j, k) /\ Leaves(j, k, r)
  BY <1>1, <1>2, <1>3 DEF Elsewhere, Leaves, Holds, locals, disk, history
<1> QED
  BY <1>1, <1>2, <1>4, <1>5, <1>6, <1>7, WorkerKeeps DEF history

\* A worker that throws leaves no other one behind, or else torn is set.
LEMMA CancelledKeeps ==
    ASSUME IInv, NEW j \in Jobs, NEW k \in Workers, WorkerCancelled(j, k)
    PROVE  IInv'
<1> DEFINE r == [w[j][k] EXCEPT !.pc = "thrown"]
<1>1. /\ w[j][k].pc = "loop" /\ state.stop_requested /\ Set(j, k, r)
      /\ torn' = (torn \/ \E l \in Workers \ {k} : Busy(j, l))
      /\ UNCHANGED <<state, last, main, locals, disk, servers, raced, litter>>
  BY DEF WorkerCancelled
<1>2. r \in WorkerRec /\ r.pc = "thrown"
  <2>1. w[j][k] \in WorkerRec
    BY DEF IInv, TypeOK
  <2> QED
    BY <2>1, NextRecs
<1> HIDE DEF r
<1>3. /\ Moves(j, k, r)
      /\ \A a \in Jobs, b \in Workers : a # j \/ b # k => w'[a][b] = w[a][b]
  BY <1>1, <1>2, SetMoves DEF IInv
<1>4. WorkerMoves(j, k, r)
  BY <1>1, <1>2, <1>3, LocalsSame DEF IInv, WorkerMoves, Busy, locals
<1>5. torn' \in BOOLEAN /\ (torn => torn')
  BY <1>1 DEF IInv, TypeOK
<1>6. TypeOK'
  BY <1>1, <1>3, <1>5 DEF IInv, TypeOK, Moves, locals, disk, servers
<1>7. PartialIsWritten'
  BY <1>1, <1>2, <1>3, PartialKeeps DEF IInv, disk
<1>8. ~torn' => Elsewhere(j, k) /\ Leaves(j, k, r)
  BY <1>1, <1>2, <1>3 DEF Elsewhere, Leaves, Holds, locals, disk
<1> QED
  BY <1>2, <1>4, <1>5, <1>6, <1>7, <1>8, WorkerKeeps

\* The next mod of the plan is taken.
LEMMA TakesKeeps ==
    ASSUME IInv, NEW j \in Jobs, NEW k \in Workers, WorkerTakes(j, k)
    PROVE  IInv'
<1> DEFINE r == Fetching(plan[j][next[j]])
<1>1. /\ w[j][k].pc = "loop" /\ next[j] <= Len(plan[j]) /\ Set(j, k, r)
      /\ next' = [next EXCEPT ![j] = @ + 1]
      /\ state' = [state EXCEPT !.phase = "download"]
      /\ UNCHANGED <<last, main, plan, aborted, firstError, disk, servers, history>>
  BY DEF WorkerTakes
<1>2. next[j] \in DOMAIN plan[j]
  BY <1>1, PlanItems DEF IInv, TypeOK, Jobwise, Rest
<1>3. r \in WorkerRec /\ r.pc = "fetch" /\ r.item = plan[j][next[j]]
  BY <1>2, PlanItems, WorkerRecs DEF IInv
<1> HIDE DEF r
<1>4. /\ Moves(j, k, r)
      /\ \A a \in Jobs, b \in Workers : a # j \/ b # k => w'[a][b] = w[a][b]
  BY <1>1, <1>3, SetMoves DEF IInv
<1>5. /\ state' \in StateRec /\ state'.running = state.running
      /\ state'.stop_requested = state.stop_requested /\ state'.summary = state.summary
  BY <1>1, StateFields DEF IInv, TypeOK
<1>6. /\ next' \in [Jobs -> Nat] /\ next'[j] = next[j] + 1 /\ next[j] \in Nat
      /\ \A a \in Jobs : a # j => next'[a] = next[a]
  BY <1>1 DEF IInv, TypeOK
<1>7. LocalsGrow(j)
  BY <1>1, <1>6 DEF LocalsGrow, IInv, Jobwise, Rest
<1>8. next'[j] > next[j]
  BY <1>6
<1>9. WorkerMoves(j, k, r)
  BY <1>1, <1>2, <1>3, <1>4, <1>5, <1>7, <1>8 DEF WorkerMoves, Busy, history
<1>10. TypeOK'
  BY <1>1, <1>4, <1>5, <1>6 DEF IInv, TypeOK, Moves, disk, servers, history
<1>11. PartialIsWritten'
  BY <1>1, <1>3, <1>4, PartialKeeps DEF IInv, disk, history
<1>12. Elsewhere(j, k) /\ TakesMod(j, k, r)
  BY <1>1, <1>2, <1>3, <1>4, <1>5, <1>6 DEF Elsewhere, TakesMod, Holds, disk, history
<1> QED
  BY <1>1, <1>3, <1>9, <1>10, <1>11, <1>12, WorkerKeeps DEF history

\* A worker has its answer, and a stream that will open the zip.
LEMMA AnsweredKeeps ==
    ASSUME IInv, NEW j \in Jobs, NEW k \in Workers, Answered(j, k)
    PROVE  IInv'
<1> DEFINE i == w[j][k].item
           r == [w[j][k] EXCEPT !.pc = "open"]
<1>1. /\ w[j][k].pc = "fetch" /\ Set(j, k, r)
      /\ state' = state \/ state' = [state EXCEPT !.phase = "download"]
      /\ UNCHANGED <<last, main, locals, disk, servers, history>>
  BY DEF Answered
<1>2. i \in Items /\ Holds(j, k)
  BY <1>1, HeldItem DEF IInv, Holds
<1>3. r \in WorkerRec /\ r.pc = "open" /\ r.item = i
  <2>1. w[j][k] \in WorkerRec
    BY DEF IInv, TypeOK
  <2> QED
    BY <2>1, NextRecs
<1> HIDE DEF r
<1>4. /\ Moves(j, k, r)
      /\ \A a \in Jobs, b \in Workers : a # j \/ b # k => w'[a][b] = w[a][b]
  BY <1>1, <1>3, SetMoves DEF IInv
<1> HIDE DEF i
<1>5. /\ state' \in StateRec /\ state'.running = state.running
      /\ state'.stop_requested = state.stop_requested /\ state'.summary = state.summary
  BY <1>1, PhaseOnly DEF IInv, TypeOK
<1>6. WorkerMoves(j, k, r)
  BY <1>1, <1>2, <1>3, <1>4, <1>5, LocalsSame
     DEF IInv, WorkerMoves, Busy, locals, history, i
<1>7. TypeOK'
  BY <1>1, <1>4, <1>5 DEF IInv, TypeOK, Moves, locals, disk, servers, history
<1>8. PartialIsWritten'
  BY <1>1, <1>3, <1>4, PartialKeeps DEF IInv, disk, history
<1>9. Calm => Elsewhere(j, k) /\ KeepsMod(j, k, r)
  <2> SUFFICES ASSUME Calm
               PROVE  Elsewhere(j, k) /\ KeepsMod(j, k, r)
    OBVIOUS
  <2>1. file[i] = IF i \in litter THEN "partial" ELSE "absent"
    BY <1>1, <1>2 DEF Calm, AtWork, LitterIsPartial, i
  <2>2. file' = file /\ litter' = litter /\ old' = old /\ listed' = listed /\ next' = next
    BY <1>1 DEF locals, disk, history
  <2>3. KeepsMod(j, k, r)
    BY <1>2, <1>3, <1>5, <2>1, <2>2 DEF KeepsMod, i
  <2>4. Elsewhere(j, k)
    BY <1>4, <1>5, <2>2 DEF Elsewhere
  <2> QED
    BY <2>3, <2>4
<1> QED
  BY <1>1, <1>3, <1>6, <1>7, <1>8, <1>9, WorkerKeeps DEF history

\* The stream of a worker opens the zip.
LEMMA OpensKeeps ==
    ASSUME IInv, NEW j \in Jobs, NEW k \in Workers, Opens(j, k)
    PROVE  IInv'
<1> DEFINE i == w[j][k].item
           r == [w[j][k] EXCEPT !.pc = "stream", !.intact = TRUE]
<1>1. /\ w[j][k].pc = "open" /\ file' = [file EXCEPT ![i] = "partial"] /\ Upset(j, k, r)
      /\ litter' = litter \ {i}
      /\ UNCHANGED <<state, last, main, locals, late, old, listed, servers, torn, raced>>
  BY DEF Opens
<1>2. r \in WorkerRec /\ r.pc = "stream" /\ r.item = i /\ r.intact
  <2>1. w[j][k] \in WorkerRec
    BY DEF IInv, TypeOK
  <2> QED
    BY <2>1, NextRecs
<1>3. i \in Items /\ Holds(j, k)
  BY <1>1, HeldItem DEF IInv, Holds
<1> HIDE DEF r
<1>4. /\ Moves(j, k, r)
      /\ \A a \in Jobs, b \in Workers :
           (a # j \/ b # k) /\ w[a][b].item # i => w'[a][b] = w[a][b]
  BY <1>1, <1>2, UpsetMoves DEF IInv
<1> HIDE DEF i
<1>5. /\ file' \in [Items -> {"absent", "partial", "whole"}] /\ file'[i] = "partial"
      /\ \A x \in Items : x # i => file'[x] = file[x]
      /\ litter' \subseteq Items
  BY <1>1, <1>3 DEF IInv, TypeOK
<1>6. WorkerMoves(j, k, r)
  BY <1>1, <1>2, <1>3, <1>4, LocalsSame DEF IInv, WorkerMoves, Busy, locals, i
<1>7. TypeOK'
  BY <1>1, <1>4, <1>5 DEF IInv, TypeOK, Moves, locals, servers
<1>8. PartialIsWritten'
  BY <1>1, <1>2, <1>4, <1>5, PartialKeeps DEF IInv
<1>9. Elsewhere(j, k) /\ KeepsMod(j, k, r)
  BY <1>1, <1>2, <1>3, <1>4, <1>5 DEF Elsewhere, KeepsMod, locals, i
<1> QED
  BY <1>1, <1>2, <1>6, <1>7, <1>8, <1>9, WorkerKeeps

\* The state once a mod is in the summary.
LEMMA SummaryFields ==
    ASSUME state \in StateRec, NEW i \in Items, NEW ph \in {"install", "download"},
           state' = [state EXCEPT !.summary[i] = @ + 1, !.phase = ph]
    PROVE  /\ state' \in StateRec /\ state'.running = state.running
           /\ state'.stop_requested = state.stop_requested
           /\ state'.summary[i] = state.summary[i] + 1
           /\ \A x \in Items : x # i => state'.summary[x] = state.summary[x]
<1>1. state.summary \in [Items -> Nat] /\ state.summary[i] \in Nat
  BY DEF StateRec
<1>2. state.summary[i] + 1 \in Nat
  BY <1>1
<1>3. [state.summary EXCEPT ![i] = @ + 1] \in [Items -> Nat]
  BY <1>1, <1>2
<1>4. state'.summary = [state.summary EXCEPT ![i] = @ + 1]
  BY DEF StateRec
<1>5. state' \in StateRec /\ state'.running = state.running
      /\ state'.stop_requested = state.stop_requested
  BY <1>3 DEF StateRec
<1> QED
  BY <1>1, <1>4, <1>5

\* All bytes of a mod are there.
LEMMA CompletesKeeps ==
    ASSUME IInv, NEW j \in Jobs, NEW k \in Workers, Completes(j, k)
    PROVE  IInv'
<1> DEFINE i == w[j][k].item
           r == [w[j][k] EXCEPT !.pc = "loop", !.item = NoItem, !.intact = FALSE]
           ph == IF Sequential(j) THEN "install" ELSE "download"
<1>1. /\ w[j][k].pc = "stream" /\ Set(j, k, r)
      /\ file' = [file EXCEPT ![i] = IF w[j][k].intact THEN "whole" ELSE @]
      /\ old' = old \ {i} /\ listed' = listed \cup {i}
      /\ state' = [state EXCEPT !.summary[i] = @ + 1, !.phase = ph]
      /\ UNCHANGED <<last, main, locals, late, servers, history>>
  BY DEF Completes
<1>2. r \in WorkerRec /\ r.pc = "loop"
  <2>1. w[j][k] \in WorkerRec
    BY DEF IInv, TypeOK
  <2> QED
    BY <2>1, NextRecs
<1>3. i \in Items /\ Holds(j, k)
  BY <1>1, HeldItem DEF IInv, Holds
<1>4. ph \in {"install", "download"}
  OBVIOUS
<1> HIDE DEF r, ph
<1>5. /\ Moves(j, k, r)
      /\ \A a \in Jobs, b \in Workers : a # j \/ b # k => w'[a][b] = w[a][b]
  BY <1>1, <1>2, SetMoves DEF IInv
<1> HIDE DEF i
<1>6. /\ state' \in StateRec /\ state'.running = state.running
      /\ state'.stop_requested = state.stop_requested
      /\ state'.summary[i] = state.summary[i] + 1
      /\ \A x \in Items : x # i => state'.summary[x] = state.summary[x]
  <2>1. state \in StateRec
    BY DEF IInv, TypeOK
  <2> QED
    BY <1>1, <1>3, <1>4, <2>1, SummaryFields
<1>7. /\ file' \in [Items -> {"absent", "partial", "whole"}]
      /\ file'[i] = IF w[j][k].intact THEN "whole" ELSE file[i]
      /\ \A x \in Items : x # i => file'[x] = file[x]
  BY <1>1, <1>3 DEF IInv, TypeOK
<1>8. WorkerMoves(j, k, r)
  BY <1>1, <1>2, <1>5, <1>6, LocalsSame DEF IInv, WorkerMoves, Busy, locals, history
<1>9. TypeOK'
  BY <1>1, <1>3, <1>5, <1>6, <1>7 DEF IInv, TypeOK, Moves, locals, servers, history
<1>10. PartialIsWritten'
  BY <1>1, <1>2, <1>5, <1>7, PartialKeeps DEF IInv, i, history
<1>11. Calm => Elsewhere(j, k) /\ InstallsMod(j, k, r)
  <2> SUFFICES ASSUME Calm
               PROVE  Elsewhere(j, k) /\ InstallsMod(j, k, r)
    OBVIOUS
  <2>1. w[j][k].intact <=> i \notin litter
    BY <1>1, <1>3 DEF Calm, AtWork, i
  <2>4. file'[i] = IF i \in litter THEN "partial" ELSE "whole"
    BY <1>7, <2>1 DEF Calm, LitterIsPartial
  <2>2. Elsewhere(j, k)
    BY <1>3, <1>5, <1>6, <1>7, <1>1 DEF Elsewhere, i, history
  <2>3. InstallsMod(j, k, r)
    BY <1>1, <1>2, <1>3, <1>6, <2>4 DEF InstallsMod, locals, i, history
  <2> QED
    BY <2>2, <2>3
<1> QED
  BY <1>1, <1>2, <1>8, <1>9, <1>10, <1>11, WorkerKeeps DEF history

\* What is left of the files once a worker deletes what it wrote.
LEMMA UnlinkFiles ==
    ASSUME TypeOK, NEW j \in Jobs, NEW k \in Workers, NEW r \in WorkerRec,
           w[j][k].item \in Items, Unlink(j, k), Upset(j, k, r), PartialIsWritten
    PROVE  /\ file' \in [Items -> {"absent", "partial", "whole"}]
           /\ late' \subseteq Items \X Jobs \X (1..Attempts)
           /\ litter' \subseteq litter
           /\ w[j][k].pc \in {"open", "stream"} =>
                file'[w[j][k].item] = "absent" /\ w[j][k].item \notin litter'
           /\ w[j][k].pc \notin {"open", "stream"} => file' = file /\ litter' = litter
           /\ \A x \in Items : x # w[j][k].item =>
                file'[x] = file[x] /\ (x \in litter' <=> x \in litter)
           /\ PartialIsWritten'
<1> DEFINE i == w[j][k].item
           s == <<i, j, w[j][k].attempt>>
<1>1. CASE w[j][k].pc \in {"open", "stream"}
  <2>1. /\ file' = [file EXCEPT ![i] = "absent"] /\ litter' = litter \ {i}
        /\ late' = late \/ late' = late \cup {s}
    BY <1>1 DEF Unlink
  <2>2. /\ Moves(j, k, r)
        /\ \A a \in Jobs, b \in Workers :
             (a # j \/ b # k) /\ w[a][b].item # i => w'[a][b] = w[a][b]
    BY UpsetMoves
  <2>3. /\ file' \in [Items -> {"absent", "partial", "whole"}] /\ file'[i] = "absent"
        /\ \A x \in Items : x # i => file'[x] = file[x]
    BY <2>1 DEF TypeOK
  <2>4. w[j][k].attempt \in 1..Attempts
    <3>1. w[j][k] \in WorkerRec
      BY DEF TypeOK
    <3> QED
      BY <3>1 DEF WorkerRec
  <2>5. s \in Items \X Jobs \X (1..Attempts)
    BY <2>4
  <2>6. late' \subseteq Items \X Jobs \X (1..Attempts)
    BY <2>1, <2>5 DEF TypeOK
  <2>7. PartialIsWritten'
    BY <2>1, <2>2, <2>3, PartialKeeps
  <2> QED
    BY <1>1, <2>1, <2>3, <2>6, <2>7
<1>2. CASE w[j][k].pc \notin {"open", "stream"}
  <2>1. file' = file /\ late' = late /\ litter' = litter
    BY <1>2 DEF Unlink
  <2>2. /\ Moves(j, k, r)
        /\ \A a \in Jobs, b \in Workers : (a # j \/ b # k) => w'[a][b] = w[a][b]
    BY <1>2, UpsetMoves
  <2>3. PartialIsWritten'
    BY <1>2, <2>1, <2>2, PartialKeeps
  <2> QED
    BY <1>2, <2>1, <2>3 DEF TypeOK
<1> QED
  BY <1>1, <1>2

\* An attempt that fails and is to be followed by another.
LEMMA RetriesKeeps ==
    ASSUME IInv, NEW j \in Jobs, NEW k \in Workers, Retries(j, k)
    PROVE  IInv'
<1> DEFINE i == w[j][k].item
           r == [w[j][k] EXCEPT !.pc = "pause", !.intact = FALSE]
<1>1. /\ w[j][k].pc \in {"fetch", "open", "stream"} /\ w[j][k].attempt < Attempts
      /\ Unlink(j, k) /\ Upset(j, k, r)
      /\ UNCHANGED <<state, last, main, locals, old, listed, servers, torn, raced>>
  BY DEF Retries
<1>2. r \in WorkerRec /\ r.pc = "pause" /\ r.item = i /\ r.attempt = w[j][k].attempt
  <2>1. w[j][k] \in WorkerRec
    BY DEF IInv, TypeOK
  <2> QED
    BY <2>1, NextRecs
<1>3. i \in Items /\ Holds(j, k)
  BY <1>1, HeldItem DEF IInv, Holds
<1> HIDE DEF r
<1>4. /\ Moves(j, k, r)
      /\ \A a \in Jobs, b \in Workers :
           (a # j \/ b # k) /\ w[a][b].item # i => w'[a][b] = w[a][b]
  BY <1>1, <1>2, UpsetMoves DEF IInv
<1>5. /\ file' \in [Items -> {"absent", "partial", "whole"}]
      /\ late' \subseteq Items \X Jobs \X (1..Attempts) /\ litter' \subseteq litter
      /\ w[j][k].pc \in {"open", "stream"} => file'[i] = "absent" /\ i \notin litter'
      /\ w[j][k].pc \notin {"open", "stream"} => file' = file /\ litter' = litter
      /\ \A x \in Items : x # i => file'[x] = file[x] /\ (x \in litter' <=> x \in litter)
      /\ PartialIsWritten'
  BY <1>1, <1>2, <1>3, UnlinkFiles DEF IInv
<1> HIDE DEF i
<1>6. WorkerMoves(j, k, r)
  BY <1>1, <1>2, <1>3, <1>4, LocalsSame DEF IInv, WorkerMoves, Busy, locals, i
<1>7. TypeOK'
  BY <1>1, <1>4, <1>5 DEF IInv, TypeOK, Moves, locals, servers
<1>8. Calm => Elsewhere(j, k) /\ KeepsMod(j, k, r)
  <2> SUFFICES ASSUME Calm
               PROVE  Elsewhere(j, k) /\ KeepsMod(j, k, r)
    OBVIOUS
  <2>1. w[j][k].pc # "stream" => file[i] = IF i \in litter THEN "partial" ELSE "absent"
    BY <1>3 DEF Calm, AtWork, LitterIsPartial, i
  <2>2. file'[i] = IF i \in litter' THEN "partial" ELSE "absent"
    BY <1>1, <1>5, <2>1
  <2>3. KeepsMod(j, k, r)
    BY <1>1, <1>2, <1>3, <2>2 DEF KeepsMod, locals, i
  <2>4. Elsewhere(j, k)
    BY <1>1, <1>3, <1>4, <1>5 DEF Elsewhere, locals, i
  <2> QED
    BY <2>3, <2>4
<1> QED
  BY <1>1, <1>2, <1>5, <1>6, <1>7, <1>8, WorkerKeeps

\* The pause is over.
LEMMA ResumesKeeps ==
    ASSUME IInv, NEW j \in Jobs, NEW k \in Workers, Resumes(j, k)
    PROVE  IInv'
<1> DEFINE i == w[j][k].item
           r == [w[j][k] EXCEPT !.pc = "fetch", !.attempt = @ + 1]
<1>1. /\ w[j][k].pc = "pause" /\ Set(j, k, r)
      /\ state' = state \/ state' = [state EXCEPT !.phase = "download"]
      /\ UNCHANGED <<last, main, locals, disk, servers, history>>
  BY DEF Resumes
<1>2. i \in Items /\ Holds(j, k)
  BY <1>1, HeldItem DEF IInv, Holds
<1>3. r \in WorkerRec /\ r.pc = "fetch" /\ r.item = i
  <2>1. w[j][k] \in WorkerRec
    BY DEF IInv, TypeOK
  <2>2. w[j][k].attempt < Attempts
    BY <1>1, <1>2 DEF IInv, Jobwise, Holding
  <2> QED
    BY <2>1, <2>2, NextRecs
<1> HIDE DEF r
<1>4. /\ Moves(j, k, r)
      /\ \A a \in Jobs, b \in Workers : a # j \/ b # k => w'[a][b] = w[a][b]
  BY <1>1, <1>3, SetMoves DEF IInv
<1> HIDE DEF i
<1>5. /\ state' \in StateRec /\ state'.running = state.running
      /\ state'.stop_requested = state.stop_requested /\ state'.summary = state.summary
  BY <1>1, PhaseOnly DEF IInv, TypeOK
<1>6. WorkerMoves(j, k, r)
  BY <1>1, <1>2, <1>3, <1>4, <1>5, LocalsSame
     DEF IInv, WorkerMoves, Busy, locals, history, i
<1>7. TypeOK'
  BY <1>1, <1>4, <1>5 DEF IInv, TypeOK, Moves, locals, disk, servers, history
<1>8. PartialIsWritten'
  BY <1>1, <1>3, <1>4, PartialKeeps DEF IInv, disk, history
<1>9. Calm => Elsewhere(j, k) /\ KeepsMod(j, k, r)
  <2> SUFFICES ASSUME Calm
               PROVE  Elsewhere(j, k) /\ KeepsMod(j, k, r)
    OBVIOUS
  <2>1. file[i] = IF i \in litter THEN "partial" ELSE "absent"
    BY <1>1, <1>2 DEF Calm, AtWork, LitterIsPartial, i
  <2>2. file' = file /\ litter' = litter /\ old' = old /\ listed' = listed /\ next' = next
    BY <1>1 DEF locals, disk, history
  <2>3. KeepsMod(j, k, r)
    BY <1>2, <1>3, <1>5, <2>1, <2>2 DEF KeepsMod, i
  <2>4. Elsewhere(j, k)
    BY <1>4, <1>5, <2>2 DEF Elsewhere
  <2> QED
    BY <2>3, <2>4
<1> QED
  BY <1>1, <1>3, <1>6, <1>7, <1>8, <1>9, WorkerKeeps DEF history

\* A worker that gives up tells the others.
LEMMA GivesUpKeeps ==
    ASSUME IInv, NEW j \in Jobs, NEW k \in Workers,
           w[j][k].pc \in {"fetch", "open", "stream", "pause"}, Unlink(j, k),
           NEW error \in {"cancelled", "error"}, GivesUp(j, k, error),
           error = "cancelled" => state.stop_requested,
           UNCHANGED <<state, last, main, plan, next, old, listed, servers, torn, raced>>
    PROVE  IInv'
<1> DEFINE i == w[j][k].item
           r == [NoWorker EXCEPT !.pc = "returned"]
<1>1. /\ Upset(j, k, r) /\ aborted' = [aborted EXCEPT ![j] = TRUE]
      /\ firstError' = [firstError EXCEPT ![j] = error]
  BY DEF GivesUp
<1>2. r \in WorkerRec /\ r.pc = "returned"
  BY WorkerRecs
<1>3. i \in Items /\ Holds(j, k)
  BY HeldItem DEF IInv, Holds
<1> HIDE DEF r
<1>4. /\ Moves(j, k, r)
      /\ \A a \in Jobs, b \in Workers :
           /\ (a # j \/ b # k) /\ w[a][b].item # i => w'[a][b] = w[a][b]
  BY <1>1, <1>2, UpsetMoves DEF IInv
<1>5. /\ file' \in [Items -> {"absent", "partial", "whole"}]
      /\ late' \subseteq Items \X Jobs \X (1..Attempts) /\ litter' \subseteq litter
      /\ w[j][k].pc \in {"open", "stream"} => i \notin litter'
      /\ w[j][k].pc \notin {"open", "stream"} => file' = file
      /\ \A x \in Items : x # i => file'[x] = file[x] /\ (x \in litter' <=> x \in litter)
      /\ PartialIsWritten'
  BY <1>1, <1>2, <1>3, UnlinkFiles DEF IInv
<1> HIDE DEF i
<1>6. /\ aborted' \in [Jobs -> BOOLEAN] /\ aborted'[j]
      /\ firstError' \in [Jobs -> {"none", "cancelled", "error"}] /\ firstError'[j] = error
      /\ \A a \in Jobs : a # j => aborted'[a] = aborted[a] /\ firstError'[a] = firstError[a]
  BY <1>1 DEF IInv, TypeOK
<1>7. LocalsGrow(j)
  BY <1>6 DEF LocalsGrow, IInv, TypeOK
<1>8. WorkerMoves(j, k, r)
  BY <1>2, <1>4, <1>6, <1>7 DEF WorkerMoves, Busy
<1>9. TypeOK'
  BY <1>4, <1>5, <1>6 DEF IInv, TypeOK, Moves, servers
<1>10. Calm => Elsewhere(j, k) /\ GivesUpMod(j, k, r)
  <2> SUFFICES ASSUME Calm
               PROVE  Elsewhere(j, k) /\ GivesUpMod(j, k, r)
    OBVIOUS
  <2>1. i \in litter' => file'[i] = "partial"
    BY <1>5 DEF Calm, LitterIsPartial
  <2> QED
    BY <1>2, <1>3, <1>4, <1>5, <1>6, <2>1 DEF Elsewhere, GivesUpMod, i
<1> QED
  BY <1>2, <1>5, <1>8, <1>9, <1>10, WorkerKeeps

\* A worker whose last write fails leaves the zip as it is.
LEMMA EndFailsKeeps ==
    ASSUME IInv, NEW j \in Jobs, NEW k \in Workers, EndFails(j, k)
    PROVE  IInv'
<1> DEFINE i == w[j][k].item
           r == [NoWorker EXCEPT !.pc = "returned"]
<1>1. /\ w[j][k].pc = "stream" /\ Set(j, k, r)
      /\ aborted' = [aborted EXCEPT ![j] = TRUE]
      /\ firstError' = [firstError EXCEPT ![j] = "error"]
      /\ litter' = IF w[j][k].intact THEN litter \cup {i} ELSE litter
      /\ UNCHANGED <<state, last, main, plan, next, disk, servers, torn, raced>>
  BY DEF EndFails
<1>2. r \in WorkerRec /\ r.pc = "returned"
  BY WorkerRecs
<1>3. i \in Items /\ Holds(j, k)
  BY <1>1, HeldItem DEF IInv, Holds
<1> HIDE DEF r
<1>4. /\ Moves(j, k, r)
      /\ \A a \in Jobs, b \in Workers : a # j \/ b # k => w'[a][b] = w[a][b]
  BY <1>1, <1>2, SetMoves DEF IInv
<1> HIDE DEF i
<1>5. /\ aborted' \in [Jobs -> BOOLEAN] /\ aborted'[j]
      /\ firstError' \in [Jobs -> {"none", "cancelled", "error"}] /\ firstError'[j] = "error"
      /\ \A a \in Jobs : a # j => aborted'[a] = aborted[a] /\ firstError'[a] = firstError[a]
  BY <1>1 DEF IInv, TypeOK
<1>6. /\ file' = file /\ late' = late /\ old' = old /\ listed' = listed
      /\ litter' \subseteq Items
      /\ \A x \in Items : x # i => (x \in litter' <=> x \in litter)
  BY <1>1, <1>3 DEF IInv, TypeOK, disk
<1>7. LocalsGrow(j)
  BY <1>1, <1>5 DEF LocalsGrow, IInv, TypeOK
<1>8. WorkerMoves(j, k, r)
  BY <1>1, <1>2, <1>4, <1>5, <1>7 DEF WorkerMoves, Busy
<1>9. TypeOK'
  BY <1>1, <1>4, <1>5, <1>6 DEF IInv, TypeOK, Moves, servers
<1>10. PartialIsWritten'
  <2>1. \A x \in Items : x \notin litter' =>
          x \notin litter /\ ~(w[j][k].item = x /\ w[j][k].intact)
    BY <1>1 DEF i
  <2> QED
    BY <1>2, <1>4, <1>6, <2>1, PartialKeeps DEF IInv
<1>11. Calm => Elsewhere(j, k) /\ GivesUpMod(j, k, r)
  <2> SUFFICES ASSUME Calm
               PROVE  Elsewhere(j, k) /\ GivesUpMod(j, k, r)
    OBVIOUS
  <2>1. file[i] = "partial"
    BY <1>1, <1>3 DEF Calm, AtWork, LitterIsPartial, i
  <2> QED
    BY <1>1, <1>2, <1>3, <1>4, <1>5, <1>6, <2>1 DEF Elsewhere, GivesUpMod, i
<1> QED
  BY <1>1, <1>2, <1>8, <1>9, <1>10, <1>11, WorkerKeeps

\* Every step of a worker keeps the invariant.
LEMMA WorkerStepKeeps ==
    ASSUME IInv, NEW j \in Jobs, NEW k \in Workers, WorkerStep(j, k)
    PROVE  IInv'
<1>1. CASE Fails(j, k)
  BY <1>1, GivesUpKeeps DEF Fails
<1>2. CASE Aborts(j, k)
  BY <1>2, GivesUpKeeps DEF Aborts
<1> QED
  BY <1>1, <1>2, ReturnsKeeps, CancelledKeeps, TakesKeeps, AnsweredKeeps, OpensKeeps,
     CompletesKeeps, RetriesKeeps, ResumesKeeps, EndFailsKeeps DEF WorkerStep

\* A stream that was given up opens its zip: that is litter, and nobody's.
LEMMA LateOpensKeeps ==
    ASSUME IInv, NEW s \in late, LateOpens(s)
    PROVE  IInv'
<1> USE DEF IInv, Jobwise
<1> DEFINE i == s[1]
           emptied(a, b) == [w[a][b] EXCEPT !.intact = @ /\ w[a][b].item # i]
<1>1. /\ late' = late \ {s} /\ file' = [file EXCEPT ![i] = "partial"]
      /\ litter' = litter \cup {i}
      /\ w' = [a \in Jobs |-> [b \in Workers |-> emptied(a, b)]]
      /\ UNCHANGED <<state, last, main, plan, next, aborted, firstError>>
      /\ UNCHANGED <<old, listed, server, starting, torn, raced>>
  BY DEF LateOpens, locals, servers
<1>2. i \in Items
  BY DEF TypeOK
<1>3. ASSUME NEW a \in Jobs, NEW b \in Workers
      PROVE  /\ emptied(a, b) \in WorkerRec
             /\ emptied(a, b).pc = w[a][b].pc /\ emptied(a, b).item = w[a][b].item
             /\ emptied(a, b).attempt = w[a][b].attempt
             /\ w[a][b].item = i => ~emptied(a, b).intact
             /\ w[a][b].item # i => emptied(a, b) = w[a][b]
  <2>1. w[a][b] \in WorkerRec
    BY DEF TypeOK
  <2> QED
    BY <2>1 DEF WorkerRec
<1> HIDE DEF i, emptied
<1>4. w' \in [Jobs -> [Workers -> WorkerRec]]
  BY <1>1, <1>3
<1>5. ASSUME NEW a \in Jobs, NEW b \in Workers
      PROVE  /\ w'[a][b].pc = w[a][b].pc /\ w'[a][b].item = w[a][b].item
             /\ w'[a][b].attempt = w[a][b].attempt
             /\ w[a][b].item = i => ~w'[a][b].intact
             /\ w[a][b].item # i => w'[a][b] = w[a][b]
  <2>1. w'[a][b] = emptied(a, b)
    BY <1>1
  <2> QED
    BY <1>3, <2>1
<1>6. /\ file' \in [Items -> {"absent", "partial", "whole"}] /\ file'[i] = "partial"
      /\ \A x \in Items : x # i => file'[x] = file[x] /\ (x \in litter' <=> x \in litter)
      /\ litter' \subseteq Items /\ i \in litter' /\ litter \subseteq litter'
  BY <1>1, <1>2 DEF TypeOK
<1>7. TypeOK'
  BY <1>1, <1>4, <1>6 DEF TypeOK
<1>8. OneJob' /\ Unborn' /\ Asked' /\ Rest' /\ Unraced'
  BY <1>1, <1>5 DEF OneJob, Unborn, Asked, Rest, Unraced
<1>9. Holding' /\ Distinct'
  BY <1>1, <1>5 DEF Holding, Distinct, Holds
<1>10. PartialIsWritten'
  <2> SUFFICES ASSUME NEW x \in Items, file'[x] = "partial", x \notin litter'
               PROVE  \E a \in Jobs, b \in Workers :
                        w'[a][b].pc = "stream" /\ w'[a][b].item = x /\ w'[a][b].intact
    BY DEF PartialIsWritten
  <2>1. x # i /\ file[x] = "partial" /\ x \notin litter
    BY <1>6
  <2>2. PICK a \in Jobs, b \in Workers :
          w[a][b].pc = "stream" /\ w[a][b].item = x /\ w[a][b].intact
    BY <2>1 DEF PartialIsWritten
  <2> QED
    BY <1>5, <2>1, <2>2
<1>11. ASSUME Calm PROVE Calm'
  <2> USE <1>11 DEF Calm
  <2>1. Solo' /\ ThrownAlone'
    BY <1>1, <1>5 DEF Solo, ThrownAlone, Busy
  <2>2. LitterIsPartial'
    BY <1>6 DEF LitterIsPartial, TypeOK
  <2>3. ASSUME NEW x \in Items
        PROVE  /\ NotYet(x) => NotYet(x)'
               /\ Installed(x) => Installed(x)'
    BY <1>1, <1>6 DEF NotYet, Installed
  <2>4. \A a \in Jobs : \A n \in DOMAIN plan[a] : plan[a][n] \in Items
    BY PlanItems
  <2>5. ToCome'
    BY <1>1, <2>3, <2>4 DEF ToCome, NotYet
  <2>6. AtWork'
    <3> SUFFICES ASSUME NEW a \in Jobs, NEW b \in Workers, Holds(a, b)'
                 PROVE  /\ w[a][b].item \in Held => w[a][b].item \in old
                        /\ state.summary[w[a][b].item] = 0
                        /\ w[a][b].item \notin litter' =>
                             file'[w[a][b].item] = IF w[a][b].pc = "stream" THEN "partial"
                                                   ELSE "absent"
                        /\ w[a][b].pc = "stream" =>
                             (w'[a][b].intact <=> w[a][b].item \notin litter')
      BY <1>1, <1>5 DEF AtWork
    <3>1. Holds(a, b) /\ w[a][b].item \in Items
      BY <1>5, HeldItem DEF Holds
    <3>2. CASE w[a][b].item = i
      BY <1>5, <1>6, <3>1, <3>2 DEF AtWork
    <3>3. CASE w[a][b].item # i
      BY <1>5, <1>6, <3>1, <3>3 DEF AtWork
    <3> QED
      BY <3>2, <3>3
  <2>7. TakenIsKept'
    <3> SUFFICES ASSUME NEW a \in Jobs, main[a] = "pool", firstError[a] = "none",
                        NEW n \in DOMAIN plan[a], n < next[a]
                 PROVE  \/ Installed(plan[a][n])'
                        \/ \E b \in Workers : Holds(a, b)' /\ w'[a][b].item = plan[a][n]
      BY <1>1 DEF TakenIsKept
    <3>1. CASE Installed(plan[a][n])
      BY <1>1, <1>6, <2>4, <3>1 DEF Installed
    <3>2. ASSUME NEW b \in Workers, Holds(a, b), w[a][b].item = plan[a][n]
          PROVE  Holds(a, b)' /\ w'[a][b].item = plan[a][n]
      BY <1>5, <3>2 DEF Holds
    <3> QED
      BY <3>1, <3>2 DEF TakenIsKept
  <2>8. AllKept'
    BY <1>1, <1>6, ModsJobAssumption DEF AllKept
  <2>9. AllDone'
    BY <1>1, <2>3, <2>4 DEF AllDone
  <2> QED
    BY <2>1, <2>2, <2>5, <2>6, <2>7, <2>8, <2>9
<1> QED
  BY <1>1, <1>7, <1>8, <1>9, <1>10, <1>11

-----------------------------------------------------------------------------
(* The steps of jobs, and the requests.                                    *)

\* A job ends.  Where no worker was left behind, it has none at work, and if it is
\* done all of its plan is installed.
LEMMA EndKeeps ==
    ASSUME IInv, NEW j \in Jobs, NEW v \in Verdicts, main[j] \in Active, End(j, v),
           UNCHANGED <<last, locals, w, disk, servers, history>>,
           Calm => /\ \A k \in Workers : ~Busy(j, k)
                   /\ v = "done" => \A n \in DOMAIN plan[j] : Installed(plan[j][n])
    PROVE  IInv'
<1> USE DEF IInv, Jobwise
<1>1. /\ state' \in StateRec /\ ~state'.running /\ state'.summary = state.summary
  BY StateFields DEF End, TypeOK
<1>2. main' = [main EXCEPT ![j] = v] /\ main'[j] = v
  BY DEF End, TypeOK
<1>3. \A a \in Jobs : a # j => main'[a] = main[a]
  BY <1>2 DEF TypeOK
<1>4. /\ v \notin {"none", "plan", "conflicts", "pool"} /\ v \notin Active
      /\ v \in {"none"} \cup Active \cup Verdicts
  BY DEF Verdicts, Active
<1>5. j = last /\ \A a \in Jobs : main[a] \in Active => a = j
  BY DEF OneJob
<1>6. UNCHANGED <<last, plan, next, aborted, firstError, w, file, late, old, listed>>
      /\ UNCHANGED <<server, starting, torn, raced, litter>>
  BY DEF locals, disk, servers, history
<1>7. TypeOK'
  BY <1>1, <1>2, <1>4, <1>6 DEF TypeOK
<1>8. OneJob'
  <2>1. main[j] # "none"
    BY DEF Active
  <2> QED
    BY <1>1, <1>2, <1>3, <1>4, <1>5, <1>6, <2>1 DEF OneJob
<1>9. Unborn' /\ Asked' /\ Rest'
  BY <1>2, <1>3, <1>4, <1>5, <1>6 DEF Unborn, Asked, Rest, Active
<1>10. Holding' /\ Distinct' /\ Unraced' /\ PartialIsWritten'
  BY <1>1, <1>6 DEF Holding, Distinct, Unraced, Holds, PartialIsWritten
<1>11. ASSUME Calm PROVE Calm'
  <2> USE DEF Calm
  <2>1. \A a \in Jobs : main'[a] \notin {"plan", "conflicts", "pool"}
    BY <1>2, <1>3, <1>4, <1>5 DEF Active
  <2>2. Solo'
    <3>1. \A a \in Jobs, k \in Workers : ~Busy(a, k)
      BY <1>5, <1>11 DEF Solo, Active
    <3> QED
      BY <1>6, <3>1 DEF Solo, Busy
  <2>3. ThrownAlone' /\ LitterIsPartial' /\ AtWork' /\ AllKept'
    BY <1>1, <1>6, <1>11 DEF ThrownAlone, LitterIsPartial, AtWork, AllKept, Busy, Holds
  <2>4. ToCome' /\ TakenIsKept'
    BY <2>1 DEF ToCome, TakenIsKept
  <2>5. AllDone'
    BY <1>1, <1>2, <1>5, <1>6, <1>11 DEF AllDone, Installed
  <2> QED
    BY <2>2, <2>3, <2>4, <2>5
<1> QED
  BY <1>6, <1>7, <1>8, <1>9, <1>10, <1>11

\* A job that has not reached its downloads has no worker.
LEMMA EarlyEndKeeps ==
    ASSUME IInv, NEW j \in Jobs, NEW v \in Verdicts,
           main[j] \in {"plan", "conflicts"}, End(j, v),
           UNCHANGED <<last, locals, w, disk, servers, history>>,
           v = "done" => plan[j] = <<>>
    PROVE  IInv'
<1>1. \A k \in Workers : ~Busy(j, k)
  BY DEF IInv, Jobwise, Unborn, Busy
<1>2. v = "done" => \A n \in DOMAIN plan[j] : FALSE
  OBVIOUS
<1> QED
  BY <1>1, <1>2, EndKeeps DEF Active

\* The plan is made.
LEMMA PlanEndsKeeps ==
    ASSUME IInv, NEW j \in Jobs, PlanEnds(j)
    PROVE  IInv'
<1> USE DEF IInv, Jobwise
<1>1. PICK p \in Plans : /\ \A n \in DOMAIN p : file[p[n]] = "absent"
                         /\ plan' = [plan EXCEPT ![j] = p]
  BY DEF PlanEnds
<1>2. /\ main[j] = "plan" /\ main' = [main EXCEPT ![j] = "conflicts"]
      /\ UNCHANGED <<state, last, next, aborted, firstError, w>>
      /\ UNCHANGED <<file, late, old, listed, server, starting, torn, raced, litter>>
  BY DEF PlanEnds, disk, servers, history
<1>3. /\ plan'[j] = p /\ plan' \in [Jobs -> Plans \cup {<<>>}]
      /\ \A a \in Jobs : a # j => plan'[a] = plan[a]
  BY <1>1 DEF TypeOK
<1>4. /\ main'[j] = "conflicts"
      /\ main' \in [Jobs -> {"none"} \cup Active \cup Verdicts]
      /\ \A a \in Jobs : a # j => main'[a] = main[a]
  BY <1>2 DEF TypeOK, Active
<1>5. \A k \in Workers : w[j][k].pc = "none"
  BY <1>2 DEF Unborn
<1>6. j = last /\ state.running /\ \A a \in Jobs : main[a] \in Active => a = j
  BY <1>2 DEF OneJob, Active
<1>7. TypeOK'
  BY <1>2, <1>3, <1>4 DEF TypeOK
<1>8. OneJob'
  BY <1>2, <1>4, <1>6 DEF OneJob, Active
<1>9. Unborn' /\ Asked' /\ Unraced'
  BY <1>2, <1>4 DEF Unborn, Asked, Unraced
<1>10. Holding'
  BY <1>2, <1>3, <1>5 DEF Holding, Holds
<1>11. Distinct' /\ PartialIsWritten'
  BY <1>2 DEF Distinct, Holds, PartialIsWritten
<1>12. Rest'
  BY <1>2, <1>3, <1>4, <1>5 DEF Rest
<1>13. ASSUME Calm PROVE Calm'
  <2> USE <1>13 DEF Calm
  <2>1. Solo'
    BY <1>2, <1>4, <1>5 DEF Solo, Busy
  <2>2. ThrownAlone' /\ LitterIsPartial' /\ AtWork' /\ AllKept'
    BY <1>2 DEF ThrownAlone, LitterIsPartial, AtWork, AllKept, Busy, Holds
  <2>3. ToCome'
    <3>1. \A n \in DOMAIN p : p[n] \in Items
      BY <1>3, <1>7, PlanItems, ModsJobAssumption
    <3>2. \A i \in Items : state.summary[i] = 0
      BY <1>2 DEF ToCome
    <3>3. \A a \in Jobs : main'[a] \in {"plan", "conflicts", "pool"} => a = j
      BY <1>4, <1>6 DEF Active
    <3>4. ASSUME NEW n \in DOMAIN p PROVE NotYet(p[n])
      <4>1. file[p[n]] = "absent" /\ p[n] \in Items
        BY <1>1, <3>1
      <4>2. p[n] \in Held => p[n] \in old
        BY <4>1 DEF AllKept, LitterIsPartial
      <4> QED
        BY <3>2, <4>1, <4>2 DEF NotYet
    <3>5. \A n \in DOMAIN p : NotYet(p[n])'
      BY <1>2, <3>4 DEF NotYet
    <3> QED
      BY <1>2, <1>3, <1>4, <3>3, <3>5 DEF ToCome
  <2>4. TakenIsKept'
    BY <1>2, <1>4, <1>6 DEF TakenIsKept, Active
  <2>5. AllDone'
    BY <1>2, <1>4, <1>6 DEF AllDone
  <2> QED
    BY <2>1, <2>2, <2>3, <2>4, <2>5
<1> QED
  BY <1>2, <1>7, <1>8, <1>9, <1>10, <1>11, <1>12, <1>13

\* The workers of a job begin.
LEMMA PoolStartsKeeps ==
    ASSUME IInv, NEW j \in Jobs, NEW m \in Workers, PoolStarts(j, m)
    PROVE  IInv'
<1> USE DEF IInv, Jobwise
<1> DEFINE r(k) == CASE k > m -> NoWorker
                     [] k <= m /\ state.stop_requested -> [NoWorker EXCEPT !.pc = "thrown"]
                     [] OTHER -> Fetching(plan[j][k])
<1>1. /\ main[j] = "conflicts" /\ m <= Len(plan[j])
      /\ main' = [main EXCEPT ![j] = "pool"]
      /\ state' = state \/ state' = [state EXCEPT !.phase = "download"]
      /\ w' = [w EXCEPT ![j] = [k \in Workers |-> r(k)]]
      /\ next' = [next EXCEPT ![j] = IF state.stop_requested THEN 1 ELSE m + 1]
      /\ UNCHANGED <<last, plan, aborted, firstError>>
      /\ UNCHANGED <<file, late, old, listed, server, starting, torn, raced, litter>>
  <2>1. state' = state \/ state' = [state EXCEPT !.phase = "download"]
    <3>1. state' = [state EXCEPT !.phase =
                      IF state.stop_requested /\ m = 1 THEN @ ELSE "download"]
      BY DEF PoolStarts
    <3>2. [state EXCEPT !.phase = @] = state
      BY DEF TypeOK, StateRec
    <3> QED
      BY <3>1, <3>2
  <2> QED
    BY <2>1 DEF PoolStarts, disk, servers, history
<1>2. /\ m \in Nat /\ m > 0 /\ Workers \subseteq Nat
      /\ \A k \in Workers : k <= m => k \in DOMAIN plan[j]
  BY <1>1, PlanItems, ModsJobAssumption DEF Workers
<1>3. ASSUME NEW k \in Workers
      PROVE  /\ k > m => r(k) = NoWorker
             /\ k <= m /\ state.stop_requested => r(k) = [NoWorker EXCEPT !.pc = "thrown"]
             /\ k <= m /\ ~state.stop_requested => r(k) = Fetching(plan[j][k])
  BY <1>2
<1>4. ASSUME NEW k \in Workers
      PROVE  /\ r(k) \in WorkerRec
             /\ k > m => r(k).pc = "none"
             /\ k <= m /\ state.stop_requested => r(k).pc = "thrown"
             /\ k <= m /\ ~state.stop_requested =>
                  r(k).pc = "fetch" /\ r(k).item = plan[j][k]
  <2>1. CASE k > m
    BY <1>3, <2>1, <1>2, WorkerRecs
  <2>2. CASE k <= m /\ state.stop_requested
    BY <1>3, <2>2, <1>2, WorkerRecs
  <2>3. CASE k <= m /\ ~state.stop_requested
    BY <1>2, <1>3, <2>3, WorkerRecs, PlanItems
  <2> QED
    BY <1>2, <2>1, <2>2, <2>3
<1> HIDE DEF r
<1>5. /\ w' \in [Jobs -> [Workers -> WorkerRec]]
      /\ \A k \in Workers : w'[j][k] = r(k)
      /\ \A a \in Jobs : a # j => w'[a] = w[a]
  BY <1>1, <1>4 DEF TypeOK
<1>6. /\ state' \in StateRec /\ state'.running = state.running
      /\ state'.stop_requested = state.stop_requested /\ state'.summary = state.summary
  BY <1>1, PhaseOnly DEF TypeOK
<1>7. /\ next' \in [Jobs -> Nat] /\ next'[j] = IF state.stop_requested THEN 1 ELSE m + 1
      /\ \A a \in Jobs : a # j => next'[a] = next[a]
  BY <1>1, <1>2 DEF TypeOK
<1>8. /\ main'[j] = "pool"
      /\ main' \in [Jobs -> {"none"} \cup Active \cup Verdicts]
      /\ \A a \in Jobs : a # j => main'[a] = main[a]
  BY <1>1 DEF TypeOK, Active
<1>9. j = last /\ state.running /\ \A a \in Jobs : main[a] \in Active => a = j
  BY <1>1 DEF OneJob, Active
<1>10. /\ next[j] = 1 /\ firstError[j] = "none" /\ \A k \in Workers : w[j][k].pc = "none"
  BY <1>1 DEF Unborn
<1>11. TypeOK'
  BY <1>1, <1>5, <1>6, <1>7, <1>8 DEF TypeOK
<1>12. OneJob' /\ Unraced'
  BY <1>1, <1>6, <1>8, <1>9 DEF OneJob, Unraced, Active
<1>13. Unborn'
  BY <1>1, <1>5, <1>7, <1>8 DEF Unborn
<1>14. Holding'
  <2> SUFFICES ASSUME NEW a \in Jobs, NEW k \in Workers, Holds(a, k)'
               PROVE  /\ \E n \in DOMAIN plan[a] : n < next'[a] /\ plan[a][n] = w'[a][k].item
                      /\ w'[a][k].pc = "pause" => w'[a][k].attempt < Attempts
    BY <1>1 DEF Holding
  <2>1. CASE a = j
    <3>1. k <= m /\ ~state.stop_requested
      <4>1. w'[j][k] = r(k) /\ r(k).pc \in {"fetch", "open", "stream", "pause"}
        BY <1>5, <2>1 DEF Holds
      <4>2. k \in Nat /\ m \in Nat
        BY <1>2
      <4> QED
        BY <1>4, <4>1, <4>2
    <3>2. k \in DOMAIN plan[j] /\ k < next'[j] /\ plan[j][k] = w'[j][k].item
      <4>1. k \in Nat /\ m \in Nat /\ next'[j] = m + 1
        BY <1>2, <1>7, <3>1
      <4>2. k < next'[j]
        BY <3>1, <4>1
      <4>3. w'[j][k] = r(k) /\ r(k).item = plan[j][k]
        BY <1>4, <1>5, <3>1
      <4> QED
        BY <1>2, <3>1, <4>2, <4>3
    <3>3. w'[j][k].pc = "fetch"
      BY <1>4, <1>5, <3>1
    <3> QED
      BY <2>1, <3>2, <3>3
  <2>2. CASE a # j
    BY <1>5, <1>7, <2>2 DEF Holding, Holds
  <2> QED
    BY <2>1, <2>2
<1>15. Distinct'
  <2> SUFFICES ASSUME NEW a \in Jobs, NEW b \in Workers, NEW c \in Workers,
                      Holds(a, b)', Holds(a, c)', w'[a][b].item = w'[a][c].item
               PROVE  b = c
    BY DEF Distinct
  <2>1. CASE a = j
    <3>1. b <= m /\ c <= m /\ ~state.stop_requested
      BY <1>2, <1>4, <1>5, <2>1 DEF Holds
    <3>2. plan[j][b] = plan[j][c]
      BY <1>4, <1>5, <2>1, <3>1
    <3> QED
      BY <1>2, <3>1, <3>2, PlanItems
  <2>2. CASE a # j
    BY <1>5, <2>2 DEF Distinct, Holds
  <2> QED
    BY <2>1, <2>2
<1>16. Asked'
  <2> SUFFICES ASSUME NEW a \in Jobs, main'[a] = "pool"
               PROVE  /\ \A b \in Workers : w'[a][b].pc = "thrown" => state.stop_requested
                      /\ firstError[a] = "cancelled" => state.stop_requested
    BY <1>1, <1>6 DEF Asked
  <2>1. a = j
    BY <1>8, <1>9 DEF Active
  <2>2. \A b \in Workers : w'[j][b].pc = "thrown" => state.stop_requested
    BY <1>2, <1>4, <1>5
  <2> QED
    BY <1>10, <2>1, <2>2
<1>17. Rest'
  <2> SUFFICES ASSUME NEW a \in Jobs
               PROVE  /\ aborted[a] <=> firstError[a] # "none"
                      /\ main'[a] = "pool" => \E b \in Workers : w'[a][b].pc # "none"
                      /\ next'[a] > 0
                      /\ \A b \in Workers : w'[a][b].pc = "returned" =>
                           aborted[a] \/ next'[a] > Len(plan[a])
    BY <1>1 DEF Rest
  <2>1. CASE a = j
    <3>1. w'[j][m].pc # "none"
      BY <1>2, <1>4, <1>5
    <3>2. \A b \in Workers : w'[j][b].pc # "returned"
      BY <1>2, <1>4, <1>5
    <3>3. next'[j] > 0
      BY <1>2, <1>7
    <3> QED
      BY <2>1, <3>1, <3>2, <3>3 DEF Rest
  <2>2. CASE a # j
    BY <1>5, <1>7, <1>8, <2>2 DEF Rest
  <2> QED
    BY <2>1, <2>2
<1>18. PartialIsWritten'
  <2> SUFFICES ASSUME NEW i \in Items, file[i] = "partial", i \notin litter
               PROVE  \E a \in Jobs, b \in Workers :
                        w'[a][b].pc = "stream" /\ w'[a][b].item = i /\ w'[a][b].intact
    BY <1>1 DEF PartialIsWritten
  <2>1. PICK a \in Jobs, b \in Workers :
          w[a][b].pc = "stream" /\ w[a][b].item = i /\ w[a][b].intact
    BY DEF PartialIsWritten
  <2>2. a # j
    BY <1>10, <2>1
  <2> QED
    BY <1>5, <2>1, <2>2
<1>19. ASSUME Calm PROVE Calm'
  <2> USE <1>19 DEF Calm
  <2>1. \A a \in Jobs, k \in Workers : ~Busy(a, k)
    BY <1>1, <1>9 DEF Solo, Active
  <2>2. \A a \in Jobs, k \in Workers : Busy(a, k)' =>
          a = j /\ k <= m /\ ~state.stop_requested
    <3> SUFFICES ASSUME NEW a \in Jobs, NEW k \in Workers, Busy(a, k)'
                 PROVE  a = j /\ k <= m /\ ~state.stop_requested
      OBVIOUS
    <3>1. a = j
      BY <1>5, <2>1 DEF Busy
    <3> QED
      BY <1>2, <1>4, <1>5, <3>1 DEF Busy
  <2>3. Solo'
    BY <1>8, <2>2 DEF Solo
  <2>4. ThrownAlone'
    <3> SUFFICES ASSUME NEW a \in Jobs, NEW b \in Workers, NEW c \in Workers,
                        w'[a][b].pc = "thrown", Busy(a, c)'
                 PROVE  FALSE
      BY DEF ThrownAlone
    <3>1. a = j /\ ~state.stop_requested
      BY <2>2
    <3> QED
      BY <1>2, <1>4, <1>5, <3>1
  <2>5. \A n \in DOMAIN plan[j] : NotYet(plan[j][n]) /\ NotYet(plan[j][n])'
    <3>1. \A n \in DOMAIN plan[j] : NotYet(plan[j][n])
      BY <1>1, <1>10, PlanItems DEF ToCome
    <3> QED
      BY <1>1, <1>6, <3>1 DEF NotYet
  <2>6. \A a \in Jobs : main'[a] \in Active => a = j
    BY <1>8, <1>9
  <2>7. ToCome'
    BY <1>1, <1>6, <1>8, <2>5, <2>6 DEF ToCome, Active
  <2>8. AtWork'
    <3> SUFFICES ASSUME NEW a \in Jobs, NEW b \in Workers, Holds(a, b)'
                 PROVE  /\ w'[a][b].item \in Held => w'[a][b].item \in old'
                        /\ state'.summary[w'[a][b].item] = 0
                        /\ w'[a][b].item \notin litter' => file'[w'[a][b].item] = "absent"
                        /\ w'[a][b].pc # "stream"
      BY DEF AtWork
    <3>1. a = j /\ b <= m /\ ~state.stop_requested
      BY <2>2 DEF Busy, Holds
    <3>2. w'[j][b].pc = "fetch" /\ w'[j][b].item = plan[j][b] /\ b \in DOMAIN plan[j]
      BY <1>2, <1>4, <1>5, <3>1
    <3> QED
      BY <1>1, <2>5, <3>1, <3>2 DEF NotYet
  <2>9. TakenIsKept'
    <3> SUFFICES ASSUME NEW n \in DOMAIN plan[j], n < next'[j]
                 PROVE  \E b \in Workers : Holds(j, b)' /\ w'[j][b].item = plan[j][n]
      BY <1>1, <2>6 DEF TakenIsKept, Active
    <3>1. n \in Nat /\ n > 0
      BY PlanItems
    <3>2. n \in Workers /\ n <= m /\ ~state.stop_requested
      BY <1>2, <1>7, <3>1, ModsJobAssumption DEF Workers
    <3> QED
      BY <1>4, <1>5, <3>2 DEF Holds
  <2>10. LitterIsPartial' /\ AllKept' /\ AllDone'
    BY <1>1, <1>8, <1>9 DEF LitterIsPartial, AllKept, AllDone
  <2> QED
    BY <2>3, <2>4, <2>7, <2>8, <2>9, <2>10
<1> QED
  BY <1>1, <1>11, <1>12, <1>13, <1>14, <1>15, <1>16, <1>17, <1>18, <1>19

\* A step of a job keeps the invariant.
LEMMA MainStepKeeps ==
    ASSUME IInv, NEW j \in Jobs, MainStep(j)
    PROVE  IInv'
<1>1. CASE PlanFails(j)
  BY <1>1, EarlyEndKeeps DEF PlanFails, Verdicts
<1>2. CASE PlanCancelled(j)
  BY <1>2, EarlyEndKeeps DEF PlanCancelled, Verdicts
<1>3. CASE PlanEnds(j)
  BY <1>3, PlanEndsKeeps
<1>4. CASE NothingToDo(j)
  BY <1>4, EarlyEndKeeps DEF NothingToDo, Verdicts
<1>5. ASSUME NEW n \in Workers, PoolStarts(j, n) PROVE IInv'
  BY <1>5, PoolStartsKeeps
<1>6. CASE PoolThrows(j)
  <2>1. /\ main[j] = "pool" /\ End(j, "cancelled")
        /\ UNCHANGED <<last, locals, w, disk, servers, history>>
    BY <1>6 DEF PoolThrows
  <2>2. Calm => \A k \in Workers : ~Busy(j, k)
    BY <1>6 DEF PoolThrows, Calm, ThrownAlone
  <2>3. main[j] \in Active /\ "cancelled" \in Verdicts /\ "cancelled" # "done"
    BY <2>1 DEF Active, Verdicts
  <2> QED
    BY <2>1, <2>2, <2>3, EndKeeps
<1>7. CASE PoolReturns(j)
  <2> DEFINE v == IF firstError[j] = "none" THEN "done" ELSE firstError[j]
  <2>1. /\ main[j] = "pool" /\ End(j, v)
        /\ \A k \in Workers : w[j][k].pc \in {"none", "returned"}
        /\ UNCHANGED <<last, locals, w, disk, servers, history>>
    BY <1>7 DEF PoolReturns
  <2>2. \A k \in Workers : ~Busy(j, k) /\ ~Holds(j, k)
    BY <2>1 DEF Busy, Holds
  <2>3. firstError[j] \in {"none", "cancelled", "error"}
    BY DEF IInv, TypeOK
  <2>4. main[j] \in Active /\ v \in Verdicts
    BY <2>1, <2>3 DEF Active, Verdicts
  <2>5. ASSUME Calm, v = "done", NEW n \in DOMAIN plan[j] PROVE Installed(plan[j][n])
    <3>1. firstError[j] = "none"
      BY <2>3, <2>5
    <3>2. PICK k \in Workers : w[j][k].pc = "returned"
      BY <2>1 DEF IInv, Jobwise, Rest
    <3>3. next[j] > Len(plan[j])
      BY <3>1, <3>2 DEF IInv, Jobwise, Rest
    <3>4. n < next[j]
      BY <3>3, PlanItems DEF IInv, TypeOK
    <3> QED
      BY <2>1, <2>2, <2>5, <3>1, <3>4 DEF Calm, TakenIsKept
  <2> HIDE DEF v
  <2> QED
    BY <2>1, <2>2, <2>4, <2>5, EndKeeps
<1> QED
  BY <1>1, <1>2, <1>3, <1>4, <1>5, <1>6, <1>7 DEF MainStep

\* A new job begins.
LEMMA StartKeeps ==
    ASSUME IInv, Start
    PROVE  IInv'
<1> USE DEF IInv, Jobwise
<1> DEFINE j == last + 1
<1>1. /\ ~state.running /\ server = "down" /\ last < NJobs /\ last' = j
      /\ state' = [Idle EXCEPT !.running = TRUE, !.phase = "preparing"]
      /\ main' = [main EXCEPT ![j] = "plan"] /\ raced' = (raced \/ starting)
      /\ UNCHANGED <<plan, next, aborted, firstError, w>>
      /\ UNCHANGED <<file, late, old, listed, server, starting, torn, litter>>
  BY DEF Start, locals, disk, servers
<1>2. last \in Nat /\ NJobs \in Nat /\ j \in Jobs
  BY <1>1, ModsJobAssumption DEF TypeOK, Jobs
<1>3. \A a \in Jobs : a \in Nat
  BY DEF Jobs
<1> HIDE DEF j
<1>4. /\ state' \in StateRec /\ state'.running /\ ~state'.stop_requested
      /\ \A i \in Items : state'.summary[i] = 0
  BY <1>1, IdleFields
<1>5. /\ main'[j] = "plan" /\ \A a \in Jobs : a # j => main'[a] = main[a]
      /\ main' \in [Jobs -> {"none"} \cup Active \cup Verdicts]
  BY <1>1, <1>2 DEF TypeOK, Active
<1>6. main[j] = "none" /\ \A a \in Jobs : main[a] \notin Active
  <2>1. j > last
    BY <1>2 DEF j
  <2> QED
    BY <1>1, <1>2, <2>1 DEF OneJob
<1>7. /\ next[j] = 1 /\ firstError[j] = "none" /\ \A k \in Workers : w[j][k].pc = "none"
  BY <1>2, <1>6 DEF Unborn
<1>8. last' \in 0..NJobs
  BY <1>1, <1>2 DEF j
<1>9. TypeOK'
  BY <1>1, <1>4, <1>5, <1>8 DEF TypeOK
<1>10. OneJob'
  <2>1. \A a \in Jobs : a # j => (a > j <=> a > last)
    BY <1>2, <1>3 DEF j
  <2>2. ~(j > j)
    BY <1>2, <1>3
  <2> QED
    BY <1>1, <1>2, <1>4, <1>5, <1>6, <2>1, <2>2 DEF OneJob, Active
<1>11. Unborn' /\ Unraced'
  BY <1>1, <1>2, <1>5, <1>7 DEF Unborn, Unraced
<1>12. Holding' /\ Distinct' /\ PartialIsWritten'
  BY <1>1 DEF Holding, Distinct, Holds, PartialIsWritten
<1>13. Asked' /\ Rest'
  <2>1. \A a \in Jobs : main'[a] # "pool"
    BY <1>5, <1>6 DEF Active
  <2> QED
    BY <1>1, <2>1 DEF Asked, Rest
<1>14. ASSUME Calm PROVE Calm'
  <2> USE <1>14 DEF Calm
  <2>1. \A a \in Jobs, k \in Workers : ~Busy(a, k)
    BY <1>6 DEF Solo, Active
  <2>2. Solo' /\ ThrownAlone'
    BY <1>1, <2>1 DEF Solo, ThrownAlone, Busy
  <2>3. AtWork'
    BY <1>1, <2>1 DEF AtWork, Busy, Holds
  <2>4. \A a \in Jobs : main'[a] \in Active => main'[a] = "plan"
    BY <1>5, <1>6
  <2>5. ToCome' /\ TakenIsKept'
    BY <1>4, <2>4 DEF ToCome, TakenIsKept, Active
  <2>6. LitterIsPartial' /\ AllKept' /\ AllDone'
    BY <1>1, <1>5 DEF LitterIsPartial, AllKept, AllDone
  <2> QED
    BY <2>2, <2>3, <2>5, <2>6
<1> QED
  BY <1>1, <1>9, <1>10, <1>11, <1>12, <1>13, <1>14

\* stop() only asks.
LEMMA StopKeeps ==
    ASSUME IInv, Stop
    PROVE  IInv'
<1> USE DEF IInv, Jobwise
<1>1. /\ state' = [state EXCEPT !.stop_requested = TRUE]
      /\ UNCHANGED <<last, main, plan, next, aborted, firstError, w>>
      /\ UNCHANGED <<file, late, old, listed, server, starting, torn, raced, litter>>
  BY DEF Stop, locals, disk, servers, history
<1>2. /\ state' \in StateRec /\ state'.running = state.running
      /\ state'.stop_requested /\ state'.summary = state.summary
  BY <1>1, StateFields DEF TypeOK
<1>3. TypeOK' /\ PartialIsWritten'
  BY <1>1, <1>2 DEF TypeOK, PartialIsWritten
<1>4. Jobwise'
  BY <1>1, <1>2
     DEF OneJob, Unborn, Holding, Distinct, Asked, Rest, Unraced, Holds
<1>5. Calm => Calm'
  BY <1>1, <1>2 DEF Calm, Solo, ThrownAlone, LitterIsPartial, ToCome, AtWork, TakenIsKept,
                    AllKept, AllDone, Busy, Holds, Installed, NotYet
<1> QED
  BY <1>1, <1>3, <1>4, <1>5

\* The server starts and ends beside the jobs.
LEMMA ServerKeeps ==
    ASSUME IInv, ServerStarts \/ ServerSpawns \/ ServerEnds
    PROVE  IInv'
<1> USE DEF IInv, Jobwise
<1>1. /\ UNCHANGED <<state, last, main, plan, next, aborted, firstError, w>>
      /\ UNCHANGED <<file, late, old, listed, torn, raced, litter>>
  BY DEF ServerStarts, ServerSpawns, ServerEnds, locals, disk, history
<1>2. server' \in {"down", "up"} /\ starting' \in BOOLEAN
  BY DEF ServerStarts, ServerSpawns, ServerEnds, TypeOK
<1>3. TypeOK' /\ PartialIsWritten'
  BY <1>1, <1>2 DEF TypeOK, PartialIsWritten
<1>4. Unraced'
  BY <1>1 DEF Unraced, ServerStarts, ServerSpawns, ServerEnds
<1>5. OneJob' /\ Unborn' /\ Holding' /\ Distinct' /\ Asked' /\ Rest'
  BY <1>1 DEF OneJob, Unborn, Holding, Distinct, Asked, Rest, Holds
<1>6. Calm => Calm'
  BY <1>1 DEF Calm, Solo, ThrownAlone, LitterIsPartial, ToCome, AtWork, TakenIsKept, AllKept,
              AllDone, Busy, Holds, Installed, NotYet
<1> QED
  BY <1>1, <1>3, <1>4, <1>5, <1>6

\* Every step keeps the invariant.
LEMMA StepIInv == ASSUME IInv, [Next]_vars PROVE IInv'
<1>1. CASE Next
  BY <1>1, MainStepKeeps, WorkerStepKeeps, LateOpensKeeps, StartKeeps, StopKeeps, ServerKeeps
     DEF Next, Request, JobStep
<1>2. CASE UNCHANGED vars
  BY <1>2 DEF vars, locals, disk, servers, history, IInv, Jobwise, Calm, TypeOK, OneJob,
              Unborn, Holding, Distinct, Asked, Rest, Unraced, PartialIsWritten, Solo,
              ThrownAlone, LitterIsPartial, ToCome, AtWork, TakenIsKept, AllKept, AllDone, Busy,
              Holds, Installed, NotYet
<1> QED
  BY <1>1, <1>2

\* The invariant holds at first.
LEMMA InitIInv == ASSUME Init PROVE IInv
<1>1. TypeOK
  <2>1. /\ Idle \in StateRec /\ 0 \in 0..NJobs
        /\ [j \in Jobs |-> [k \in Workers |-> NoWorker]] \in [Jobs -> [Workers -> WorkerRec]]
    BY IdleFields, WorkerRecs, ModsJobAssumption
  <2> QED
    BY <2>1, ModsJobAssumption DEF Init, TypeOK
<1>2. /\ \A j \in Jobs, k \in Workers : w[j][k].pc = "none"
      /\ \A j \in Jobs : main[j] = "none" /\ j > last
      /\ ~state.running
  BY WorkerRecs, IdleFields DEF Init, Jobs
<1>3. Jobwise
  BY <1>2 DEF Init, Jobwise, OneJob, Unborn, Holding, Distinct, Asked, Rest, Unraced, Holds,
              Active
<1>4. PartialIsWritten
  BY DEF Init, PartialIsWritten
<1>5. Calm
  BY <1>2 DEF Init, Calm, Solo, ThrownAlone, LitterIsPartial, ToCome, AtWork, TakenIsKept,
              AllKept, AllDone, Busy, Holds
<1> QED
  BY <1>1, <1>3, <1>4, <1>5 DEF IInv

\* The inductive invariant holds throughout.
LEMMA Invariance == Spec => []IInv
BY InitIInv, StepIInv, PTL DEF Spec

-----------------------------------------------------------------------------
(* The theorems.                                                           *)

\* The variables keep their types, for all sets of mods and all bounds: what a
\* worker holds is a mod, no attempt is beyond the last, and no job beyond NJobs.
THEOREM TypeCorrect == Spec => []TypeOK
<1>1. IInv => TypeOK
  BY DEF IInv
<1> QED
  BY Invariance, <1>1, PTL

\* Every zip that is not whole, but for litter, has a worker that writes it and will
\* complete it or delete it, also where workers of jobs that are over write to the
\* same mods and streams that were given up open them.
THEOREM PartialWritten == Spec => []PartialIsWritten
<1>1. IInv => PartialIsWritten
  BY DEF IInv
<1> QED
  BY Invariance, <1>1, PTL

\* A mod that was installed stays so, in its older release or the new one, whatever
\* fails or is cancelled, unless a worker was left behind; the new one is whole,
\* unless a late open emptied it.
THEOREM ModsStay == Spec => []ModKept
<1>1. IInv => ModKept
  BY ModsJobAssumption DEF IInv, Calm, AllKept, LitterIsPartial, ModKept
<1> QED
  BY Invariance, <1>1, PTL

\* A job that reports success has installed every mod of its plan, once; its zip is
\* whole, unless a late open emptied it.
THEOREM SuccessIsTrue == Spec => []DoneMeansInstalled
<1>1. IInv => DoneMeansInstalled
  BY DEF IInv, Calm, AllDone, Installed, DoneMeansInstalled
<1> QED
  BY Invariance, <1>1, PTL

\* While no job runs and no worker was left behind, the steps are requests and late
\* opens.
LEMMA OnlyRequests ==
    ASSUME IInv, Next, ~state.running, ~torn
    PROVE  Request \/ \E s \in late : LateOpens(s)
<1>1. ASSUME NEW j \in Jobs, MainStep(j) PROVE FALSE
  <2>1. main[j] \in Active
    BY <1>1 DEF MainStep, PlanFails, PlanCancelled, PlanEnds, NothingToDo, PoolStarts,
                PoolThrows, PoolReturns, Active
  <2> QED
    BY <2>1 DEF IInv, Jobwise, OneJob
<1>2. ASSUME NEW j \in Jobs, NEW k \in Workers, WorkerStep(j, k) PROVE FALSE
  <2>1. Busy(j, k)
    BY <1>2 DEF WorkerStep, WorkerReturns, WorkerCancelled, WorkerTakes, Answered, Opens,
                Completes, Retries, Resumes, Fails, EndFails, Aborts, Busy
  <2>2. main[j] \in Active
    BY <2>1 DEF IInv, Calm, Solo, Active
  <2> QED
    BY <2>2 DEF IInv, Jobwise, OneJob
<1> QED
  BY <1>1, <1>2 DEF Next, JobStep

\* A late open changes no mod but the one whose zip is litter then.
LEMMA LateOpensHolds ==
    ASSUME IInv, NEW s \in late, LateOpens(s)
    PROVE  ModsHold /\ state' = state
<1>1. s[1] \in litter' /\ file' = [file EXCEPT ![s[1]] = "partial"]
  BY DEF LateOpens
<1>2. \A i \in Items \ litter' : file'[i] = file[i]
  BY <1>1 DEF IInv, TypeOK
<1> QED
  BY <1>2 DEF LateOpens, ModsHold

\* After a job has reported its end nothing is written, neither to the mods nor to
\* the status, until the next begins, except that a stream that was given up opens
\* its zip.
THEOREM QuietWhenOver == Spec => QuietAfterEnd
<1>1. IInv /\ [Next]_vars =>
        [~state.running /\ ~torn =>
           ModsHold /\ (state' = state \/ state'.running)]_vars
  <2> SUFFICES ASSUME IInv, Next, ~state.running, ~torn
               PROVE  ModsHold /\ (state' = state \/ state'.running)
    OBVIOUS
  <2>1. Request \/ \E s \in late : LateOpens(s)
    BY OnlyRequests
  <2>2. CASE Start
    BY <2>2, IdleFields DEF Start, disk, ModsHold
  <2>3. CASE Stop
    BY <2>3 DEF Stop
  <2>4. CASE ServerStarts \/ ServerSpawns \/ ServerEnds
    BY <2>4 DEF ServerStarts, ServerSpawns, ServerEnds, disk, ModsHold
  <2>5. ASSUME NEW s \in late, LateOpens(s) PROVE ModsHold /\ state' = state
    BY <2>5, LateOpensHolds
  <2> QED
    BY <2>1, <2>2, <2>3, <2>4, <2>5 DEF Request
<1> QED
  BY Invariance, <1>1, PTL DEF Spec, QuietAfterEnd

\* The mods do not change under a server that runs, but for the two races and for
\* streams that were given up and open their zip.
THEOREM ModsHoldStill == Spec => ServerKeepsMods
<1>1. IInv /\ [Next]_vars => [server = "up" /\ ~torn /\ ~raced => ModsHold]_vars
  <2> SUFFICES ASSUME IInv, Next, server = "up", ~torn, ~raced
               PROVE  ModsHold
    OBVIOUS
  <2>1. ~state.running
    BY DEF IInv, Jobwise, Unraced
  <2>2. Request \/ \E s \in late : LateOpens(s)
    BY <2>1, OnlyRequests
  <2>3. ASSUME Request PROVE ModsHold
    BY <2>3 DEF Request, Start, Stop, ServerStarts, ServerSpawns, ServerEnds, disk, ModsHold
  <2>4. ASSUME NEW s \in late, LateOpens(s) PROVE ModsHold
    BY <2>4, LateOpensHolds
  <2> QED
    BY <2>2, <2>3, <2>4
<1> QED
  BY Invariance, <1>1, PTL DEF Spec, ServerKeepsMods

-----------------------------------------------------------------------------
(* The refinement.                                                         *)

\* The job that is reported runs, or is over.
LEMMA ReportedJob ==
    ASSUME IInv
    PROVE  /\ last > 0 => last \in Jobs
           /\ state.running => last \in Jobs /\ main[last] \in Active
           /\ state.running =>
                Reported = IF state.stop_requested THEN "stopping" ELSE "running"
           /\ ~state.running => Reported \in {"idle"} \cup Verdicts
<1>1. last \in 0..NJobs /\ NJobs \in Nat /\ (last > 0 => last \in Jobs)
  BY ModsJobAssumption DEF IInv, TypeOK, Jobs
<1>2. state.running => last \in Jobs /\ main[last] \in Active /\ last # 0
  BY <1>1 DEF IInv, Jobwise, OneJob, Jobs
<1>3. ~state.running /\ last # 0 => main[last] \in Verdicts
  <2> SUFFICES ASSUME ~state.running, last # 0
               PROVE  main[last] \in Verdicts
    OBVIOUS
  <2>1. last \in Jobs /\ ~(last > last)
    BY <1>1
  <2>2. main[last] # "none" /\ main[last] \notin Active
    BY <2>1 DEF IInv, Jobwise, OneJob
  <2> QED
    BY <2>1, <2>2 DEF IInv, TypeOK
<1>4. \A v \in Verdicts : v \notin Active
  BY DEF Verdicts, Active
<1> QED
  BY <1>1, <1>2, <1>3, <1>4 DEF Reported

\* What a job ends with is promised.
LEMMA EndPromised ==
    ASSUME IInv, IInv', NEW j \in Jobs, NEW v \in Verdicts, main[j] \in Active, End(j, v),
           last' = last, v = "cancelled" => state.stop_requested
    PROVE  Promise!Next
<1>1. j = last /\ state.running
  BY DEF IInv, Jobwise, OneJob
<1>2. Reported = IF state.stop_requested THEN "stopping" ELSE "running"
  BY <1>1, ReportedJob
<1>3. Reported' = v
  <2>1. main'[j] = v /\ v \notin Active
    BY DEF End, IInv, TypeOK, Verdicts, Active
  <2>2. last # 0
    BY <1>1 DEF Jobs
  <2> QED
    BY <1>1, <2>1, <2>2 DEF Reported
<1> QED
  BY <1>2, <1>3 DEF Promise!Next, Promise!Ends, Promise!Verdicts, Verdicts

\* Every step is one that is promised, or tells nothing.
LEMMA StepPromised ==
    ASSUME IInv, IInv', Next
    PROVE  Promise!Next \/ Reported' = Reported
<1> USE DEF IInv
<1>1. CASE Start
  <2>1. Reported \in {"idle"} \cup Verdicts
    BY <1>1, ReportedJob DEF Start
  <2>2. state'.running /\ ~state'.stop_requested
    BY <1>1, IdleFields DEF Start
  <2>3. last' > 0 /\ last' \in Jobs /\ main'[last'] \in Active
    BY <1>1, <2>2 DEF Jobwise, OneJob, Jobs
  <2>4. Reported' = "running"
    BY <2>2, <2>3 DEF Reported
  <2> QED
    BY <2>1, <2>4 DEF Promise!Next, Promise!Starts, Promise!Verdicts, Verdicts
<1>2. CASE Stop
  <2>1. Reported = "running" /\ last \in Jobs /\ main[last] \in Active
    BY <1>2, ReportedJob DEF Stop
  <2>2. state'.stop_requested /\ last' = last /\ main' = main
    BY <1>2, StateFields DEF Stop, TypeOK
  <2>3. Reported' = "stopping"
    BY <2>1, <2>2 DEF Reported, Jobs
  <2> QED
    BY <2>1, <2>3 DEF Promise!Next, Promise!Asked
<1>3. CASE ServerStarts \/ ServerSpawns \/ ServerEnds
  BY <1>3 DEF ServerStarts, ServerSpawns, ServerEnds, Reported
<1>4. ASSUME NEW j \in Jobs, MainStep(j) PROVE Promise!Next \/ Reported' = Reported
  <2>1. CASE PlanFails(j)
    BY <2>1, EndPromised DEF PlanFails, Active, Verdicts
  <2>2. CASE PlanCancelled(j)
    BY <2>2, EndPromised DEF PlanCancelled, Active, Verdicts
  <2>3. CASE NothingToDo(j)
    BY <2>3, EndPromised DEF NothingToDo, Active, Verdicts
  <2>4. CASE PoolThrows(j)
    <3>1. state.stop_requested
      BY <2>4 DEF PoolThrows, Jobwise, Asked
    <3> QED
      BY <2>4, <3>1, EndPromised DEF PoolThrows, Active, Verdicts
  <2>5. CASE PoolReturns(j)
    <3> DEFINE v == IF firstError[j] = "none" THEN "done" ELSE firstError[j]
    <3>1. main[j] = "pool" /\ End(j, v) /\ last' = last
      BY <2>5 DEF PoolReturns
    <3>2. v \in Verdicts /\ (v = "cancelled" => firstError[j] = "cancelled")
      BY DEF TypeOK, Verdicts
    <3>3. v = "cancelled" => state.stop_requested
      BY <3>1, <3>2 DEF Jobwise, Asked
    <3>4. main[j] \in Active
      BY <3>1 DEF Active
    <3> HIDE DEF v
    <3> QED
      BY <3>1, <3>2, <3>3, <3>4, EndPromised
  <2>6. ASSUME main[j] \in Active, last' = last,
               state'.stop_requested = state.stop_requested,
               NEW p \in Active, main' = [main EXCEPT ![j] = p]
        PROVE  Reported' = Reported
    <3>1. j = last
      BY <2>6 DEF Jobwise, OneJob
    <3>2. main'[j] = p
      BY <2>6 DEF TypeOK
    <3> QED
      BY <2>6, <3>1, <3>2 DEF Reported
  <2>7. CASE PlanEnds(j)
    BY <2>6, <2>7 DEF PlanEnds, Active
  <2>8. ASSUME NEW n \in Workers, PoolStarts(j, n) PROVE Reported' = Reported
    <3>1. state'.stop_requested = state.stop_requested
      BY <2>8 DEF PoolStarts, TypeOK, StateRec
    <3> QED
      BY <2>6, <2>8, <3>1 DEF PoolStarts, Active
  <2> QED
    BY <1>4, <2>1, <2>2, <2>3, <2>4, <2>5, <2>7, <2>8 DEF MainStep
<1>5. ASSUME NEW j \in Jobs, NEW k \in Workers, WorkerStep(j, k)
      PROVE  Reported' = Reported
  <2>1. last' = last /\ main' = main
    BY <1>5 DEF WorkerStep, WorkerReturns, WorkerCancelled, WorkerTakes, Answered, Opens,
                Completes, Retries, Resumes, Fails, EndFails, Aborts
  <2>2. state'.stop_requested = state.stop_requested
    <3>1. state \in StateRec
      BY DEF TypeOK
    <3>2. CASE Completes(j, k)
      BY <3>1, <3>2 DEF Completes, StateRec
    <3>3. CASE WorkerTakes(j, k) \/ Answered(j, k) \/ Resumes(j, k)
      <4>1. state' = state \/ state' = [state EXCEPT !.phase = "download"]
        BY <3>3 DEF WorkerTakes, Answered, Resumes
      <4> QED
        BY <3>1, <4>1, PhaseOnly
    <3>4. CASE \/ WorkerReturns(j, k) \/ WorkerCancelled(j, k) \/ Retries(j, k)
               \/ Opens(j, k) \/ Fails(j, k) \/ EndFails(j, k) \/ Aborts(j, k)
      BY <3>4 DEF WorkerReturns, WorkerCancelled, Retries, Opens, Fails, EndFails, Aborts
    <3> QED
      BY <1>5, <3>2, <3>3, <3>4 DEF WorkerStep
  <2> QED
    BY <2>1, <2>2 DEF Reported
<1>6. ASSUME NEW s \in late, LateOpens(s) PROVE Reported' = Reported
  BY <1>6 DEF LateOpens, Reported
<1> QED
  BY <1>1, <1>2, <1>3, <1>4, <1>5, <1>6 DEF Next, Request, JobStep

\* Seen from outside there is one mod job at a time, which is reported as cancelled
\* only if stop() was called for it: the detailed job, its workers and those that
\* other jobs left behind take no step that the promise does not allow.
THEOREM PromiseKept == Spec => Promise!Init /\ [][Promise!Next]_Reported
<1>1. Init => Promise!Init
  BY DEF Init, Promise!Init, Reported
<1>2. IInv /\ IInv' /\ [Next]_vars => [Promise!Next]_Reported
  <2>1. ASSUME UNCHANGED vars PROVE Reported' = Reported
    BY <2>1 DEF vars, Reported
  <2> QED
    BY <2>1, StepPromised
<1> QED
  BY Invariance, <1>1, <1>2, PTL DEF Spec
=============================================================================
