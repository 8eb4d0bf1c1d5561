-------------------------- MODULE MaintenanceProofs --------------------------
(***************************************************************************)
(* Safety of Maintenance for every set of tasks, servers, due times and    *)
(* every number of ticks and jobs at once.                                 *)
(***************************************************************************)
EXTENDS Maintenance, FiniteSetTheorems, TLAPS

\* One step as a disjunction of its actions, with the quantifiers outside.
LEMMA NextCases ==
    ASSUME Next
    PROVE  \/ Advance \/ PanelRestarts
           \/ \E k \in Ticks :
                 TickStarts(k) \/ \E t \in Tasks : TickFires(k, t) \/ TickPasses(k, t)
           \/ \E t \in Tasks : RunNowChecks(t) \/ RunNowStarts(t)
           \/ \E e \in Lists : SetDeletes(e) \/ SetSaves(e)
           \/ \E j \in Jobs :
                 \/ \E i \in Insts : JobStops(j, i)
                 \/ JobStopped(j) \/ JobUpdated(j) \/ JobStarts(j) \/ JobOnline(j)
                 \/ JobFails(j) \/ JobFinally(j) \/ JobLeaves(j) \/ JobDisables(j)
                 \/ JobEnds(j)
           \/ \E i \in Insts :
                 UserStarts(i) \/ ServerChanges(i) \/ WaiterEnds(i) \/ ClearManual(i)
BY Zenon DEF Next, Tick, Edit, JobStep, Server

\* What is scheduled for a due time n was begun no earlier than Early before n,
\* and is remembered as the last fire of its task until its window is over.
FiredPast ==
    \A t \in Tasks, n \in Nat : <<t, n>> \in fired =>
        /\ n \in Fires[t]
        /\ n - Early <= now
        /\ lastFire[t] = n \/ now >= n + Window

\* As long as no job has ended beside a scheduled one, at most one scheduled job
\* is at work, and then the flag is set.
OneScheduled ==
    ~muddled => /\ Scheduled # {} => jobRunning
                /\ \A j, l \in Scheduled : j = l

IInv == TypeOK /\ FiredPast /\ OneScheduled

\* A job that begins is typed.
LEMMA BeginTyped ==
    ASSUME JobsTyped, NEW j \in Jobs, NEW t \in Tasks, NEW run \in Int, Begin(j, t, run)
    PROVE  JobsTyped'
<1>1. Targets[t] \in SUBSET Insts
  BY MaintenanceAssumption
<1> DEFINE r == [pc |-> "next", task |-> t, run |-> run, todo |-> Targets[t],
                 inst |-> None, held |-> FALSE, ok |-> TRUE]
<1>2. r \in JobRec /\ r.task \in Tasks
  BY <1>1 DEF JobRec
<1>3. job' = [job EXCEPT ![j] = r]
  BY DEF Begin
<1> QED BY <1>2, <1>3 DEF JobsTyped, AtServer

\* A job that goes on is typed if its new record is.
LEMMA GoesOnTyped ==
    ASSUME JobsTyped, NEW j \in Jobs, job[j].pc # "idle",
           NEW r \in JobRec, r.task = job[j].task,
           r.pc \in AtServer => r.inst \in Insts, job' = [job EXCEPT ![j] = r]
    PROVE  JobsTyped'
BY DEF JobsTyped

\* A tick that is done with a task is typed.
LEMMA TickDoneTyped ==
    ASSUME TicksTyped, NEW k \in Ticks, NEW t, TickDone(k, t)
    PROVE  TicksTyped'
<1>1. [tick[k] EXCEPT !.todo = @ \ {t}] \in TickRec /\ NoTick \in TickRec
  BY DEF TicksTyped, TickRec, NoTick
<1> QED BY <1>1 DEF TicksTyped, TickDone

\* Every action keeps jobs typed.
LEMMA StepJobs == ASSUME JobsTyped, RestTyped, Next PROVE JobsTyped'
<1>1. ASSUME Advance PROVE JobsTyped'
  BY <1>1 DEF Advance, JobsTyped
<1>2. ASSUME NEW k \in Ticks, TickStarts(k) PROVE JobsTyped'
  BY <1>2 DEF TickStarts, JobsTyped
<1>3. ASSUME NEW k \in Ticks, NEW t \in Tasks, TickFires(k, t) PROVE JobsTyped'
  <2>1. PICK due \in Fires[t], j \in Jobs : Begin(j, t, due)
    BY <1>3 DEF TickFires
  <2>2. due \in Int
    BY MaintenanceAssumption
  <2> QED BY <2>1, <2>2, BeginTyped
<1>4. ASSUME NEW k \in Ticks, NEW t \in Tasks, TickPasses(k, t) PROVE JobsTyped'
  BY <1>4 DEF TickPasses, JobsTyped
<1>5. ASSUME NEW t \in Tasks, RunNowChecks(t) PROVE JobsTyped'
  BY <1>5 DEF RunNowChecks, JobsTyped
<1>6. ASSUME NEW t \in Tasks, RunNowStarts(t) PROVE JobsTyped'
  <2>1. Manual \in Int
    BY DEF Manual
  <2> QED BY <1>6, <2>1, BeginTyped DEF RunNowStarts, JobsTyped
<1>7. ASSUME NEW e \in Lists, SetDeletes(e) PROVE JobsTyped'
  BY <1>7 DEF SetDeletes, JobsTyped
<1>8. ASSUME NEW e \in Lists, SetSaves(e) PROVE JobsTyped'
  BY <1>8 DEF SetSaves, JobsTyped
<1>9. ASSUME NEW j \in Jobs, NEW i \in Insts, JobStops(j, i) PROVE JobsTyped'
  <2> DEFINE r == [job[j] EXCEPT !.pc = "stop", !.inst = i]
  <2>1. job[j] \in JobRec /\ job[j].task \in Tasks /\ job[j].pc # "idle"
    BY <1>9 DEF JobStops, JobsTyped
  <2>2. r \in JobRec /\ r.task = job[j].task /\ r.inst \in Insts
    BY <2>1 DEF JobRec
  <2>3. job' = [job EXCEPT ![j] = r]
    BY <1>9 DEF JobStops
  <2> HIDE DEF r
  <2> QED BY <2>1, <2>2, <2>3, GoesOnTyped
<1>10. ASSUME NEW j \in Jobs, JobStopped(j) PROVE JobsTyped'
  <2>1. job[j].task \in Tasks /\ job[j] \in JobRec /\ job[j].inst \in Insts
    BY <1>10 DEF JobStopped, JobsTyped, AtServer
  <2>2. Kind[job[j].task] \in {"restart", "update", "manual"}
    BY <2>1, MaintenanceAssumption
  <2>3. PICK pc \in {"update", "finally", "start"}, held \in BOOLEAN :
          job' = [job EXCEPT ![j].pc = pc, ![j].held = held]
    BY <1>10, <2>2 DEF JobStopped
  <2> DEFINE r == [job[j] EXCEPT !.pc = pc, !.held = held]
  <2>4. r \in JobRec /\ r.task = job[j].task /\ r.inst = job[j].inst
    BY <2>1 DEF JobRec
  <2>5. job' = [job EXCEPT ![j] = r] /\ job[j].pc # "idle"
    BY <1>10, <2>3 DEF JobStopped
  <2> HIDE DEF r
  <2> QED BY <2>1, <2>4, <2>5, GoesOnTyped
<1>11. ASSUME NEW j \in Jobs, JobUpdated(j) PROVE JobsTyped'
  BY <1>11 DEF JobUpdated, To, JobsTyped, JobRec, AtServer
<1>12. ASSUME NEW j \in Jobs, JobStarts(j) PROVE JobsTyped'
  <2>1. PICK ok \in BOOLEAN :
          job' = [job EXCEPT ![j].pc = IF ok THEN "wait" ELSE "finally",
                             ![j].ok = @ /\ ok]
    BY <1>12 DEF JobStarts
  <2> DEFINE r == [job[j] EXCEPT !.pc = IF ok THEN "wait" ELSE "finally",
                                !.ok = @ /\ ok]
  <2>2. job[j] \in JobRec /\ job[j].pc # "idle" /\ job[j].inst \in Insts
    BY <1>12 DEF JobStarts, JobsTyped, AtServer
  <2>3. r \in JobRec /\ r.task = job[j].task /\ r.inst = job[j].inst
    BY <2>2 DEF JobRec
  <2>4. job' = [job EXCEPT ![j] = r]
    BY <2>1
  <2> HIDE DEF r
  <2> QED BY <2>2, <2>3, <2>4, GoesOnTyped
<1>13. ASSUME NEW j \in Jobs, JobOnline(j) PROVE JobsTyped'
  BY <1>13 DEF JobOnline, To, JobsTyped, JobRec, AtServer
<1>14. ASSUME NEW j \in Jobs, JobFails(j) PROVE JobsTyped'
  <2> DEFINE r == [job[j] EXCEPT !.pc = "finally", !.ok = FALSE]
  <2>1. job[j] \in JobRec
    BY DEF JobsTyped
  <2>2. r \in JobRec /\ r.task = job[j].task /\ r.inst = job[j].inst
    BY <2>1 DEF JobRec
  <2>3. job' = [job EXCEPT ![j] = r] /\ job[j].pc \in AtServer
    BY <1>14 DEF JobFails, JobsTyped, AtServer
  <2>4. job[j].inst \in Insts /\ job[j].pc # "idle"
    BY <2>3 DEF JobsTyped, AtServer
  <2> HIDE DEF r
  <2> QED BY <2>2, <2>3, <2>4, GoesOnTyped
<1>15. ASSUME NEW j \in Jobs, JobFinally(j) PROVE JobsTyped'
  <2> DEFINE r == [job[j] EXCEPT !.pc = "next", !.todo = @ \ {job[j].inst},
                                !.held = FALSE]
  <2>1. job[j] \in JobRec
    BY DEF JobsTyped
  <2>2. r \in JobRec /\ r.task = job[j].task /\ r.inst = job[j].inst
    BY <2>1 DEF JobRec
  <2>3. job' = [job EXCEPT ![j] = r] /\ job[j].pc \in AtServer
    BY <1>15 DEF JobFinally, JobsTyped, AtServer
  <2>4. job[j].inst \in Insts /\ job[j].pc # "idle"
    BY <2>3 DEF JobsTyped, AtServer
  <2> HIDE DEF r
  <2> QED BY <2>2, <2>3, <2>4, GoesOnTyped
<1>16. ASSUME NEW j \in Jobs, JobLeaves(j) PROVE JobsTyped'
  BY <1>16 DEF JobLeaves, To, JobsTyped, JobRec, AtServer
<1>17. ASSUME NEW j \in Jobs, JobDisables(j) PROVE JobsTyped'
  BY <1>17 DEF JobDisables, To, JobsTyped, JobRec, AtServer
<1>18. ASSUME NEW j \in Jobs, JobEnds(j) PROVE JobsTyped'
  <2>1. NoJob \in JobRec /\ NoJob.pc = "idle"
    BY DEF NoJob, JobRec, Manual
  <2> QED BY <1>18, <2>1 DEF JobEnds, JobsTyped, AtServer
<1>19. ASSUME NEW i \in Insts, UserStarts(i) PROVE JobsTyped'
  BY <1>19 DEF UserStarts, JobsTyped
<1>20. ASSUME NEW i \in Insts, ServerChanges(i) PROVE JobsTyped'
  BY <1>20 DEF ServerChanges, JobsTyped
<1>21. ASSUME NEW i \in Insts, WaiterEnds(i) PROVE JobsTyped'
  BY <1>21 DEF WaiterEnds, JobsTyped
<1>22. ASSUME NEW i \in Insts, ClearManual(i) PROVE JobsTyped'
  BY <1>22 DEF ClearManual, JobsTyped
<1>23. ASSUME PanelRestarts PROVE JobsTyped'
  <2>1. NoJob \in JobRec /\ NoJob.pc = "idle"
    BY DEF NoJob, JobRec, Manual
  <2> QED BY <1>23, <2>1 DEF PanelRestarts, JobsTyped, AtServer
<1> QED BY Zenon, NextCases, <1>1, <1>2, <1>3, <1>4, <1>5, <1>6, <1>7, <1>8,
   <1>9, <1>10, <1>11, <1>12, <1>13, <1>14, <1>15, <1>16, <1>17, <1>18, <1>19,
   <1>20, <1>21, <1>22, <1>23

\* Every action keeps ticks typed.
LEMMA StepTicks == ASSUME TicksTyped, RestTyped, Next PROVE TicksTyped'
<1>1. ASSUME Advance PROVE TicksTyped'
  BY <1>1 DEF Advance, TicksTyped
<1>2. ASSUME NEW k \in Ticks, TickStarts(k) PROVE TicksTyped'
  <2>1. now \in Nat
    BY MaintenanceAssumption DEF RestTyped
  <2>2. PICK soon \in SUBSET Tasks :
          tick' = [tick EXCEPT ![k] = [pc |-> "loop", at |-> now, todo |-> soon]]
    BY <1>2 DEF TickStarts, RestTyped
  <2> QED BY <2>1, <2>2 DEF TicksTyped, TickRec
<1>3. ASSUME NEW k \in Ticks, NEW t \in Tasks, TickFires(k, t) PROVE TicksTyped'
  BY <1>3, TickDoneTyped DEF TickFires
<1>4. ASSUME NEW k \in Ticks, NEW t \in Tasks, TickPasses(k, t) PROVE TicksTyped'
  BY <1>4, TickDoneTyped DEF TickPasses
<1>5. ASSUME NEW t \in Tasks, RunNowChecks(t) PROVE TicksTyped'
  BY <1>5 DEF RunNowChecks, TicksTyped
<1>6. ASSUME NEW t \in Tasks, RunNowStarts(t) PROVE TicksTyped'
  BY <1>6 DEF RunNowStarts, TicksTyped
<1>7. ASSUME NEW e \in Lists, SetDeletes(e) PROVE TicksTyped'
  BY <1>7 DEF SetDeletes, TicksTyped
<1>8. ASSUME NEW e \in Lists, SetSaves(e) PROVE TicksTyped'
  BY <1>8 DEF SetSaves, TicksTyped
<1>9. ASSUME NEW j \in Jobs, NEW i \in Insts, JobStops(j, i) PROVE TicksTyped'
  BY <1>9 DEF JobStops, TicksTyped
<1>10. ASSUME NEW j \in Jobs, JobStopped(j) PROVE TicksTyped'
  BY <1>10 DEF JobStopped, TicksTyped
<1>11. ASSUME NEW j \in Jobs, JobUpdated(j) PROVE TicksTyped'
  BY <1>11 DEF JobUpdated, TicksTyped
<1>12. ASSUME NEW j \in Jobs, JobStarts(j) PROVE TicksTyped'
  BY <1>12 DEF JobStarts, TicksTyped
<1>13. ASSUME NEW j \in Jobs, JobOnline(j) PROVE TicksTyped'
  BY <1>13 DEF JobOnline, TicksTyped
<1>14. ASSUME NEW j \in Jobs, JobFails(j) PROVE TicksTyped'
  BY <1>14 DEF JobFails, TicksTyped
<1>15. ASSUME NEW j \in Jobs, JobFinally(j) PROVE TicksTyped'
  BY <1>15 DEF JobFinally, TicksTyped
<1>16. ASSUME NEW j \in Jobs, JobLeaves(j) PROVE TicksTyped'
  BY <1>16 DEF JobLeaves, TicksTyped
<1>17. ASSUME NEW j \in Jobs, JobDisables(j) PROVE TicksTyped'
  BY <1>17 DEF JobDisables, TicksTyped
<1>18. ASSUME NEW j \in Jobs, JobEnds(j) PROVE TicksTyped'
  BY <1>18 DEF JobEnds, TicksTyped
<1>19. ASSUME NEW i \in Insts, UserStarts(i) PROVE TicksTyped'
  BY <1>19 DEF UserStarts, TicksTyped
<1>20. ASSUME NEW i \in Insts, ServerChanges(i) PROVE TicksTyped'
  BY <1>20 DEF ServerChanges, TicksTyped
<1>21. ASSUME NEW i \in Insts, WaiterEnds(i) PROVE TicksTyped'
  BY <1>21 DEF WaiterEnds, TicksTyped
<1>22. ASSUME NEW i \in Insts, ClearManual(i) PROVE TicksTyped'
  BY <1>22 DEF ClearManual, TicksTyped
<1>23. ASSUME PanelRestarts PROVE TicksTyped'
  BY <1>23 DEF PanelRestarts, TicksTyped, TickRec, NoTick
<1> QED BY Zenon, NextCases, <1>1, <1>2, <1>3, <1>4, <1>5, <1>6, <1>7, <1>8,
   <1>9, <1>10, <1>11, <1>12, <1>13, <1>14, <1>15, <1>16, <1>17, <1>18, <1>19,
   <1>20, <1>21, <1>22, <1>23

\* Every action keeps the rest typed.
LEMMA StepRest == ASSUME JobsTyped, RestTyped, Next PROVE RestTyped'
<1> USE MaintenanceAssumption DEF RestTyped, Never
<1>1. ASSUME Advance PROVE RestTyped'
  <2>1. overran' \in BOOLEAN
    BY <1>1, Zenon DEF Advance, Overruns
  <2>2. now' \in 0..Horizon
    BY <1>1 DEF Advance
  <2> QED BY <1>1, <2>1, <2>2 DEF Advance, table, panel, servers, bounds
<1>2. ASSUME NEW k \in Ticks, TickStarts(k) PROVE RestTyped'
  BY <1>2 DEF TickStarts, table, panel, servers, bounds, history
<1>3. ASSUME NEW k \in Ticks, NEW t \in Tasks, TickFires(k, t) PROVE RestTyped'
  BY <1>3 DEF TickFires, table, panel, servers, bounds, history
<1>4. ASSUME NEW k \in Ticks, NEW t \in Tasks, TickPasses(k, t) PROVE RestTyped'
  BY <1>4 DEF TickPasses, table, panel, servers, bounds, history
<1>5. ASSUME NEW t \in Tasks, RunNowChecks(t) PROVE RestTyped'
  BY <1>5 DEF RunNowChecks, table, panel, servers, bounds, history
<1>6. ASSUME NEW t \in Tasks, RunNowStarts(t) PROVE RestTyped'
  BY <1>6 DEF RunNowStarts, table, panel, servers, bounds, history
<1>7. ASSUME NEW e \in Lists, SetDeletes(e) PROVE RestTyped'
  BY <1>7 DEF SetDeletes, table, panel, servers, bounds, history
<1>8. ASSUME NEW e \in Lists, SetSaves(e) PROVE RestTyped'
  BY <1>8 DEF SetSaves, table, panel, servers, bounds, history
<1>9. ASSUME NEW j \in Jobs, NEW i \in Insts, JobStops(j, i) PROVE RestTyped'
  BY <1>9 DEF JobStops, table, panel, servers, bounds, history
<1>10. ASSUME NEW j \in Jobs, JobStopped(j) PROVE RestTyped'
  <2>1. job[j].inst \in Insts
    BY <1>10 DEF JobStopped, JobsTyped, AtServer
  <2>2. lock' \subseteq Insts /\ pending' \subseteq Insts
    BY <1>10, <2>1 DEF JobStopped, Locked
  <2> QED BY <1>10, <2>2 DEF JobStopped, table, panel, bounds, history
<1>11. ASSUME NEW j \in Jobs, JobUpdated(j) PROVE RestTyped'
  BY <1>11 DEF JobUpdated, table, panel, servers, bounds, history
<1>12. ASSUME NEW j \in Jobs, JobStarts(j) PROVE RestTyped'
  BY <1>12 DEF JobStarts, StartServer, table, panel, servers, bounds, history
<1>13. ASSUME NEW j \in Jobs, JobOnline(j) PROVE RestTyped'
  BY <1>13 DEF JobOnline, table, panel, servers, bounds, history
<1>14. ASSUME NEW j \in Jobs, JobFails(j) PROVE RestTyped'
  BY <1>14 DEF JobFails, table, panel, servers, bounds, history
<1>15. ASSUME NEW j \in Jobs, JobFinally(j) PROVE RestTyped'
  BY <1>15 DEF JobFinally, Locked, OneShotDone, table, panel, servers, bounds,
     history
<1>16. ASSUME NEW j \in Jobs, JobLeaves(j) PROVE RestTyped'
  BY <1>16 DEF JobLeaves, table, panel, servers, bounds, history
<1>17. ASSUME NEW j \in Jobs, JobDisables(j) PROVE RestTyped'
  <2>1. job[j].task \in Tasks
    BY <1>17 DEF JobDisables, JobsTyped
  <2> QED BY <1>17, <2>1 DEF JobDisables, table, panel, servers, bounds, history
<1>18. ASSUME NEW j \in Jobs, JobEnds(j) PROVE RestTyped'
  BY <1>18 DEF JobEnds, table, servers, bounds
<1>19. ASSUME NEW i \in Insts, UserStarts(i) PROVE RestTyped'
  BY <1>19 DEF UserStarts, StartServer, table, panel, servers, bounds, history
<1>20. ASSUME NEW i \in Insts, ServerChanges(i) PROVE RestTyped'
  BY <1>20 DEF ServerChanges, table, panel, servers, bounds, history
<1>21. ASSUME NEW i \in Insts, WaiterEnds(i) PROVE RestTyped'
  BY <1>21 DEF WaiterEnds, table, panel, servers, bounds, history
<1>22. ASSUME NEW i \in Insts, ClearManual(i) PROVE RestTyped'
  BY <1>22 DEF ClearManual, table, panel, servers, bounds, history
<1>23. ASSUME PanelRestarts PROVE RestTyped'
  <2>1. boots' \in 0..MaxBoots
    BY <1>23 DEF PanelRestarts
  <2>2. /\ asks' \subseteq Tasks /\ saving' \subseteq Lists /\ waiters' \subseteq Insts
        /\ fired' \subseteq Tasks \X Nat /\ spent' \subseteq OneShots
        /\ failed' \subseteq Jobs
    BY <1>23 DEF PanelRestarts
  <2>3. /\ lastFire' \in [Tasks -> Nat \cup {Never}]
        /\ server' \in [Insts -> {"down", "starting", "running"}]
    BY <1>23 DEF PanelRestarts
  <2> QED BY <1>23, <2>1, <2>2, <2>3 DEF PanelRestarts, table
<1> QED BY Zenon, NextCases, <1>1, <1>2, <1>3, <1>4, <1>5, <1>6, <1>7, <1>8,
   <1>9, <1>10, <1>11, <1>12, <1>13, <1>14, <1>15, <1>16, <1>17, <1>18, <1>19,
   <1>20, <1>21, <1>22, <1>23

\* Two due times of a task are further apart than its window is wide, so a task
\* that has been run for one is not in that window any more when it is run for
\* another.
LEMMA StepFiredPast ==
    ASSUME RestTyped, FiredPast, Next PROVE FiredPast'
<1>1. ASSUME Advance PROVE FiredPast'
  <2>1. now' = now + 1 /\ lastFire' = lastFire /\ fired' = fired
    BY <1>1 DEF Advance, panel, history
  <2> QED BY <2>1, MaintenanceAssumption DEF FiredPast, RestTyped
<1>2. ASSUME NEW k \in Ticks, TickStarts(k) PROVE FiredPast'
  BY <1>2 DEF TickStarts, FiredPast, panel, history
<1>3. ASSUME NEW k \in Ticks, NEW t \in Tasks, TickFires(k, t) PROVE FiredPast'
  <2>1. PICK due \in Fires[t] :
          /\ InWindow(due) /\ lastFire' = [lastFire EXCEPT ![t] = due]
          /\ fired' = fired \cup {<<t, due>>} /\ now' = now
    BY <1>3 DEF TickFires
  <2> SUFFICES ASSUME NEW u \in Tasks, NEW m \in Nat, <<u, m>> \in fired'
               PROVE  /\ m \in Fires[u] /\ m - Early <= now
                      /\ lastFire'[u] = m \/ now >= m + Window
    BY <2>1 DEF FiredPast
  <2>2. due - Early <= now /\ now < due + Window /\ due \in Nat
    BY <2>1, MaintenanceAssumption DEF InWindow
  <2>3. CASE u # t
    BY <2>1, <2>3 DEF FiredPast, RestTyped
  <2>4. CASE u = t /\ m = due
    BY <2>1, <2>2, <2>4 DEF RestTyped
  <2>5. CASE u = t /\ m # due
    <3>1. m \in Fires[t] /\ m - Early <= now
      BY <2>1, <2>5 DEF FiredPast
    <3>2. m < due \/ due < m
      BY <2>2, <2>5
    <3>3. /\ m < due => m + JobMax + TickMax < due - Early
          /\ due < m => due + JobMax + TickMax < m - Early
      BY <3>1, MaintenanceAssumption
    <3>4. now >= m + Window
      BY <2>2, <3>1, <3>2, <3>3, MaintenanceAssumption DEF RestTyped
    <3> QED BY <2>5, <3>1, <3>4
  <2> QED BY <2>3, <2>4, <2>5
<1>4. ASSUME NEW k \in Ticks, NEW t \in Tasks, TickPasses(k, t) PROVE FiredPast'
  BY <1>4 DEF TickPasses, FiredPast, panel, history
<1>5. ASSUME NEW t \in Tasks, RunNowChecks(t) PROVE FiredPast'
  BY <1>5 DEF RunNowChecks, FiredPast, panel, history
<1>6. ASSUME NEW t \in Tasks, RunNowStarts(t) PROVE FiredPast'
  BY <1>6 DEF RunNowStarts, FiredPast, panel, history
<1>7. ASSUME NEW e \in Lists, SetDeletes(e) PROVE FiredPast'
  BY <1>7 DEF SetDeletes, FiredPast, panel, history
<1>8. ASSUME NEW e \in Lists, SetSaves(e) PROVE FiredPast'
  BY <1>8 DEF SetSaves, FiredPast, panel, history
<1>9. ASSUME NEW j \in Jobs, NEW i \in Insts, JobStops(j, i) PROVE FiredPast'
  BY <1>9 DEF JobStops, FiredPast, panel, history
<1>10. ASSUME NEW j \in Jobs, JobStopped(j) PROVE FiredPast'
  BY <1>10 DEF JobStopped, FiredPast, panel, history
<1>11. ASSUME NEW j \in Jobs, JobUpdated(j) PROVE FiredPast'
  BY <1>11 DEF JobUpdated, FiredPast, panel, history
<1>12. ASSUME NEW j \in Jobs, JobStarts(j) PROVE FiredPast'
  BY <1>12 DEF JobStarts, FiredPast, panel, history
<1>13. ASSUME NEW j \in Jobs, JobOnline(j) PROVE FiredPast'
  BY <1>13 DEF JobOnline, FiredPast, panel, history
<1>14. ASSUME NEW j \in Jobs, JobFails(j) PROVE FiredPast'
  BY <1>14 DEF JobFails, FiredPast, panel, history
<1>15. ASSUME NEW j \in Jobs, JobFinally(j) PROVE FiredPast'
  BY <1>15 DEF JobFinally, FiredPast, panel, history
<1>16. ASSUME NEW j \in Jobs, JobLeaves(j) PROVE FiredPast'
  BY <1>16 DEF JobLeaves, FiredPast, panel, history
<1>17. ASSUME NEW j \in Jobs, JobDisables(j) PROVE FiredPast'
  BY <1>17 DEF JobDisables, FiredPast, panel, history
<1>18. ASSUME NEW j \in Jobs, JobEnds(j) PROVE FiredPast'
  BY <1>18 DEF JobEnds, FiredPast, panel, history
<1>19. ASSUME NEW i \in Insts, UserStarts(i) PROVE FiredPast'
  BY <1>19 DEF UserStarts, FiredPast, panel, history
<1>20. ASSUME NEW i \in Insts, ServerChanges(i) PROVE FiredPast'
  BY <1>20 DEF ServerChanges, FiredPast, panel, history
<1>21. ASSUME NEW i \in Insts, WaiterEnds(i) PROVE FiredPast'
  BY <1>21 DEF WaiterEnds, FiredPast, panel, history
<1>22. ASSUME NEW i \in Insts, ClearManual(i) PROVE FiredPast'
  BY <1>22 DEF ClearManual, FiredPast, panel, history
<1>23. ASSUME PanelRestarts PROVE FiredPast'
  BY <1>23 DEF PanelRestarts, FiredPast
<1> QED BY Zenon, NextCases, <1>1, <1>2, <1>3, <1>4, <1>5, <1>6, <1>7, <1>8,
   <1>9, <1>10, <1>11, <1>12, <1>13, <1>14, <1>15, <1>16, <1>17, <1>18, <1>19,
   <1>20, <1>21, <1>22, <1>23

\* A scheduled job begins only when the flag is clear, and the flag is cleared
\* only where muddled says so if a scheduled job remains.
LEMMA StepOneScheduled ==
    ASSUME JobsTyped, OneScheduled, Next PROVE OneScheduled'
<1>1. ASSUME Advance PROVE OneScheduled'
  BY <1>1 DEF Advance, OneScheduled, Scheduled, panel, history
<1>2. ASSUME NEW k \in Ticks, TickStarts(k) PROVE OneScheduled'
  BY <1>2 DEF TickStarts, OneScheduled, Scheduled, panel, history
<1>3. ASSUME NEW k \in Ticks, NEW t \in Tasks, TickFires(k, t) PROVE OneScheduled'
  <2>1. PICK due \in Fires[t], j \in Jobs : Begin(j, t, due)
    BY <1>3 DEF TickFires
  <2>2. Scheduled' \subseteq Scheduled \cup {j}
    BY <2>1 DEF Begin, Scheduled, JobsTyped
  <2>3. ~jobRunning /\ jobRunning' /\ muddled' = muddled
    BY <1>3 DEF TickFires
  <2> QED BY <2>2, <2>3 DEF OneScheduled
<1>4. ASSUME NEW k \in Ticks, NEW t \in Tasks, TickPasses(k, t) PROVE OneScheduled'
  BY <1>4 DEF TickPasses, OneScheduled, Scheduled, panel, history
<1>5. ASSUME NEW t \in Tasks, RunNowChecks(t) PROVE OneScheduled'
  BY <1>5 DEF RunNowChecks, OneScheduled, Scheduled, panel, history
<1>6. ASSUME NEW t \in Tasks, RunNowStarts(t) PROVE OneScheduled'
  <2>1. Scheduled' = Scheduled
    <3>1. CASE UNCHANGED job
      BY <3>1 DEF Scheduled
    <3>2. CASE \E j \in Jobs : Begin(j, t, Manual)
      BY <3>2 DEF Begin, Scheduled, JobsTyped
    <3> QED BY <1>6, <3>1, <3>2 DEF RunNowStarts
  <2> QED BY <1>6, <2>1 DEF RunNowStarts, OneScheduled, panel, history
<1>7. ASSUME NEW e \in Lists, SetDeletes(e) PROVE OneScheduled'
  BY <1>7 DEF SetDeletes, OneScheduled, Scheduled, panel, history
<1>8. ASSUME NEW e \in Lists, SetSaves(e) PROVE OneScheduled'
  BY <1>8 DEF SetSaves, OneScheduled, Scheduled, panel, history
<1>9. ASSUME NEW j \in Jobs, NEW i \in Insts, JobStops(j, i) PROVE OneScheduled'
  <2>1. Scheduled' = Scheduled
    BY <1>9 DEF JobStops, JobsTyped, JobRec, Scheduled
  <2> QED BY <1>9, <2>1 DEF JobStops, OneScheduled, panel, history
<1>10. ASSUME NEW j \in Jobs, JobStopped(j) PROVE OneScheduled'
  <2>1. job[j].task \in Tasks
    BY <1>10 DEF JobStopped, JobsTyped
  <2>2. PICK pc \in {"update", "finally", "start"}, held \in BOOLEAN :
          job' = [job EXCEPT ![j].pc = pc, ![j].held = held]
    BY <1>10, <2>1, MaintenanceAssumption DEF JobStopped
  <2>3. job[j].pc # "idle"
    BY <1>10 DEF JobStopped
  <2>4. Scheduled' = Scheduled
    BY <2>2, <2>3 DEF JobsTyped, JobRec, Scheduled
  <2> QED BY <1>10, <2>4 DEF JobStopped, OneScheduled, panel, history
<1>11. ASSUME NEW j \in Jobs, JobUpdated(j) PROVE OneScheduled'
  <2>1. Scheduled' = Scheduled
    BY <1>11 DEF JobUpdated, To, JobsTyped, JobRec, Scheduled
  <2> QED BY <1>11, <2>1 DEF JobUpdated, OneScheduled, panel, history
<1>12. ASSUME NEW j \in Jobs, JobStarts(j) PROVE OneScheduled'
  <2>1. Scheduled' = Scheduled
    BY <1>12 DEF JobStarts, JobsTyped, JobRec, Scheduled
  <2> QED BY <1>12, <2>1 DEF JobStarts, OneScheduled, panel, history
<1>13. ASSUME NEW j \in Jobs, JobOnline(j) PROVE OneScheduled'
  <2>1. Scheduled' = Scheduled
    BY <1>13 DEF JobOnline, To, JobsTyped, JobRec, Scheduled
  <2> QED BY <1>13, <2>1 DEF JobOnline, OneScheduled, panel, history
<1>14. ASSUME NEW j \in Jobs, JobFails(j) PROVE OneScheduled'
  <2>1. Scheduled' = Scheduled
    BY <1>14 DEF JobFails, JobsTyped, JobRec, Scheduled
  <2> QED BY <1>14, <2>1 DEF JobFails, OneScheduled, panel, history
<1>15. ASSUME NEW j \in Jobs, JobFinally(j) PROVE OneScheduled'
  <2>1. Scheduled' = Scheduled
    BY <1>15 DEF JobFinally, JobsTyped, JobRec, Scheduled
  <2> QED BY <1>15, <2>1 DEF JobFinally, OneScheduled, panel, history
<1>16. ASSUME NEW j \in Jobs, JobLeaves(j) PROVE OneScheduled'
  <2>1. Scheduled' = Scheduled
    BY <1>16 DEF JobLeaves, To, JobsTyped, JobRec, Scheduled
  <2> QED BY <1>16, <2>1 DEF JobLeaves, OneScheduled, panel, history
<1>17. ASSUME NEW j \in Jobs, JobDisables(j) PROVE OneScheduled'
  <2>1. Scheduled' = Scheduled
    BY <1>17 DEF JobDisables, To, JobsTyped, JobRec, Scheduled
  <2> QED BY <1>17, <2>1 DEF JobDisables, OneScheduled, panel, history
<1>18. ASSUME NEW j \in Jobs, JobEnds(j) PROVE OneScheduled'
  <2>1. Scheduled' = Scheduled \ {j}
    BY <1>18 DEF JobEnds, NoJob, Scheduled, JobsTyped
  <2>2. muddled' = (Scheduled \ {j} # {})
    BY <1>18 DEF JobEnds
  <2> QED BY <2>1, <2>2 DEF OneScheduled
<1>19. ASSUME NEW i \in Insts, UserStarts(i) PROVE OneScheduled'
  BY <1>19 DEF UserStarts, OneScheduled, Scheduled, panel, history
<1>20. ASSUME NEW i \in Insts, ServerChanges(i) PROVE OneScheduled'
  BY <1>20 DEF ServerChanges, OneScheduled, Scheduled, panel, history
<1>21. ASSUME NEW i \in Insts, WaiterEnds(i) PROVE OneScheduled'
  BY <1>21 DEF WaiterEnds, OneScheduled, Scheduled, panel, history
<1>22. ASSUME NEW i \in Insts, ClearManual(i) PROVE OneScheduled'
  BY <1>22 DEF ClearManual, OneScheduled, Scheduled, panel, history
<1>23. ASSUME PanelRestarts PROVE OneScheduled'
  <2>1. Scheduled' = {}
    BY <1>23 DEF PanelRestarts, NoJob, Scheduled
  <2> QED BY <2>1 DEF OneScheduled
<1> QED BY Zenon, NextCases, <1>1, <1>2, <1>3, <1>4, <1>5, <1>6, <1>7, <1>8,
   <1>9, <1>10, <1>11, <1>12, <1>13, <1>14, <1>15, <1>16, <1>17, <1>18, <1>19,
   <1>20, <1>21, <1>22, <1>23

\* A job that begins is a manual run or for a due time not yet run.
LEMMA StepFiresOnce ==
    ASSUME IInv, Next, NEW l \in Jobs, job[l].pc = "idle", job'[l].pc # "idle"
    PROVE  job'[l].run = Manual \/ <<job'[l].task, job'[l].run>> \notin fired
<1> SUFFICES ASSUME job'[l].run # Manual, <<job'[l].task, job'[l].run>> \in fired
             PROVE  FALSE
  OBVIOUS
<1> USE DEF IInv, TypeOK
<1>1. ASSUME Advance PROVE FALSE
  BY <1>1 DEF Advance, JobsTyped
<1>2. ASSUME NEW k \in Ticks, TickStarts(k) PROVE FALSE
  BY <1>2 DEF TickStarts, JobsTyped
<1>3. ASSUME NEW k \in Ticks, NEW t \in Tasks, TickFires(k, t) PROVE FALSE
  <2>1. PICK due \in Fires[t], j \in Jobs :
          /\ Begin(j, t, due) /\ InWindow(due) /\ lastFire[t] # due
    BY <1>3 DEF TickFires
  <2>2. due \in Nat /\ now < due + Window
    BY <2>1, MaintenanceAssumption DEF InWindow
  <2>3. <<t, due>> \notin fired
    BY <2>1, <2>2, MaintenanceAssumption DEF FiredPast, RestTyped
  <2>4. l = j
    BY <2>1 DEF Begin, JobsTyped
  <2>5. job'[l].task = t /\ job'[l].run = due
    BY <2>1, <2>4 DEF Begin, JobsTyped
  <2> QED BY <2>3, <2>5
<1>4. ASSUME NEW k \in Ticks, NEW t \in Tasks, TickPasses(k, t) PROVE FALSE
  BY <1>4 DEF TickPasses, JobsTyped
<1>5. ASSUME NEW t \in Tasks, RunNowChecks(t) PROVE FALSE
  BY <1>5 DEF RunNowChecks, JobsTyped
<1>6. ASSUME NEW t \in Tasks, RunNowStarts(t) PROVE FALSE
  <2>1. PICK j \in Jobs : Begin(j, t, Manual)
    BY <1>6 DEF RunNowStarts
  <2>2. l = j
    BY <2>1 DEF Begin, JobsTyped
  <2> QED BY <2>1, <2>2 DEF Begin, JobsTyped
<1>7. ASSUME NEW e \in Lists, SetDeletes(e) PROVE FALSE
  BY <1>7 DEF SetDeletes, JobsTyped
<1>8. ASSUME NEW e \in Lists, SetSaves(e) PROVE FALSE
  BY <1>8 DEF SetSaves, JobsTyped
<1>9. ASSUME NEW j \in Jobs, NEW i \in Insts, JobStops(j, i) PROVE FALSE
  BY <1>9 DEF JobStops, JobsTyped
<1>10. ASSUME NEW j \in Jobs, JobStopped(j) PROVE FALSE
  BY <1>10 DEF JobStopped, JobsTyped
<1>11. ASSUME NEW j \in Jobs, JobUpdated(j) PROVE FALSE
  BY <1>11 DEF JobUpdated, To, JobsTyped
<1>12. ASSUME NEW j \in Jobs, JobStarts(j) PROVE FALSE
  BY <1>12 DEF JobStarts, JobsTyped
<1>13. ASSUME NEW j \in Jobs, JobOnline(j) PROVE FALSE
  BY <1>13 DEF JobOnline, To, JobsTyped
<1>14. ASSUME NEW j \in Jobs, JobFails(j) PROVE FALSE
  BY <1>14 DEF JobFails, JobsTyped
<1>15. ASSUME NEW j \in Jobs, JobFinally(j) PROVE FALSE
  BY <1>15 DEF JobFinally, JobsTyped
<1>16. ASSUME NEW j \in Jobs, JobLeaves(j) PROVE FALSE
  BY <1>16 DEF JobLeaves, To, JobsTyped
<1>17. ASSUME NEW j \in Jobs, JobDisables(j) PROVE FALSE
  BY <1>17 DEF JobDisables, To, JobsTyped
<1>18. ASSUME NEW j \in Jobs, JobEnds(j) PROVE FALSE
  BY <1>18 DEF JobEnds, NoJob, JobsTyped
<1>19. ASSUME NEW i \in Insts, UserStarts(i) PROVE FALSE
  BY <1>19 DEF UserStarts, JobsTyped
<1>20. ASSUME NEW i \in Insts, ServerChanges(i) PROVE FALSE
  BY <1>20 DEF ServerChanges, JobsTyped
<1>21. ASSUME NEW i \in Insts, WaiterEnds(i) PROVE FALSE
  BY <1>21 DEF WaiterEnds, JobsTyped
<1>22. ASSUME NEW i \in Insts, ClearManual(i) PROVE FALSE
  BY <1>22 DEF ClearManual, JobsTyped
<1>23. ASSUME PanelRestarts PROVE FALSE
  BY <1>23 DEF PanelRestarts, NoJob, JobsTyped
<1> QED BY Zenon, NextCases, <1>1, <1>2, <1>3, <1>4, <1>5, <1>6, <1>7, <1>8,
   <1>9, <1>10, <1>11, <1>12, <1>13, <1>14, <1>15, <1>16, <1>17, <1>18, <1>19,
   <1>20, <1>21, <1>22, <1>23

\* A panel that starts satisfies the inductive invariant.
LEMMA InitIInv == Init => IInv
<1> SUFFICES ASSUME Init PROVE IInv
  OBVIOUS
<1>1. JobsTyped
  BY DEF Init, JobsTyped, JobRec, NoJob, Manual, AtServer
<1>2. TicksTyped
  BY DEF Init, TicksTyped, TickRec, NoTick
<1>3. RestTyped
  <2>1. /\ now \in 0..Horizon /\ manuals \in 0..MaxManual
        /\ edits \in 0..MaxEdits /\ boots \in 0..MaxBoots
    BY MaintenanceAssumption DEF Init
  <2>2. server \in [Insts -> {"down", "starting", "running"}]
    BY DEF Init
  <2>3. lastFire \in [Tasks -> Nat \cup {Never}]
    BY DEF Init
  <2> QED BY <2>1, <2>2, <2>3 DEF Init, RestTyped
<1>4. FiredPast /\ OneScheduled
  BY DEF Init, FiredPast, OneScheduled, Scheduled, NoJob
<1> QED BY <1>1, <1>2, <1>3, <1>4 DEF IInv, TypeOK

\* The inductive invariant speaks of the variables alone.
LEMMA StutterIInv == ASSUME IInv, UNCHANGED vars PROVE IInv'
BY DEF IInv, TypeOK, JobsTyped, TicksTyped, RestTyped, FiredPast, OneScheduled,
       Scheduled, vars, table, panel, servers, bounds, history

\* For every set of tasks, servers and due times, every step of maintenance
\* keeps the inductive invariant.
THEOREM Invariance == Spec => []IInv
<1>1. ASSUME IInv, [Next]_vars PROVE IInv'
  <2>1. CASE Next
    BY <1>1, <2>1, StepJobs, StepTicks, StepRest, StepFiredPast,
       StepOneScheduled DEF IInv, TypeOK
  <2>2. CASE UNCHANGED vars
    BY <1>1, <2>2, StutterIInv
  <2> QED BY <1>1, <2>1, <2>2
<1> QED BY InitIInv, <1>1, PTL DEF Spec

\* The state of MaintenanceService is well typed.
THEOREM TypeCorrect == Spec => []TypeOK
<1>1. IInv => TypeOK
  BY DEF IInv
<1> QED BY Invariance, <1>1, PTL

\* Scheduled jobs exclude each other by jobRunning, unless another job's end has
\* cleared it.
THEOREM SchedulesExclude == Spec => []ScheduledExclude
<1>1. ASSUME IInv PROVE ScheduledExclude
  <2> SUFFICES ASSUME ~muddled PROVE ~(Cardinality(Scheduled) > 1)
    BY DEF ScheduledExclude
  <2>1. \A j, l \in Scheduled : j = l
    BY <1>1 DEF IInv, OneScheduled
  <2>2. CASE Scheduled = {}
    BY <2>2, FS_EmptySet
  <2>3. CASE Scheduled # {}
    <3>1. PICK j \in Scheduled : Scheduled = {j}
      BY <2>1, <2>3
    <3>2. Cardinality({j}) = 1
      BY FS_Singleton
    <3> QED BY <3>1, <3>2
  <2> QED BY <2>2, <2>3
<1> QED BY Invariance, <1>1, PTL

\* However ticks overlap, in one life of the panel a task is run at most once
\* for each of its due times.
THEOREM OncePerDueTime == Spec => FiredOnce
<1>1. ASSUME IInv, [Next]_vars
      PROVE  [\A j \in Jobs : Starts(job'[j].task, job'[j].run)
                  => <<job'[j].task, job'[j].run>> \notin fired]_vars
  <2>1. CASE UNCHANGED vars
    BY <2>1
  <2>2. CASE Next
    <3> SUFFICES ASSUME NEW j \in Jobs, Starts(job'[j].task, job'[j].run)
                 PROVE  <<job'[j].task, job'[j].run>> \notin fired
      OBVIOUS
    <3>1. PICK l \in Jobs :
             /\ job[l].pc = "idle" /\ job'[l].pc # "idle"
             /\ job'[l].task = job'[j].task /\ job'[l].run = job'[j].run
      BY DEF Starts
    <3>2. job'[l].run # Manual
      BY <3>1 DEF Starts
    <3>3. <<job'[l].task, job'[l].run>> \notin fired
      BY <1>1, <2>2, <3>1, <3>2, StepFiresOnce
    <3> QED BY <3>1, <3>3
  <2> QED BY <1>1, <2>1, <2>2
<1> QED BY Invariance, <1>1, PTL DEF Spec, FiredOnce

\* Neither a failed start nor a restart of the panel ends manual maintenance.
LEMMA StepManualKept ==
    ASSUME Next, NEW s \in Insts, s \in pending, s \notin pending'
    PROVE  server[s] = "running" \/ ClearManual(s)
<1> SUFFICES ASSUME server[s] # "running", ~ClearManual(s) PROVE FALSE
  OBVIOUS
<1>1. ASSUME Advance PROVE FALSE
  BY <1>1 DEF Advance, servers
<1>2. ASSUME NEW k \in Ticks, TickStarts(k) PROVE FALSE
  BY <1>2 DEF TickStarts, servers
<1>3. ASSUME NEW k \in Ticks, NEW t \in Tasks, TickFires(k, t) PROVE FALSE
  BY <1>3 DEF TickFires, servers
<1>4. ASSUME NEW k \in Ticks, NEW t \in Tasks, TickPasses(k, t) PROVE FALSE
  BY <1>4 DEF TickPasses, servers
<1>5. ASSUME NEW t \in Tasks, RunNowChecks(t) PROVE FALSE
  BY <1>5 DEF RunNowChecks, servers
<1>6. ASSUME NEW t \in Tasks, RunNowStarts(t) PROVE FALSE
  BY <1>6 DEF RunNowStarts, servers
<1>7. ASSUME NEW e \in Lists, SetDeletes(e) PROVE FALSE
  BY <1>7 DEF SetDeletes, servers
<1>8. ASSUME NEW e \in Lists, SetSaves(e) PROVE FALSE
  BY <1>8 DEF SetSaves, servers
<1>9. ASSUME NEW j \in Jobs, NEW i \in Insts, JobStops(j, i) PROVE FALSE
  BY <1>9 DEF JobStops, servers
<1>10. ASSUME NEW j \in Jobs, JobStopped(j) PROVE FALSE
  BY <1>10 DEF JobStopped, servers
<1>11. ASSUME NEW j \in Jobs, JobUpdated(j) PROVE FALSE
  BY <1>11 DEF JobUpdated, servers
<1>12. ASSUME NEW j \in Jobs, JobStarts(j) PROVE FALSE
  BY <1>12 DEF JobStarts, servers
<1>13. ASSUME NEW j \in Jobs, JobOnline(j) PROVE FALSE
  BY <1>13 DEF JobOnline, servers
<1>14. ASSUME NEW j \in Jobs, JobFails(j) PROVE FALSE
  BY <1>14 DEF JobFails, servers
<1>15. ASSUME NEW j \in Jobs, JobFinally(j) PROVE FALSE
  BY <1>15 DEF JobFinally, servers
<1>16. ASSUME NEW j \in Jobs, JobLeaves(j) PROVE FALSE
  BY <1>16 DEF JobLeaves, servers
<1>17. ASSUME NEW j \in Jobs, JobDisables(j) PROVE FALSE
  BY <1>17 DEF JobDisables, servers
<1>18. ASSUME NEW j \in Jobs, JobEnds(j) PROVE FALSE
  BY <1>18 DEF JobEnds, servers
<1>19. ASSUME NEW i \in Insts, UserStarts(i) PROVE FALSE
  BY <1>19 DEF UserStarts, servers
<1>20. ASSUME NEW i \in Insts, ServerChanges(i) PROVE FALSE
  BY <1>20 DEF ServerChanges, servers
<1>21. ASSUME NEW i \in Insts, WaiterEnds(i) PROVE FALSE
  BY <1>21 DEF WaiterEnds, servers
<1>22. ASSUME NEW i \in Insts, ClearManual(i) PROVE FALSE
  BY <1>22 DEF ClearManual
<1>23. ASSUME PanelRestarts PROVE FALSE
  BY <1>23 DEF PanelRestarts, servers
<1> QED BY Zenon, NextCases, <1>1, <1>2, <1>3, <1>4, <1>5, <1>6, <1>7, <1>8,
   <1>9, <1>10, <1>11, <1>12, <1>13, <1>14, <1>15, <1>16, <1>17, <1>18, <1>19,
   <1>20, <1>21, <1>22, <1>23

\* A server waits for manual updates until it runs or its user says so, whatever
\* else happens to it and to the panel.
THEOREM ManualStays == Spec => ManualModeKept
<1>1. ASSUME [Next]_vars
      PROVE  [\A i \in Insts : i \in pending /\ i \notin pending'
                  => server[i] = "running" \/ ClearManual(i)]_vars
  <2>1. CASE UNCHANGED vars
    BY <2>1
  <2>2. CASE Next
    BY <2>2, StepManualKept
  <2> QED BY <1>1, <2>1, <2>2
<1> QED BY <1>1, PTL DEF Spec, ManualModeKept

-----------------------------------------------------------------------------
(***************************************************************************)
(* A one-shot task that is done is not run again.  A tick may hold it from *)
(* before it was switched off, so the proof measures how old such a tick   *)
(* can be: unless a tick or a job has overrun, it began before the job's   *)
(* time was over, its own time is short, and the next due time is too far  *)
(* away for it to reach.                                                   *)
(***************************************************************************)

\* A scheduled job is remembered as fired, and its time is not over, unless
\* something has overrun.
JobTimes ==
    \A j \in Scheduled : /\ <<job[j].task, job[j].run>> \in fired
                         /\ ~overran => now <= job[j].run + JobMax

\* The time of a tick at work is not over, with the same exception.
TickTimes ==
    \A k \in Ticks : tick[k].pc # "idle" =>
        tick[k].at <= now /\ (~overran => now <= tick[k].at + TickMax)

\* A tick that still holds a task that is done began while the task's job was in
\* its time.
SpentLate ==
    ~overran => \A t \in spent, k \in Ticks : tick[k].pc # "idle" /\ t \in tick[k].todo =>
        \E n \in Fires[t] : <<t, n>> \in fired /\ tick[k].at <= n + JobMax

\* Where a task that is done is still switched on, the job that did it is about
\* to switch it off.
SwitchesOff(j, t) ==
    /\ j \in Scheduled /\ job[j].task = t /\ job[j].pc \in {"next", "disable"}
    /\ OneShotDone(j) /\ job[j].todo = {}

Finishing == \A t \in spent \cap active : \E j \in Jobs : SwitchesOff(j, t)

\* A job that has failed at a server is not all well, and not about to switch its
\* task off.
FailedStays == \A j \in failed : ~job[j].ok /\ job[j].pc \notin {"idle", "disable"}

OnceInv == JobTimes /\ TickTimes /\ SpentLate /\ Finishing /\ FailedStays

\* The scheduled jobs are those there were, none begins, and time stands still.
Settled ==
    /\ now' = now /\ fired' = fired /\ overran' = overran
    /\ \A j \in Scheduled' : /\ j \in Scheduled
                             /\ job'[j].task = job[j].task /\ job'[j].run = job[j].run

\* Every step but these leaves the due times and the jobs begun as they were.
LEMMA StepSettled ==
    ASSUME JobsTyped, Next, ~Advance, ~PanelRestarts,
           \A k \in Ticks, t \in Tasks : ~TickFires(k, t)
    PROVE  Settled
<1>1. ASSUME Advance PROVE Settled
  BY <1>1
<1>2. ASSUME NEW k \in Ticks, TickStarts(k) PROVE Settled
  BY <1>2 DEF TickStarts, Settled, Scheduled, JobsTyped, history
<1>3. ASSUME NEW k \in Ticks, NEW t \in Tasks, TickFires(k, t) PROVE Settled
  BY <1>3
<1>4. ASSUME NEW k \in Ticks, NEW t \in Tasks, TickPasses(k, t) PROVE Settled
  BY <1>4 DEF TickPasses, Settled, Scheduled, JobsTyped, history
<1>5. ASSUME NEW t \in Tasks, RunNowChecks(t) PROVE Settled
  BY <1>5 DEF RunNowChecks, Settled, Scheduled, JobsTyped, history
<1>6. ASSUME NEW t \in Tasks, RunNowStarts(t) PROVE Settled
  <2>1. CASE UNCHANGED job
    BY <1>6, <2>1 DEF RunNowStarts, Settled, Scheduled, history
  <2>2. CASE \E j \in Jobs : Begin(j, t, Manual)
    BY <1>6, <2>2 DEF RunNowStarts, Begin, Settled, Scheduled, JobsTyped, history
  <2> QED BY <1>6, <2>1, <2>2 DEF RunNowStarts
<1>7. ASSUME NEW e \in Lists, SetDeletes(e) PROVE Settled
  BY <1>7 DEF SetDeletes, Settled, Scheduled, JobsTyped, history
<1>8. ASSUME NEW e \in Lists, SetSaves(e) PROVE Settled
  BY <1>8 DEF SetSaves, Settled, Scheduled, JobsTyped, history
<1>9. ASSUME NEW j \in Jobs, NEW i \in Insts, JobStops(j, i) PROVE Settled
  BY <1>9 DEF JobStops, Settled, Scheduled, JobsTyped, JobRec, history
<1>10. ASSUME NEW j \in Jobs, JobStopped(j) PROVE Settled
  <2>1. job[j].task \in Tasks
    BY <1>10 DEF JobStopped, JobsTyped
  <2>2. PICK pc \in {"update", "finally", "start"}, held \in BOOLEAN :
          job' = [job EXCEPT ![j].pc = pc, ![j].held = held]
    BY <1>10, <2>1, MaintenanceAssumption DEF JobStopped
  <2> QED BY <1>10, <2>2 DEF JobStopped, Settled, Scheduled, JobsTyped, JobRec, history
<1>11. ASSUME NEW j \in Jobs, JobUpdated(j) PROVE Settled
  BY <1>11 DEF JobUpdated, To, Settled, Scheduled, JobsTyped, JobRec, history
<1>12. ASSUME NEW j \in Jobs, JobStarts(j) PROVE Settled
  BY <1>12 DEF JobStarts, Settled, Scheduled, JobsTyped, JobRec, history
<1>13. ASSUME NEW j \in Jobs, JobOnline(j) PROVE Settled
  BY <1>13 DEF JobOnline, To, Settled, Scheduled, JobsTyped, JobRec, history
<1>14. ASSUME NEW j \in Jobs, JobFails(j) PROVE Settled
  BY <1>14 DEF JobFails, Settled, Scheduled, JobsTyped, JobRec, history
<1>15. ASSUME NEW j \in Jobs, JobFinally(j) PROVE Settled
  BY <1>15 DEF JobFinally, Settled, Scheduled, JobsTyped, JobRec, history
<1>16. ASSUME NEW j \in Jobs, JobLeaves(j) PROVE Settled
  BY <1>16 DEF JobLeaves, To, Settled, Scheduled, JobsTyped, JobRec, history
<1>17. ASSUME NEW j \in Jobs, JobDisables(j) PROVE Settled
  BY <1>17 DEF JobDisables, To, Settled, Scheduled, JobsTyped, JobRec, history
<1>18. ASSUME NEW j \in Jobs, JobEnds(j) PROVE Settled
  BY <1>18 DEF JobEnds, NoJob, Settled, Scheduled, JobsTyped
<1>19. ASSUME NEW i \in Insts, UserStarts(i) PROVE Settled
  BY <1>19 DEF UserStarts, Settled, Scheduled, JobsTyped, history
<1>20. ASSUME NEW i \in Insts, ServerChanges(i) PROVE Settled
  BY <1>20 DEF ServerChanges, Settled, Scheduled, JobsTyped, history
<1>21. ASSUME NEW i \in Insts, WaiterEnds(i) PROVE Settled
  BY <1>21 DEF WaiterEnds, Settled, Scheduled, JobsTyped, history
<1>22. ASSUME NEW i \in Insts, ClearManual(i) PROVE Settled
  BY <1>22 DEF ClearManual, Settled, Scheduled, JobsTyped, history
<1>23. ASSUME PanelRestarts PROVE Settled
  BY <1>23
<1> QED BY Zenon, NextCases, <1>1, <1>2, <1>3, <1>4, <1>5, <1>6, <1>7, <1>8,
   <1>9, <1>10, <1>11, <1>12, <1>13, <1>14, <1>15, <1>16, <1>17, <1>18, <1>19,
   <1>20, <1>21, <1>22, <1>23
\* A job begins in its window, which is within its time; and time passes for no
\* job beyond it.
LEMMA StepJobTimes == ASSUME IInv, JobTimes, Next PROVE JobTimes'
<1> USE DEF IInv, TypeOK
<1>1. CASE Advance
  <2>1. Scheduled' = Scheduled /\ job' = job /\ fired' = fired /\ now' = now + 1
    BY <1>1 DEF Advance, Scheduled
  <2> SUFFICES ASSUME NEW j \in Scheduled, ~overran' PROVE now' <= job[j].run + JobMax
    BY <2>1 DEF JobTimes
  <2>2. ~Overruns
    BY <1>1, Zenon DEF Advance
  <2>3. ~(now >= job[j].run + JobMax)
    BY <2>2, Zenon DEF Overruns
  <2>4. job[j].run \in Int /\ JobMax \in Nat /\ now \in Nat
    BY MaintenanceAssumption DEF JobsTyped, JobRec, Scheduled, RestTyped
  <2> QED BY <2>1, <2>3, <2>4
<1>2. CASE PanelRestarts
  BY <1>2 DEF PanelRestarts, NoJob, JobTimes, Scheduled
<1>3. ASSUME NEW k \in Ticks, NEW t \in Tasks, TickFires(k, t) PROVE JobTimes'
  <2>1. PICK due \in Fires[t], j \in Jobs :
          /\ Begin(j, t, due) /\ InWindow(due) /\ fired' = fired \cup {<<t, due>>}
    BY <1>3 DEF TickFires
  <2>2. now' = now /\ overran' = overran
    BY <1>3 DEF TickFires
  <2>3. now <= due + JobMax
    <3>1. due \in Nat /\ now \in Nat /\ Window \in Nat /\ JobMax \in Nat
          /\ Window <= JobMax
      BY MaintenanceAssumption DEF RestTyped
    <3>2. now < due + Window
      BY <2>1 DEF InWindow
    <3> QED BY <3>1, <3>2
  <2>4. job'[j].task = t /\ job'[j].run = due
    BY <2>1 DEF Begin, JobsTyped
  <2>5. \A l \in Jobs : l # j => job'[l] = job[l]
    BY <2>1 DEF Begin, JobsTyped
  <2>6. \A l \in Scheduled' : l = j \/ l \in Scheduled
    BY <2>5 DEF Scheduled
  <2> SUFFICES ASSUME NEW l \in Scheduled'
               PROVE  /\ <<job'[l].task, job'[l].run>> \in fired'
                      /\ ~overran' => now' <= job'[l].run + JobMax
    BY DEF JobTimes
  <2>7. CASE l = j
    BY <2>1, <2>2, <2>3, <2>4, <2>7
  <2>8. CASE l # j
    <3>1. l \in Scheduled /\ job'[l] = job[l]
      BY <2>5, <2>6, <2>8 DEF Scheduled
    <3> QED BY <2>1, <2>2, <3>1 DEF JobTimes
  <2> QED BY <2>7, <2>8
<1>4. CASE Settled
  BY <1>4 DEF Settled, JobTimes
<1> QED BY <1>1, <1>2, <1>3, <1>4, StepSettled

\* A step that is no tick's and not the clock's leaves the ticks alone.
LEMMA StepTickAlone ==
    ASSUME Next, ~PanelRestarts,
           \A k \in Ticks : /\ ~TickStarts(k)
                            /\ \A t \in Tasks : ~TickFires(k, t) /\ ~TickPasses(k, t)
    PROVE  tick' = tick
<1>1. ASSUME Advance PROVE tick' = tick
  BY <1>1 DEF Advance
<1>2. ASSUME NEW k \in Ticks, TickStarts(k) PROVE tick' = tick
  BY <1>2
<1>3. ASSUME NEW k \in Ticks, NEW t \in Tasks, TickFires(k, t) PROVE tick' = tick
  BY <1>3
<1>4. ASSUME NEW k \in Ticks, NEW t \in Tasks, TickPasses(k, t) PROVE tick' = tick
  BY <1>4
<1>5. ASSUME NEW t \in Tasks, RunNowChecks(t) PROVE tick' = tick
  BY <1>5 DEF RunNowChecks
<1>6. ASSUME NEW t \in Tasks, RunNowStarts(t) PROVE tick' = tick
  BY <1>6 DEF RunNowStarts
<1>7. ASSUME NEW e \in Lists, SetDeletes(e) PROVE tick' = tick
  BY <1>7 DEF SetDeletes
<1>8. ASSUME NEW e \in Lists, SetSaves(e) PROVE tick' = tick
  BY <1>8 DEF SetSaves
<1>9. ASSUME NEW j \in Jobs, NEW i \in Insts, JobStops(j, i) PROVE tick' = tick
  BY <1>9 DEF JobStops
<1>10. ASSUME NEW j \in Jobs, JobStopped(j) PROVE tick' = tick
  BY <1>10 DEF JobStopped
<1>11. ASSUME NEW j \in Jobs, JobUpdated(j) PROVE tick' = tick
  BY <1>11 DEF JobUpdated
<1>12. ASSUME NEW j \in Jobs, JobStarts(j) PROVE tick' = tick
  BY <1>12 DEF JobStarts
<1>13. ASSUME NEW j \in Jobs, JobOnline(j) PROVE tick' = tick
  BY <1>13 DEF JobOnline
<1>14. ASSUME NEW j \in Jobs, JobFails(j) PROVE tick' = tick
  BY <1>14 DEF JobFails
<1>15. ASSUME NEW j \in Jobs, JobFinally(j) PROVE tick' = tick
  BY <1>15 DEF JobFinally
<1>16. ASSUME NEW j \in Jobs, JobLeaves(j) PROVE tick' = tick
  BY <1>16 DEF JobLeaves
<1>17. ASSUME NEW j \in Jobs, JobDisables(j) PROVE tick' = tick
  BY <1>17 DEF JobDisables
<1>18. ASSUME NEW j \in Jobs, JobEnds(j) PROVE tick' = tick
  BY <1>18 DEF JobEnds
<1>19. ASSUME NEW i \in Insts, UserStarts(i) PROVE tick' = tick
  BY <1>19 DEF UserStarts
<1>20. ASSUME NEW i \in Insts, ServerChanges(i) PROVE tick' = tick
  BY <1>20 DEF ServerChanges
<1>21. ASSUME NEW i \in Insts, WaiterEnds(i) PROVE tick' = tick
  BY <1>21 DEF WaiterEnds
<1>22. ASSUME NEW i \in Insts, ClearManual(i) PROVE tick' = tick
  BY <1>22 DEF ClearManual
<1>23. ASSUME PanelRestarts PROVE tick' = tick
  BY <1>23
<1> QED BY Zenon, NextCases, <1>1, <1>2, <1>3, <1>4, <1>5, <1>6, <1>7, <1>8,
   <1>9, <1>10, <1>11, <1>12, <1>13, <1>14, <1>15, <1>16, <1>17, <1>18, <1>19,
   <1>20, <1>21, <1>22, <1>23

\* A tick that is done with a task begins no sooner and holds no more.
LEMMA TickDoneLess ==
    ASSUME TicksTyped, NEW k \in Ticks, NEW t, TickDone(k, t),
           NEW l \in Ticks, tick'[l].pc # "idle"
    PROVE  /\ tick[l].pc # "idle" /\ tick'[l].at = tick[l].at
           /\ tick'[l].todo \subseteq tick[l].todo
BY DEF TicksTyped, TickRec, TickDone, NoTick

\* A tick begins now, and time does not pass a tick that is at work too long.
LEMMA StepTickTimes == ASSUME IInv, TickTimes, Next PROVE TickTimes'
<1> USE DEF IInv, TypeOK
<1>1. CASE Advance
  <2>1. tick' = tick /\ now' = now + 1
    BY <1>1 DEF Advance
  <2> SUFFICES ASSUME NEW k \in Ticks, tick[k].pc # "idle"
               PROVE  tick[k].at <= now' /\ (~overran' => now' <= tick[k].at + TickMax)
    BY <2>1 DEF TickTimes
  <2>2. tick[k].at <= now
    BY DEF TickTimes
  <2>3. ~overran' => ~(now >= tick[k].at + TickMax)
    BY <1>1, Zenon DEF Advance, Overruns
  <2>4. tick[k].at \in Nat /\ now \in Nat /\ TickMax \in Nat
    BY MaintenanceAssumption DEF TicksTyped, TickRec, RestTyped
  <2> QED BY <2>1, <2>2, <2>3, <2>4
<1>2. CASE PanelRestarts
  BY <1>2 DEF PanelRestarts, NoTick, TickTimes
<1>3. ASSUME NEW k \in Ticks, TickStarts(k) PROVE TickTimes'
  <2>1. now' = now /\ overran' = overran /\ \E todo \in SUBSET Tasks :
          tick' = [tick EXCEPT ![k] = [pc |-> "loop", at |-> now, todo |-> todo]]
    BY <1>3 DEF TickStarts, RestTyped, history
  <2>2. now \in Nat /\ TickMax \in Nat
    BY MaintenanceAssumption DEF RestTyped
  <2>3. now <= now /\ now <= now + TickMax
    BY <2>2
  <2> QED BY <2>1, <2>3 DEF TickTimes, TicksTyped
<1>4. ASSUME NEW k \in Ticks, NEW t \in Tasks, TickFires(k, t) \/ TickPasses(k, t)
      PROVE  TickTimes'
  <2>1. now' = now /\ overran' = overran /\ TickDone(k, t)
    BY <1>4 DEF TickFires, TickPasses, history
  <2> QED BY <2>1, TickDoneLess DEF TickTimes
<1>5. CASE Settled /\ tick' = tick
  BY <1>5 DEF Settled, TickTimes
<1> QED BY <1>1, <1>2, <1>3, <1>4, <1>5, StepSettled, StepTickAlone

\* A task becomes one that is done only by the end of the last server of its
\* scheduled job.
LEMMA StepSpent ==
    ASSUME Next, NEW u \in spent', u \notin spent
    PROVE  \E j \in Jobs : /\ JobFinally(j) /\ OneShotDone(j)
                           /\ job[j].run # Manual /\ job[j].task = u
<1> DEFINE Done == \E j \in Jobs : /\ JobFinally(j) /\ OneShotDone(j)
                                   /\ job[j].run # Manual /\ job[j].task = u
<1> SUFFICES Done
  OBVIOUS
<1> HIDE DEF Done
<1>1. ASSUME Advance PROVE Done
  BY <1>1 DEF Advance
<1>2. ASSUME NEW k \in Ticks, TickStarts(k) PROVE Done
  BY <1>2 DEF TickStarts, history
<1>3. ASSUME NEW k \in Ticks, NEW t \in Tasks, TickFires(k, t) PROVE Done
  BY <1>3 DEF TickFires
<1>4. ASSUME NEW k \in Ticks, NEW t \in Tasks, TickPasses(k, t) PROVE Done
  BY <1>4 DEF TickPasses, history
<1>5. ASSUME NEW t \in Tasks, RunNowChecks(t) PROVE Done
  BY <1>5 DEF RunNowChecks, history
<1>6. ASSUME NEW t \in Tasks, RunNowStarts(t) PROVE Done
  BY <1>6 DEF RunNowStarts, history
<1>7. ASSUME NEW e \in Lists, SetDeletes(e) PROVE Done
  BY <1>7 DEF SetDeletes, history
<1>8. ASSUME NEW e \in Lists, SetSaves(e) PROVE Done
  BY <1>8 DEF SetSaves
<1>9. ASSUME NEW j \in Jobs, NEW i \in Insts, JobStops(j, i) PROVE Done
  BY <1>9 DEF JobStops, history
<1>10. ASSUME NEW j \in Jobs, JobStopped(j) PROVE Done
  BY <1>10 DEF JobStopped, history
<1>11. ASSUME NEW j \in Jobs, JobUpdated(j) PROVE Done
  BY <1>11 DEF JobUpdated, history
<1>12. ASSUME NEW j \in Jobs, JobStarts(j) PROVE Done
  BY <1>12 DEF JobStarts
<1>13. ASSUME NEW j \in Jobs, JobOnline(j) PROVE Done
  BY <1>13 DEF JobOnline, history
<1>14. ASSUME NEW j \in Jobs, JobFails(j) PROVE Done
  BY <1>14 DEF JobFails
<1>15. ASSUME NEW j \in Jobs, JobFinally(j) PROVE Done
  BY <1>15 DEF JobFinally, Done
<1>16. ASSUME NEW j \in Jobs, JobLeaves(j) PROVE Done
  BY <1>16 DEF JobLeaves, history
<1>17. ASSUME NEW j \in Jobs, JobDisables(j) PROVE Done
  BY <1>17 DEF JobDisables
<1>18. ASSUME NEW j \in Jobs, JobEnds(j) PROVE Done
  BY <1>18 DEF JobEnds
<1>19. ASSUME NEW i \in Insts, UserStarts(i) PROVE Done
  BY <1>19 DEF UserStarts, history
<1>20. ASSUME NEW i \in Insts, ServerChanges(i) PROVE Done
  BY <1>20 DEF ServerChanges, history
<1>21. ASSUME NEW i \in Insts, WaiterEnds(i) PROVE Done
  BY <1>21 DEF WaiterEnds, history
<1>22. ASSUME NEW i \in Insts, ClearManual(i) PROVE Done
  BY <1>22 DEF ClearManual, history
<1>23. ASSUME PanelRestarts PROVE Done
  BY <1>23 DEF PanelRestarts
<1> QED BY Zenon, NextCases, <1>1, <1>2, <1>3, <1>4, <1>5, <1>6, <1>7, <1>8,
   <1>9, <1>10, <1>11, <1>12, <1>13, <1>14, <1>15, <1>16, <1>17, <1>18, <1>19,
   <1>20, <1>21, <1>22, <1>23
\* What a tick holds was switched on when it began; a task done since then was
\* done by a job in its time.
LEMMA StepSpentLate == ASSUME IInv, OnceInv, Next PROVE SpentLate'
<1> USE DEF IInv, TypeOK
<1>1. ASSUME NEW j \in Scheduled
      PROVE  job[j].run \in Fires[job[j].task] /\ <<job[j].task, job[j].run>> \in fired
  <2>1. <<job[j].task, job[j].run>> \in fired
    BY DEF OnceInv, JobTimes
  <2>2. job[j].task \in Tasks /\ job[j].run \in Nat
    BY <2>1 DEF RestTyped
  <2> QED BY <2>1, <2>2 DEF FiredPast
<1>2. CASE PanelRestarts
  BY <1>2 DEF PanelRestarts, NoTick, SpentLate
<1> SUFFICES ASSUME ~PanelRestarts, ~overran',
                    NEW u \in spent', NEW l \in Ticks,
                    tick'[l].pc # "idle", u \in tick'[l].todo
             PROVE  \E n \in Fires[u] : <<u, n>> \in fired' /\ tick'[l].at <= n + JobMax
  BY <1>2 DEF SpentLate
<1>3. fired \subseteq fired' /\ ~overran
  <2>1. CASE Advance
    BY <2>1, Zenon DEF Advance
  <2>2. ASSUME NEW k \in Ticks, NEW t \in Tasks, TickFires(k, t)
        PROVE  fired \subseteq fired' /\ ~overran
    BY <2>2 DEF TickFires
  <2>3. CASE Settled
    BY <2>3 DEF Settled
  <2> QED BY <2>1, <2>2, <2>3, StepSettled
<1>4. CASE u \notin spent
  <2>1. PICK j \in Jobs : /\ JobFinally(j) /\ OneShotDone(j)
                          /\ job[j].run # Manual /\ job[j].task = u
    BY <1>4, StepSpent
  <2>2. j \in Scheduled /\ tick' = tick
    BY <2>1 DEF JobFinally, Scheduled
  <2>3. now <= job[j].run + JobMax /\ tick[l].at <= now
    BY <1>3, <2>2 DEF OnceInv, JobTimes, TickTimes
  <2>4. tick[l].at \in Nat /\ now \in Nat /\ job[j].run \in Int /\ JobMax \in Nat
    BY MaintenanceAssumption DEF TicksTyped, TickRec, RestTyped, JobsTyped, JobRec
  <2>5. tick'[l].at <= job[j].run + JobMax
    BY <2>2, <2>3, <2>4
  <2> QED BY <1>1, <1>3, <2>1, <2>2, <2>5
<1>5. CASE u \in spent /\ \E k \in Ticks : TickStarts(k)
  <2>1. PICK k \in Ticks : TickStarts(k)
    BY <1>5
  <2>2. PICK soon \in SUBSET active :
          tick' = [tick EXCEPT ![k] = [pc |-> "loop", at |-> now, todo |-> soon]]
    BY <2>1 DEF TickStarts
  <2>3. CASE l = k
    <3>1. tick'[l].at = now /\ u \in active
      BY <2>2, <2>3 DEF TicksTyped
    <3>2. PICK j \in Jobs : SwitchesOff(j, u)
      BY <1>5, <3>1 DEF OnceInv, Finishing
    <3>3. j \in Scheduled /\ job[j].task = u
      BY <3>2 DEF SwitchesOff
    <3>4. now <= job[j].run + JobMax
      BY <1>3, <3>3 DEF OnceInv, JobTimes
    <3> QED BY <1>1, <1>3, <3>1, <3>3, <3>4
  <2>4. CASE l # k
    <3>1. tick'[l] = tick[l]
      BY <2>2, <2>4 DEF TicksTyped
    <3> QED BY <1>3, <1>5, <3>1 DEF OnceInv, SpentLate
  <2> QED BY <2>3, <2>4
<1>6. CASE u \in spent /\ \A k \in Ticks : ~TickStarts(k)
  <2>1. /\ tick[l].pc # "idle" /\ tick'[l].at = tick[l].at
        /\ tick'[l].todo \subseteq tick[l].todo
    <3>1. ASSUME NEW k \in Ticks, NEW t \in Tasks, TickFires(k, t) \/ TickPasses(k, t)
          PROVE  /\ tick[l].pc # "idle" /\ tick'[l].at = tick[l].at
                 /\ tick'[l].todo \subseteq tick[l].todo
      BY <3>1, TickDoneLess DEF TickFires, TickPasses
    <3>2. CASE tick' = tick
      BY <3>2
    <3> QED BY <1>6, <3>1, <3>2, StepTickAlone
  <2> QED BY <1>3, <1>6, <2>1 DEF OnceInv, SpentLate
<1> QED BY <1>4, <1>5, <1>6
\* A task that is done is switched on again only as one that is not.
LEMMA StepActive ==
    ASSUME Next, NEW u \in spent', u \in active', u \in spent
    PROVE  u \in active
<1>1. ASSUME Advance PROVE u \in active
  BY <1>1 DEF Advance, table
<1>2. ASSUME NEW k \in Ticks, TickStarts(k) PROVE u \in active
  BY <1>2 DEF TickStarts, table
<1>3. ASSUME NEW k \in Ticks, NEW t \in Tasks, TickFires(k, t) PROVE u \in active
  BY <1>3 DEF TickFires, table
<1>4. ASSUME NEW k \in Ticks, NEW t \in Tasks, TickPasses(k, t) PROVE u \in active
  BY <1>4 DEF TickPasses, table
<1>5. ASSUME NEW t \in Tasks, RunNowChecks(t) PROVE u \in active
  BY <1>5 DEF RunNowChecks, table
<1>6. ASSUME NEW t \in Tasks, RunNowStarts(t) PROVE u \in active
  BY <1>6 DEF RunNowStarts, table
<1>7. ASSUME NEW e \in Lists, SetDeletes(e) PROVE u \in active
  BY <1>7 DEF SetDeletes
<1>8. ASSUME NEW e \in Lists, SetSaves(e) PROVE u \in active
  BY <1>8 DEF SetSaves
<1>9. ASSUME NEW j \in Jobs, NEW i \in Insts, JobStops(j, i) PROVE u \in active
  BY <1>9 DEF JobStops, table
<1>10. ASSUME NEW j \in Jobs, JobStopped(j) PROVE u \in active
  BY <1>10 DEF JobStopped, table
<1>11. ASSUME NEW j \in Jobs, JobUpdated(j) PROVE u \in active
  BY <1>11 DEF JobUpdated, table
<1>12. ASSUME NEW j \in Jobs, JobStarts(j) PROVE u \in active
  BY <1>12 DEF JobStarts, table
<1>13. ASSUME NEW j \in Jobs, JobOnline(j) PROVE u \in active
  BY <1>13 DEF JobOnline, table
<1>14. ASSUME NEW j \in Jobs, JobFails(j) PROVE u \in active
  BY <1>14 DEF JobFails, table
<1>15. ASSUME NEW j \in Jobs, JobFinally(j) PROVE u \in active
  BY <1>15 DEF JobFinally, table
<1>16. ASSUME NEW j \in Jobs, JobLeaves(j) PROVE u \in active
  BY <1>16 DEF JobLeaves, table
<1>17. ASSUME NEW j \in Jobs, JobDisables(j) PROVE u \in active
  BY <1>17 DEF JobDisables, table
<1>18. ASSUME NEW j \in Jobs, JobEnds(j) PROVE u \in active
  BY <1>18 DEF JobEnds, table
<1>19. ASSUME NEW i \in Insts, UserStarts(i) PROVE u \in active
  BY <1>19 DEF UserStarts, table
<1>20. ASSUME NEW i \in Insts, ServerChanges(i) PROVE u \in active
  BY <1>20 DEF ServerChanges, table
<1>21. ASSUME NEW i \in Insts, WaiterEnds(i) PROVE u \in active
  BY <1>21 DEF WaiterEnds, table
<1>22. ASSUME NEW i \in Insts, ClearManual(i) PROVE u \in active
  BY <1>22 DEF ClearManual, table
<1>23. ASSUME PanelRestarts PROVE u \in active
  BY <1>23 DEF PanelRestarts, table
<1> QED BY Zenon, NextCases, <1>1, <1>2, <1>3, <1>4, <1>5, <1>6, <1>7, <1>8,
   <1>9, <1>10, <1>11, <1>12, <1>13, <1>14, <1>15, <1>16, <1>17, <1>18, <1>19,
   <1>20, <1>21, <1>22, <1>23
\* The job that is about to switch its task off stays so until it does.
LEMMA StepSwitchesOff ==
    ASSUME JobsTyped, active \subseteq tasks, Next, ~PanelRestarts,
           NEW u \in active, u \in active', u \in spent', NEW l \in Jobs,
           SwitchesOff(l, u)
    PROVE  SwitchesOff(l, u)'
<1>1. ASSUME Advance PROVE SwitchesOff(l, u)'
  BY <1>1 DEF Advance, SwitchesOff, Scheduled, OneShotDone
<1>2. ASSUME NEW k \in Ticks, TickStarts(k) PROVE SwitchesOff(l, u)'
  BY <1>2 DEF TickStarts, SwitchesOff, Scheduled, OneShotDone
<1>3. ASSUME NEW k \in Ticks, NEW t \in Tasks, TickFires(k, t) PROVE SwitchesOff(l, u)'
  <2>1. job'[l] = job[l]
    BY <1>3 DEF TickFires, Begin, SwitchesOff, JobsTyped
  <2> QED BY <2>1 DEF SwitchesOff, Scheduled, OneShotDone
<1>4. ASSUME NEW k \in Ticks, NEW t \in Tasks, TickPasses(k, t) PROVE SwitchesOff(l, u)'
  BY <1>4 DEF TickPasses, SwitchesOff, Scheduled, OneShotDone
<1>5. ASSUME NEW t \in Tasks, RunNowChecks(t) PROVE SwitchesOff(l, u)'
  BY <1>5 DEF RunNowChecks, SwitchesOff, Scheduled, OneShotDone
<1>6. ASSUME NEW t \in Tasks, RunNowStarts(t) PROVE SwitchesOff(l, u)'
  <2>1. job'[l] = job[l]
    BY <1>6 DEF RunNowStarts, Begin, SwitchesOff, JobsTyped
  <2> QED BY <2>1 DEF SwitchesOff, Scheduled, OneShotDone
<1>7. ASSUME NEW e \in Lists, SetDeletes(e) PROVE SwitchesOff(l, u)'
  BY <1>7 DEF SetDeletes, SwitchesOff, Scheduled, OneShotDone
<1>8. ASSUME NEW e \in Lists, SetSaves(e) PROVE SwitchesOff(l, u)'
  BY <1>8 DEF SetSaves, SwitchesOff, Scheduled, OneShotDone
<1>9. ASSUME NEW j \in Jobs, NEW i \in Insts, JobStops(j, i) PROVE SwitchesOff(l, u)'
  <2>1. l # j
    BY <1>9 DEF JobStops, SwitchesOff
  <2>2. job'[l] = job[l]
    BY <1>9, <2>1 DEF JobStops, To, JobsTyped
  <2> QED BY <2>2 DEF SwitchesOff, Scheduled, OneShotDone
<1>10. ASSUME NEW j \in Jobs, JobStopped(j) PROVE SwitchesOff(l, u)'
  <2>1. l # j
    BY <1>10 DEF JobStopped, SwitchesOff
  <2>2. job'[l] = job[l]
    BY <1>10, <2>1 DEF JobStopped, To, JobsTyped
  <2> QED BY <2>2 DEF SwitchesOff, Scheduled, OneShotDone
<1>11. ASSUME NEW j \in Jobs, JobUpdated(j) PROVE SwitchesOff(l, u)'
  <2>1. l # j
    BY <1>11 DEF JobUpdated, SwitchesOff
  <2>2. job'[l] = job[l]
    BY <1>11, <2>1 DEF JobUpdated, To, JobsTyped
  <2> QED BY <2>2 DEF SwitchesOff, Scheduled, OneShotDone
<1>12. ASSUME NEW j \in Jobs, JobStarts(j) PROVE SwitchesOff(l, u)'
  <2>1. l # j
    BY <1>12 DEF JobStarts, SwitchesOff
  <2>2. job'[l] = job[l]
    BY <1>12, <2>1 DEF JobStarts, To, JobsTyped
  <2> QED BY <2>2 DEF SwitchesOff, Scheduled, OneShotDone
<1>13. ASSUME NEW j \in Jobs, JobOnline(j) PROVE SwitchesOff(l, u)'
  <2>1. l # j
    BY <1>13 DEF JobOnline, SwitchesOff
  <2>2. job'[l] = job[l]
    BY <1>13, <2>1 DEF JobOnline, To, JobsTyped
  <2> QED BY <2>2 DEF SwitchesOff, Scheduled, OneShotDone
<1>14. ASSUME NEW j \in Jobs, JobFails(j) PROVE SwitchesOff(l, u)'
  <2>1. l # j
    BY <1>14 DEF JobFails, SwitchesOff
  <2>2. job'[l] = job[l]
    BY <1>14, <2>1 DEF JobFails, To, JobsTyped
  <2> QED BY <2>2 DEF SwitchesOff, Scheduled, OneShotDone
<1>15. ASSUME NEW j \in Jobs, JobFinally(j) PROVE SwitchesOff(l, u)'
  <2>1. l # j
    BY <1>15 DEF JobFinally, SwitchesOff
  <2>2. job'[l] = job[l]
    BY <1>15, <2>1 DEF JobFinally, To, JobsTyped
  <2> QED BY <2>2 DEF SwitchesOff, Scheduled, OneShotDone
<1>16. ASSUME NEW j \in Jobs, JobLeaves(j) PROVE SwitchesOff(l, u)'
  <2>1. CASE l = j
    <3>1. DisableDue(j)
      BY <2>1 DEF DisableDue, SwitchesOff
    <3>2. job' = [job EXCEPT ![j].pc = "disable"]
      BY <1>16, <3>1 DEF JobLeaves, To
    <3> QED BY <2>1, <3>2 DEF SwitchesOff, Scheduled, OneShotDone, JobsTyped, JobRec
  <2>2. CASE l # j
    <3>1. job'[l] = job[l]
      BY <1>16, <2>2 DEF JobLeaves, To, JobsTyped
    <3> QED BY <3>1 DEF SwitchesOff, Scheduled, OneShotDone
  <2> QED BY <2>1, <2>2
<1>17. ASSUME NEW j \in Jobs, JobDisables(j) PROVE SwitchesOff(l, u)'
  <2>1. l # j
    BY <1>17 DEF JobDisables, SwitchesOff, Scheduled
  <2>2. job'[l] = job[l]
    BY <1>17, <2>1 DEF JobDisables, To, JobsTyped
  <2> QED BY <2>2 DEF SwitchesOff, Scheduled, OneShotDone
<1>18. ASSUME NEW j \in Jobs, JobEnds(j) PROVE SwitchesOff(l, u)'
  <2>1. l # j
    BY <1>18 DEF JobEnds, SwitchesOff
  <2>2. job'[l] = job[l]
    BY <1>18, <2>1 DEF JobEnds, To, JobsTyped
  <2> QED BY <2>2 DEF SwitchesOff, Scheduled, OneShotDone
<1>19. ASSUME NEW i \in Insts, UserStarts(i) PROVE SwitchesOff(l, u)'
  BY <1>19 DEF UserStarts, SwitchesOff, Scheduled, OneShotDone
<1>20. ASSUME NEW i \in Insts, ServerChanges(i) PROVE SwitchesOff(l, u)'
  BY <1>20 DEF ServerChanges, SwitchesOff, Scheduled, OneShotDone
<1>21. ASSUME NEW i \in Insts, WaiterEnds(i) PROVE SwitchesOff(l, u)'
  BY <1>21 DEF WaiterEnds, SwitchesOff, Scheduled, OneShotDone
<1>22. ASSUME NEW i \in Insts, ClearManual(i) PROVE SwitchesOff(l, u)'
  BY <1>22 DEF ClearManual, SwitchesOff, Scheduled, OneShotDone
<1>23. ASSUME PanelRestarts PROVE SwitchesOff(l, u)'
  BY <1>23
<1> QED BY Zenon, NextCases, <1>1, <1>2, <1>3, <1>4, <1>5, <1>6, <1>7, <1>8,
   <1>9, <1>10, <1>11, <1>12, <1>13, <1>14, <1>15, <1>16, <1>17, <1>18, <1>19,
   <1>20, <1>21, <1>22, <1>23
\* The job that has done its task is about to switch it off.
LEMMA StepFinishing == ASSUME IInv, OnceInv, Next PROVE Finishing'
<1> USE DEF IInv, TypeOK
<1>1. CASE PanelRestarts
  BY <1>1 DEF PanelRestarts, Finishing, table
<1> SUFFICES ASSUME ~PanelRestarts, NEW u \in spent', u \in active'
             PROVE  \E j \in Jobs : SwitchesOff(j, u)'
  BY <1>1 DEF Finishing
<1>2. CASE u \in spent
  <2>1. u \in active
    BY <1>2, StepActive
  <2>2. PICK l \in Jobs : SwitchesOff(l, u)
    BY <1>2, <2>1 DEF OnceInv, Finishing
  <2> QED BY <2>1, <2>2, StepSwitchesOff DEF RestTyped
<1>3. CASE u \notin spent
  <2>1. PICK j \in Jobs : /\ JobFinally(j) /\ OneShotDone(j)
                          /\ job[j].run # Manual /\ job[j].task = u
    BY <1>3, StepSpent
  <2>2. /\ job'[j].pc = "next" /\ job'[j].todo = {} /\ job'[j].ok /\ job'[j].inst # None
        /\ job'[j].task = u /\ job'[j].run # Manual /\ u \in OneShots
    BY <2>1 DEF JobFinally, OneShotDone, JobsTyped, JobRec
  <2> QED BY <2>2 DEF SwitchesOff, Scheduled, OneShotDone
<1> QED BY <1>2, <1>3

\* A tick that could still run a task that is done is too old for its next due
\* time, and for the last one the task has had its job.
LEMMA StepOnce ==
    ASSUME IInv, OnceInv, Next, NEW u \in spent, NEW n \in Fires[u], Starts(u, n),
           ~overran
    PROVE  FALSE
<1> USE DEF IInv, TypeOK
<1>1. PICK l \in Jobs : /\ job[l].pc = "idle" /\ job'[l].pc # "idle"
                        /\ job'[l].task = u /\ job'[l].run = n
  BY DEF Starts
<1>2. l \in Scheduled' /\ l \notin Scheduled
  BY <1>1 DEF Starts, Scheduled
<1>3. ~Advance /\ ~PanelRestarts /\ ~Settled
  BY <1>1, <1>2 DEF Advance, PanelRestarts, NoJob, Settled
<1>4. PICK k \in Ticks, t \in Tasks : TickFires(k, t)
  BY <1>3, StepSettled
<1>5. PICK due \in Fires[t], j \in Jobs :
        /\ Begin(j, t, due) /\ IsNextFire(t, tick[k].at, due) /\ InWindow(due)
        /\ lastFire[t] # due
  BY <1>4 DEF TickFires
<1>6. t = u /\ due = n
  BY <1>1, <1>5 DEF Begin, JobsTyped
<1>7. PICK m \in Fires[u] : <<u, m>> \in fired /\ tick[k].at <= m + JobMax
  BY <1>4, <1>6 DEF TickFires, OnceInv, SpentLate
<1>8. /\ m \in Nat /\ n \in Nat /\ u \in Tasks /\ Early \in Nat /\ Window \in Nat
      /\ TickMax \in Nat /\ JobMax \in Nat /\ Window <= JobMax
      /\ tick[k].at \in Nat /\ now \in Nat
  BY MaintenanceAssumption, <1>6 DEF TicksTyped, TickRec, RestTyped
<1>9. m - Early <= now /\ (lastFire[u] = m \/ now >= m + Window)
  BY <1>7, <1>8 DEF FiredPast
<1>10. now <= tick[k].at + TickMax
  BY <1>4 DEF TickFires, OnceInv, TickTimes
<1>11. n - Early <= now /\ now < n + Window
  BY <1>5, <1>6 DEF InWindow
<1>12. CASE m = n
  BY <1>5, <1>6, <1>8, <1>9, <1>11, <1>12
<1>13. CASE m < n
  <2>1. m + JobMax + TickMax < n - Early
    BY <1>8, <1>13, MaintenanceAssumption
  <2> QED BY <1>7, <1>8, <1>10, <1>11, <2>1
<1>14. CASE n < m
  <2>1. n + JobMax + TickMax < m - Early
    BY <1>8, <1>14, MaintenanceAssumption
  <2> QED BY <1>8, <1>9, <1>11, <2>1
<1> QED BY <1>8, <1>12, <1>13, <1>14

\* A job that fails at a server is so marked until it ends; no server after that
\* one makes it well again.
LEMMA StepFailed ==
    ASSUME JobsTyped, FailedStays, failed \subseteq Jobs, Next
    PROVE  FailedStays' /\ \A l \in failed : job'[l].pc # "disable"
<1> DEFINE Goal == FailedStays' /\ \A l \in failed : job'[l].pc # "disable"
<1> USE DEF FailedStays
<1> SUFFICES Goal
  OBVIOUS
<1>1. ASSUME Advance PROVE Goal
  BY <1>1 DEF Advance
<1>2. ASSUME NEW k \in Ticks, TickStarts(k) PROVE Goal
  BY <1>2 DEF TickStarts, history
<1>3. ASSUME NEW k \in Ticks, NEW t \in Tasks, TickFires(k, t) PROVE Goal
  BY <1>3 DEF TickFires, Begin, JobsTyped
<1>4. ASSUME NEW k \in Ticks, NEW t \in Tasks, TickPasses(k, t) PROVE Goal
  BY <1>4 DEF TickPasses, history
<1>5. ASSUME NEW t \in Tasks, RunNowChecks(t) PROVE Goal
  BY <1>5 DEF RunNowChecks, history
<1>6. ASSUME NEW t \in Tasks, RunNowStarts(t) PROVE Goal
  <2>1. CASE UNCHANGED job
    BY <1>6, <2>1 DEF RunNowStarts, history
  <2>2. CASE \E j \in Jobs : Begin(j, t, Manual)
    BY <1>6, <2>2 DEF RunNowStarts, Begin, JobsTyped, history
  <2> QED BY <1>6, <2>1, <2>2 DEF RunNowStarts
<1>7. ASSUME NEW e \in Lists, SetDeletes(e) PROVE Goal
  BY <1>7 DEF SetDeletes, history
<1>8. ASSUME NEW e \in Lists, SetSaves(e) PROVE Goal
  BY <1>8 DEF SetSaves
<1>9. ASSUME NEW j \in Jobs, NEW i \in Insts, JobStops(j, i) PROVE Goal
  BY <1>9 DEF JobStops, To, JobsTyped, JobRec, history
<1>10. ASSUME NEW j \in Jobs, JobStopped(j) PROVE Goal
  <2>1. job[j].task \in Tasks
    BY <1>10 DEF JobStopped, JobsTyped
  <2>2. PICK pc \in {"update", "finally", "start"}, held \in BOOLEAN :
          job' = [job EXCEPT ![j].pc = pc, ![j].held = held]
    BY <1>10, <2>1, MaintenanceAssumption DEF JobStopped
  <2>3. failed' = failed /\ job[j].pc = "stop"
    BY <1>10 DEF JobStopped, history
  <2> QED BY <2>2, <2>3 DEF JobsTyped, JobRec
<1>11. ASSUME NEW j \in Jobs, JobUpdated(j) PROVE Goal
  BY <1>11 DEF JobUpdated, To, JobsTyped, JobRec, history
<1>12. ASSUME NEW j \in Jobs, JobStarts(j) PROVE Goal
  BY <1>12 DEF JobStarts, JobsTyped, JobRec
<1>13. ASSUME NEW j \in Jobs, JobOnline(j) PROVE Goal
  BY <1>13 DEF JobOnline, To, JobsTyped, JobRec, history
<1>14. ASSUME NEW j \in Jobs, JobFails(j) PROVE Goal
  BY <1>14 DEF JobFails, JobsTyped, JobRec
<1>15. ASSUME NEW j \in Jobs, JobFinally(j) PROVE Goal
  BY <1>15 DEF JobFinally, JobsTyped, JobRec
<1>16. ASSUME NEW j \in Jobs, JobLeaves(j) PROVE Goal
  BY <1>16 DEF JobLeaves, To, DisableDue, OneShotDone, JobsTyped, JobRec, history
<1>17. ASSUME NEW j \in Jobs, JobDisables(j) PROVE Goal
  BY <1>17 DEF JobDisables, To, JobsTyped, JobRec
<1>18. ASSUME NEW j \in Jobs, JobEnds(j) PROVE Goal
  BY <1>18 DEF JobEnds, NoJob, JobsTyped
<1>19. ASSUME NEW i \in Insts, UserStarts(i) PROVE Goal
  BY <1>19 DEF UserStarts, history
<1>20. ASSUME NEW i \in Insts, ServerChanges(i) PROVE Goal
  BY <1>20 DEF ServerChanges, history
<1>21. ASSUME NEW i \in Insts, WaiterEnds(i) PROVE Goal
  BY <1>21 DEF WaiterEnds, history
<1>22. ASSUME NEW i \in Insts, ClearManual(i) PROVE Goal
  BY <1>22 DEF ClearManual, history
<1>23. ASSUME PanelRestarts PROVE Goal
  BY <1>23 DEF PanelRestarts, NoJob
<1> QED BY Zenon, NextCases, <1>1, <1>2, <1>3, <1>4, <1>5, <1>6, <1>7, <1>8,
   <1>9, <1>10, <1>11, <1>12, <1>13, <1>14, <1>15, <1>16, <1>17, <1>18, <1>19,
   <1>20, <1>21, <1>22, <1>23

\* The second inductive invariant holds of a panel that starts.
LEMMA InitOnceInv == Init => OnceInv
BY DEF Init, OnceInv, JobTimes, TickTimes, SpentLate, Finishing, FailedStays,
       Scheduled, NoJob, NoTick

\* It speaks of the variables alone.
LEMMA StutterOnceInv == ASSUME OnceInv, UNCHANGED vars PROVE OnceInv'
BY DEF OnceInv, JobTimes, TickTimes, SpentLate, Finishing, FailedStays,
       SwitchesOff, OneShotDone, Scheduled, vars, table, panel, servers, bounds, history

\* For every set of tasks, ticks and jobs, and for as many saves and restarts as
\* there are, a tick that holds a task which is done is about to end.
THEOREM OnceInvariance == Spec => []OnceInv
<1>1. ASSUME IInv, OnceInv, [Next]_vars PROVE OnceInv'
  <2>1. CASE Next
    <3>1. JobTimes' /\ TickTimes'
      BY <1>1, <2>1, StepJobTimes, StepTickTimes DEF OnceInv
    <3>2. SpentLate' /\ Finishing'
      BY <1>1, <2>1, StepSpentLate, StepFinishing
    <3>3. FailedStays'
      BY <1>1, <2>1, StepFailed DEF IInv, TypeOK, RestTyped, OnceInv
    <3> QED BY <3>1, <3>2, <3>3 DEF OnceInv
  <2>2. CASE UNCHANGED vars
    BY <1>1, <2>2, StutterOnceInv
  <2> QED BY <1>1, <2>1, <2>2
<1> QED BY InitOnceInv, Invariance, <1>1, PTL DEF Spec

\* A job that failed at one of its servers does not switch its task off, and one
\* that is done is not run by the schedule again, whatever ticks hold it from
\* before and whatever saves overlap, unless a tick or a job has overrun.
THEOREM DoneOnlyOnce == Spec => OneShotRunsOnce
<1>1. ASSUME IInv, OnceInv, [Next]_vars
      PROVE  [/\ \A j \in failed : job'[j].pc # "disable"
              /\ \A t \in spent : \A n \in Fires[t] : Starts(t, n) => overran]_vars
  <2>1. CASE UNCHANGED vars
    BY <2>1
  <2>2. CASE Next
    <3>1. \A j \in failed : job'[j].pc # "disable"
      BY <1>1, <2>2, StepFailed DEF IInv, TypeOK, RestTyped, OnceInv
    <3>2. \A t \in spent : \A n \in Fires[t] : Starts(t, n) => overran
      BY <1>1, <2>2, StepOnce
    <3> QED BY <3>1, <3>2
  <2> QED BY <1>1, <2>1, <2>2
<1> QED BY Invariance, OnceInvariance, <1>1, PTL DEF Spec, OneShotRunsOnce
=============================================================================
