------------------------- MODULE BackupSchedulerProofs -------------------------
(***************************************************************************)
(* Safety of BackupScheduler for every set of intervals, every longest     *)
(* delay, and every number of runs, saves and ends of the panel.  That     *)
(* backups are an interval apart is a fact about the moment a run starts;  *)
(* the invariant says of every other moment that what is left of the delay *)
(* and the age of the last backup add up to the interval.                  *)
(***************************************************************************)
EXTENDS BackupScheduler, TLAPS

\* A panel that is down has no timer and makes no backup.
IdleWhenDown == panel = "down" => timer = None /\ ~Working

\* The time of the last run, in memory and in the database, is not before the
\* last automatic backup, once the run that made it has ended.
RunsKept == ~hasty /\ ~Working => lastRun <= begun /\ disk.lastRun <= begun

\* When the timer has run down, the interval has passed.
Spaced ==
    ~hasty /\ timer # None /\ settings.interval <= MaxDelay
        => begun + timer >= settings.interval

IInv == TypeOK /\ TimerArmed /\ IdleWhenDown /\ RunsKept /\ Spaced

-----------------------------------------------------------------------------
\* One step as a disjunction of the actions.
LEMMA NextCases ==
    ASSUME Next
    PROVE  \/ ManualStarts \/ ManualEnds \/ Refused \/ Destroyed \/ Downs
           \/ Boots \/ Passes
           \/ \E s \in SettingsRec : Saves(s) \/ SaveFails(s)
           \/ \E r \in Runs : Starts(r) \/ BacksUp(r) \/ Ends(r)
BY Zenon DEF Next, User, Fires, Process, Run

\* An interval is a number of steps that ages can tell apart.
LEMMA IntervalsBound ==
    \A s \in SettingsRec : s.interval \in Nat /\ s.interval <= Cap
<1> TAKE s \in SettingsRec
<1>1. s.interval \in Intervals
  BY DEF SettingsRec
<1>2. s.interval \in 1..Cap
  BY <1>1, SchedulerAssumption
<1> QED
  BY <1>2, SchedulerAssumption

\* A timer is set exactly if backups are enabled and the panel does not shut
\* down; and by when the backup is an interval old, if a timer can wait so long.
LEMMA ScheduledDelay ==
    ASSUME NEW s \in SettingsRec, NEW age \in Ages
    PROVE  /\ Scheduled(s, age) \in 0..MaxDelay \cup {None}
           /\ s.enabled /\ panel # "destroyed" => Scheduled(s, age) # None
           /\ Scheduled(s, age) # None /\ s.interval <= MaxDelay
                => age + Scheduled(s, age) >= s.interval
<1>1. age \in Nat /\ s.enabled \in BOOLEAN
  BY SchedulerAssumption DEF SettingsRec, Ages
<1>2. s.interval \in Nat
  BY IntervalsBound
<1> QED
  BY <1>1, <1>2, SchedulerAssumption DEF Scheduled, Delay, None

\* However many rows are written, the database has settings and an age.
LEMMA WrittenType ==
    ASSUME TypeOK, NEW s \in SettingsRec, NEW age \in Ages, NEW n \in 0..All
    PROVE  /\ Written(s, age, n) \in [settings : SettingsRec, lastRun : Ages]
           /\ n = All => Written(s, age, n).lastRun = age
BY DEF TypeOK, Written, SettingsRec, All

\* Time passes for every age alike.
LEMMA OlderAge ==
    /\ \A age \in Ages : Older(age) \in Ages /\ Older(age) >= age
    /\ \A a, b \in Ages : a <= b => Older(a) <= Older(b)
    /\ \A age \in Ages : Older(age) = Cap \/ Older(age) = age + 1
    /\ 0 \in Ages /\ Cap \in Ages
BY SchedulerAssumption DEF Ages, Older, Least

\* The invariant holds at first.
LEMMA InitIInv == ASSUME Init PROVE IInv
<1>1. settings \in SettingsRec /\ ~settings.enabled
  BY DEF Init, SettingsRec
<1>2. TypeOK
  <2>1. disk \in [settings : SettingsRec, lastRun : Ages]
    BY <1>1, OlderAge DEF Init
  <2>2. saves \in 0..MaxSaves /\ downs \in 0..MaxDowns
    BY SchedulerAssumption DEF Init
  <2> QED
    BY <1>1, <2>1, <2>2, OlderAge DEF Init, TypeOK
<1>3. TimerArmed /\ IdleWhenDown /\ RunsKept /\ Spaced
  BY <1>1, OlderAge, SchedulerAssumption DEF Init, TimerArmed, IdleWhenDown,
     RunsKept, Spaced, Ages
<1> QED
  BY <1>2, <1>3 DEF IInv

\* The end of a run.
LEMMA FinishKeeps ==
    ASSUME IInv, NEW n \in 0..All, Finish(n), panel' = panel, settings' = settings,
           begun' = begun, panel # "down"
    PROVE  /\ lastRun' \in Ages /\ timer' \in 0..MaxDelay \cup {None}
           /\ disk' \in [settings : SettingsRec, lastRun : Ages]
           /\ hasty' \in BOOLEAN /\ unsaved' \in BOOLEAN
           /\ TimerArmed' /\ RunsKept' /\ Spaced'
<1>1. /\ settings \in SettingsRec /\ 0 \in Ages /\ begun \in Ages /\ begun >= 0
      /\ hasty \in BOOLEAN
  BY SchedulerAssumption DEF IInv, TypeOK, Ages
<1>2. lastRun' \in Ages /\ timer' \in 0..MaxDelay \cup {None}
  BY <1>1, ScheduledDelay DEF Finish
<1>3. disk' \in [settings : SettingsRec, lastRun : Ages]
  BY <1>1, WrittenType DEF Finish, IInv
<1>4. hasty' \in BOOLEAN /\ unsaved' \in BOOLEAN
  BY <1>1 DEF Finish
<1>5. TimerArmed'
  BY <1>1, ScheduledDelay DEF Finish, TimerArmed
<1>6. RunsKept'
  <2>1. CASE n = All
    BY <1>1, <2>1, WrittenType DEF Finish, RunsKept, IInv
  <2>2. CASE n # All
    <3>1. n < All
      BY <2>2 DEF All
    <3> QED
      BY <3>1 DEF Finish, RunsKept
  <2> QED
    BY <2>1, <2>2
<1>7. Spaced'
  BY <1>1, <1>2, ScheduledDelay, IntervalsBound, SchedulerAssumption DEF Finish,
     Spaced, Ages, None
<1> QED
  BY <1>2, <1>3, <1>4, <1>5, <1>6, <1>7

\* Every step keeps the invariant.
LEMMA StepIInv == ASSUME IInv, Next PROVE IInv'
<1> USE SchedulerAssumption DEF IInv
<1>1. CASE ManualStarts
  BY <1>1 DEF ManualStarts, TypeOK, TimerArmed, IdleWhenDown, RunsKept, Spaced,
     Working, history
<1>2. CASE ManualEnds
  BY <1>2 DEF ManualEnds, TypeOK, TimerArmed, IdleWhenDown, RunsKept, Spaced,
     Working, history
<1>3. CASE Refused
  <2>1. PICK n \in 0..All : Finish(n)
    BY <1>3 DEF Refused
  <2>2. panel # "down"
    BY <1>3 DEF Refused, IdleWhenDown, None
  <2> QED
    BY <1>3, <2>1, <2>2, FinishKeeps DEF Refused, TypeOK, IdleWhenDown
<1>4. CASE Destroyed
  BY <1>4 DEF Destroyed, TypeOK, TimerArmed, IdleWhenDown, RunsKept, Spaced,
     Working, history
<1>5. CASE Downs
  <2>1. TypeOK'
    <3>1. downs' \in 0..MaxDowns
      BY <1>5 DEF Downs, TypeOK
    <3>2. hasty' \in BOOLEAN
      BY <1>5 DEF Downs, TypeOK
    <3> QED
      BY <1>5, <3>1, <3>2 DEF Downs, TypeOK
  <2>2. ~Working' /\ panel' = "down" /\ timer' = None
    BY <1>5 DEF Downs, Working
  <2>3. RunsKept'
    BY <1>5 DEF Downs, RunsKept
  <2> QED
    BY <1>5, <2>1, <2>2, <2>3 DEF TimerArmed, IdleWhenDown, Spaced
<1>6. CASE Boots
  <2>1. disk.settings \in SettingsRec /\ disk.lastRun \in Ages
    BY DEF TypeOK
  <2>2. (TypeOK /\ TimerArmed /\ IdleWhenDown /\ RunsKept)'
    BY <1>6, <2>1, ScheduledDelay DEF Boots, TypeOK, TimerArmed, IdleWhenDown, RunsKept,
       Working
  <2>3. Spaced'
    <3>1. ~hasty => disk.lastRun <= begun
      BY <1>6 DEF Boots, IdleWhenDown, RunsKept
    <3> QED
      BY <1>6, <2>1, <3>1, ScheduledDelay, IntervalsBound
         DEF Boots, TypeOK, Spaced, Ages, None
  <2> QED
    BY <2>2, <2>3
<1>7. CASE Passes
  <2>1. /\ lastRun \in Ages /\ begun \in Ages /\ disk.lastRun \in Ages
        /\ disk'.lastRun = Older(disk.lastRun) /\ disk'.settings = disk.settings
    BY <1>7 DEF Passes, TypeOK
  <2>2. TypeOK'
    BY <1>7, <2>1, OlderAge DEF Passes, TypeOK, None
  <2>3. (TimerArmed /\ IdleWhenDown /\ RunsKept)'
    BY <1>7, <2>1, OlderAge DEF Passes, TypeOK, TimerArmed, IdleWhenDown, RunsKept, Working,
       None
  <2>4. Spaced'
    BY <1>7, <2>1, OlderAge, IntervalsBound DEF Passes, TypeOK, Spaced, Ages, None
  <2> QED
    BY <2>2, <2>3, <2>4
<1>8. ASSUME NEW s \in SettingsRec, Saves(s) PROVE IInv'
  <2>1. lastRun \in Ages /\ All \in 0..All
    BY DEF TypeOK, All
  <2>2. /\ disk' \in [settings : SettingsRec, lastRun : Ages]
        /\ disk'.lastRun = lastRun
    BY <1>8, <2>1, WrittenType DEF Saves
  <2>3. TypeOK'
    <3>1. saves' \in 0..MaxSaves
      BY <1>8 DEF Saves, TypeOK
    <3>2. timer' \in 0..MaxDelay \cup {None}
      BY <1>8, <2>1, ScheduledDelay DEF Saves
    <3> QED
      BY <1>8, <2>2, <3>1, <3>2 DEF Saves, TypeOK, Working
  <2>4. TimerArmed'
    BY <1>8, <2>1, ScheduledDelay DEF Saves, TimerArmed
  <2>5. IdleWhenDown' /\ RunsKept'
    BY <1>8, <2>2 DEF Saves, IdleWhenDown, RunsKept, Working
  <2>6. Spaced'
    <3>1. ~hasty' => lastRun <= begun
      BY <1>8 DEF Saves, RunsKept
    <3>2. /\ lastRun \in Nat /\ begun \in Nat /\ s.interval \in Nat
          /\ Scheduled(s, lastRun) \in Int
      BY <2>1, ScheduledDelay, IntervalsBound DEF TypeOK, Ages, None
    <3>3. Scheduled(s, lastRun) # None /\ s.interval <= MaxDelay
            => lastRun + Scheduled(s, lastRun) >= s.interval
      BY <2>1, ScheduledDelay
    <3> QED
      BY <1>8, <3>1, <3>2, <3>3 DEF Saves, Spaced
  <2> QED
    BY <2>3, <2>4, <2>5, <2>6
<1>9. ASSUME NEW s \in SettingsRec, SaveFails(s) PROVE IInv'
  <2>1. lastRun \in Ages
    BY DEF TypeOK
  <2>2. disk' \in [settings : SettingsRec, lastRun : Ages]
    BY <1>9, <2>1, WrittenType DEF SaveFails, All
  <2> QED
    BY <1>9, <2>1, <2>2
       DEF SaveFails, TypeOK, TimerArmed, IdleWhenDown, RunsKept, Spaced, Working
<1>10. ASSUME NEW r \in Runs, Starts(r) PROVE IInv'
  <2>1. runs'[r] = "backup" /\ 0 \in Ages
    BY <1>10, OlderAge DEF Starts, TypeOK
  <2>2. TypeOK'
    BY <1>10, <2>1 DEF Starts, TypeOK
  <2>3. Working' /\ ~(panel = "down") /\ timer' = None
    BY <1>10, <2>1 DEF Starts, Working, IdleWhenDown, None
  <2> QED
    BY <1>10, <2>2, <2>3 DEF Starts, TimerArmed, IdleWhenDown, RunsKept, Spaced
<1>11. ASSUME NEW r \in Runs, BacksUp(r) PROVE IInv'
  <2>1. runs'[r] = "prune"
    BY <1>11 DEF BacksUp, TypeOK
  <2> QED
    BY <1>11, <2>1
       DEF BacksUp, TypeOK, TimerArmed, IdleWhenDown, RunsKept, Spaced, Working, history
<1>12. ASSUME NEW r \in Runs, Ends(r) PROVE IInv'
  <2>1. PICK n \in 0..All : Finish(n)
    BY <1>12 DEF Ends
  <2>2. panel # "down"
    BY <1>12 DEF Ends, IdleWhenDown, Working
  <2> QED
    BY <1>12, <2>1, <2>2, FinishKeeps DEF Ends, TypeOK, IdleWhenDown
<1> QED
  BY <1>1, <1>2, <1>3, <1>4, <1>5, <1>6, <1>7, <1>8, <1>9, <1>10, <1>11,
     <1>12, NextCases

\* The inductive invariant holds throughout.
LEMMA Invariance == Spec => []IInv
<1>1. IInv /\ [Next]_vars => IInv'
  <2>1. ASSUME IInv, UNCHANGED vars PROVE IInv'
    BY <2>1 DEF vars, history, IInv, TypeOK, TimerArmed, IdleWhenDown, RunsKept,
       Spaced, Working
  <2> QED
    BY <2>1, StepIInv
<1> QED
  BY <1>1, InitIInv, PTL DEF Spec

\* Type correctness: a timer never has a delay that it cannot hold.
THEOREM TypeCorrect == Spec => []TypeOK
BY Invariance, PTL DEF IInv

\* While automatic backups are enabled there is always a next one, through
\* failed runs, saves during a run and restarts of the panel.
THEOREM AlwaysArmed == Spec => []TimerArmed
BY Invariance, PTL DEF IInv

\* Two automatic backups are an interval apart, for an interval a timer can hold.
THEOREM AnIntervalApart == Spec => BackupsSpaced
<1>1. IInv /\ [Next]_vars
        => [\A r \in Runs : Starts(r) /\ ~hasty /\ settings.interval <= MaxDelay
              => begun >= settings.interval]_vars
  <2> SUFFICES ASSUME IInv, NEW r \in Runs, Starts(r), ~hasty,
                      settings.interval <= MaxDelay
               PROVE  begun >= settings.interval
    OBVIOUS
  <2>1. begun + 0 >= settings.interval
    BY DEF Starts, IInv, Spaced, None
  <2>2. begun \in Nat
    BY SchedulerAssumption DEF IInv, TypeOK, Ages
  <2> QED
    BY <2>1, <2>2
<1> QED
  BY <1>1, Invariance, PTL DEF Spec, BackupsSpaced
=============================================================================
