---------------------------- MODULE BackupScheduler ----------------------------
(***************************************************************************)
(* BackupSchedulerService: one timer for the next automatic backup, set    *)
(* again whenever a run ends or the settings are saved.  Time is counted   *)
(* in steps of the shortest interval; ages are not counted beyond Cap.     *)
(***************************************************************************)
EXTENDS Integers

CONSTANTS
    Runs,           \* slots for calls of run()
    Intervals,      \* intervals a user may choose
    MaxDelay,       \* the longest delay a timer can have: 2^31 - 1 ms
    Cap,            \* an age from which a backup is due whatever the interval
    MaxSaves,       \* bound on saves by the user
    MaxDowns        \* bound on ends of the panel's process

ASSUME SchedulerAssumption ==
    /\ Intervals \subseteq 1..Cap /\ Intervals # {} /\ Cap \in Nat
    /\ MaxDelay \in Nat /\ MaxSaves \in Nat /\ MaxDowns \in Nat

VARIABLES
    settings,       \* enabled and intervalHours
    lastRun,        \* the age of lastRunAt
    timer,          \* what is left of the delay, or None
    runs,           \* where each call of run() is
    manual,         \* a user's createBackup is under way
    panel,          \* "up", "destroyed" (shutting down) or "down"
    disk,           \* the rows system_preferences holds
    saves, downs,
    begun,          \* the age of the last automatic backup
    hasty, unsaved  \* what the properties remember; see below

history == <<begun, hasty, unsaved>>
vars == <<settings, lastRun, timer, runs, manual, panel, disk, saves, downs, history>>

None == -1
Ages == 0..Cap
SettingsRec == [enabled : BOOLEAN, interval : Intervals]

TypeOK ==
    /\ settings \in SettingsRec /\ lastRun \in Ages
    /\ timer \in 0..MaxDelay \cup {None}
    /\ runs \in [Runs -> {"idle", "backup", "prune"}]
    /\ manual \in BOOLEAN /\ panel \in {"up", "destroyed", "down"}
    /\ disk \in [settings : SettingsRec, lastRun : Ages]
    /\ saves \in 0..MaxSaves /\ downs \in 0..MaxDowns
    /\ begun \in Ages /\ hasty \in BOOLEAN /\ unsaved \in BOOLEAN

Least(a, b) == IF a < b THEN a ELSE b

\* Mutant: the delay of a backup that is overdue is negative.
Delay_Unclamped(s, age) == s.interval - age

Delay(s, age) == IF age < s.interval THEN s.interval - age ELSE 0

\* schedule(): setTimeout takes a delay it cannot hold for 1 ms.
Scheduled(s, age) ==
    IF panel = "destroyed" \/ ~s.enabled THEN None
    ELSE IF Delay(s, age) > MaxDelay THEN 0 ELSE Delay(s, age)

\* saveSettings writes one row after the other; it throws after the first n.
Written(s, age, n) ==
    [settings |-> [enabled  |-> IF n > 0 THEN s.enabled ELSE disk.settings.enabled,
                   interval |-> IF n > 1 THEN s.interval ELSE disk.settings.interval],
     lastRun  |-> IF n > 2 THEN age ELSE disk.lastRun]
All == 3

creating == manual \/ \E r \in Runs : runs[r] = "backup"
Working  == \E r \in Runs : runs[r] # "idle"

Init ==
    /\ settings \in [enabled : {FALSE}, interval : Intervals] /\ lastRun = Cap
    /\ timer = None /\ runs = [r \in Runs |-> "idle"] /\ manual = FALSE
    /\ panel = "up" /\ disk = [settings |-> settings, lastRun |-> Cap]
    /\ saves = 0 /\ downs = 0 /\ begun = Cap /\ hasty = FALSE /\ unsaved = FALSE

-----------------------------------------------------------------------------
(* PUT /settings.                                                          *)

Saves(s) ==
    /\ panel # "down" /\ saves < MaxSaves
    /\ saves' = saves + 1
    /\ settings' = s
    /\ disk' = Written(s, lastRun, All)
    /\ timer' = Scheduled(s, lastRun)
    /\ hasty' = (hasty \/ Working) /\ unsaved' = FALSE
    /\ UNCHANGED <<lastRun, runs, manual, panel, downs, begun>>

\* An upsert throws: the settings hold in memory, the timer is not set again.
SaveFails(s) ==
    /\ panel # "down" /\ saves < MaxSaves
    /\ saves' = saves + 1
    /\ settings' = s
    /\ \E n \in 0..All - 1 : disk' = Written(s, lastRun, n)
    /\ hasty' = TRUE /\ unsaved' = TRUE
    /\ UNCHANGED <<lastRun, timer, runs, manual, panel, downs, begun>>

-----------------------------------------------------------------------------
(* run().                                                                  *)

\* Mutant: a run that failed does not set the timer again.
Finish_NoSchedule(n) ==
    /\ lastRun' = 0
    /\ disk' = Written(settings, 0, n)
    /\ timer' = IF n = All THEN Scheduled(settings, 0) ELSE None
    /\ hasty' = (hasty \/ n < All) /\ unsaved' = FALSE

\* Mutant: the time of the last run is not kept.
Finish_Forgets(n) ==
    /\ UNCHANGED lastRun
    /\ disk' = Written(settings, lastRun, n)
    /\ timer' = Scheduled(settings, lastRun)
    /\ hasty' = (hasty \/ n < All) /\ unsaved' = FALSE

\* The end of run(), after n rows of the settings were written.
Finish(n) ==
    /\ lastRun' = 0
    /\ disk' = Written(settings, 0, n)
    /\ timer' = Scheduled(settings, 0)
    /\ hasty' = (hasty \/ n < All) /\ unsaved' = FALSE

Starts(r) ==
    /\ timer = 0 /\ ~creating /\ runs[r] = "idle"
    /\ runs' = [runs EXCEPT ![r] = "backup"]
    /\ timer' = None /\ begun' = 0 /\ hasty' = FALSE
    /\ UNCHANGED <<settings, lastRun, manual, panel, disk, saves, downs, unsaved>>

\* backup_already_running
Refused ==
    /\ timer = 0 /\ creating
    /\ \E n \in 0..All : Finish(n)
    /\ UNCHANGED <<settings, runs, manual, panel, saves, downs, begun>>

Fires == Refused \/ \E r \in Runs : Starts(r)

\* createBackup is done, pruneOldBackups lists what there is.
BacksUp(r) ==
    /\ runs[r] = "backup"
    /\ runs' = [runs EXCEPT ![r] = "prune"]
    /\ UNCHANGED <<settings, lastRun, timer, manual, panel, disk, saves, downs, history>>

\* pruneOldBackups is done, or createBackup throws.
Ends(r) ==
    /\ runs[r] # "idle"
    /\ runs' = [runs EXCEPT ![r] = "idle"]
    /\ \E n \in 0..All : Finish(n)
    /\ UNCHANGED <<settings, manual, panel, saves, downs, begun>>

ManualStarts ==
    /\ panel = "up" /\ ~creating /\ manual' = TRUE
    /\ UNCHANGED <<settings, lastRun, timer, runs, panel, disk, saves, downs, history>>

ManualEnds ==
    /\ manual /\ manual' = FALSE
    /\ UNCHANGED <<settings, lastRun, timer, runs, panel, disk, saves, downs, history>>

-----------------------------------------------------------------------------
(* The panel's process, and the clock.                                     *)

Destroyed ==
    /\ panel = "up" /\ downs < MaxDowns
    /\ panel' = "destroyed" /\ timer' = None
    /\ UNCHANGED <<settings, lastRun, runs, manual, disk, saves, downs, history>>

Downs ==
    /\ panel # "down" /\ downs < MaxDowns
    /\ panel' = "down" /\ downs' = downs + 1
    /\ timer' = None /\ runs' = [r \in Runs |-> "idle"] /\ manual' = FALSE
    /\ hasty' = (hasty \/ Working)
    /\ UNCHANGED <<settings, lastRun, disk, saves, begun, unsaved>>

\* Mutant: the start of the panel waits for the next save.
Boots_NoSchedule ==
    /\ panel = "down" /\ panel' = "up"
    /\ settings' = disk.settings /\ lastRun' = disk.lastRun
    /\ UNCHANGED <<timer, runs, manual, disk, saves, downs, history>>

Boots ==
    /\ panel = "down" /\ panel' = "up"
    /\ settings' = disk.settings /\ lastRun' = disk.lastRun
    /\ timer' = Scheduled(disk.settings, disk.lastRun) /\ unsaved' = FALSE
    /\ UNCHANGED <<runs, manual, disk, saves, downs, begun, hasty>>

Older(age) == Least(age + 1, Cap)

Passes ==
    /\ lastRun' = Older(lastRun) /\ begun' = Older(begun)
    /\ disk' = [disk EXCEPT !.lastRun = Older(@)]
    /\ timer' = IF timer > 0 THEN timer - 1 ELSE timer
    /\ UNCHANGED <<settings, runs, manual, panel, saves, downs, hasty, unsaved>>

-----------------------------------------------------------------------------
User    == ManualStarts \/ \E s \in SettingsRec : Saves(s) \/ SaveFails(s)
Process == Destroyed \/ Downs \/ Boots
Run(r)  == BacksUp(r) \/ Ends(r)
Next == User \/ Fires \/ ManualEnds \/ Process \/ Passes \/ \E r \in Runs : Run(r)

\* Timers fire, a backup ends, a panel that went down is started again, and
\* time goes on.
Fairness ==
    /\ WF_vars(Fires) /\ WF_vars(ManualEnds) /\ WF_vars(Boots) /\ WF_vars(Passes)
    /\ WF_vars(panel = "destroyed" /\ Downs)
    /\ \A r \in Runs : WF_vars(BacksUp(r)) /\ WF_vars(Ends(r))

Spec == Init /\ [][Next]_vars /\ Fairness

-----------------------------------------------------------------------------
(* Properties.  hasty: since the last automatic backup began, settings     *)
(* were saved during a run, or could not be saved, or the panel went down  *)
(* during a run.  unsaved: the last save of the user threw.                *)

\* While automatic backups are enabled there is always a next one: the timer
\* is set or a run will set it, unless the user's last save threw.
TimerArmed ==
    panel = "up" /\ settings.enabled /\ ~unsaved => timer # None \/ Working

\* Two automatic backups are an interval apart, for an interval a timer can
\* hold, whatever the failures, manual backups and restarts between them.
BackupsSpaced ==
    [][\A r \in Runs : Starts(r) /\ ~hasty /\ settings.interval <= MaxDelay
         => begun >= settings.interval]_vars

\* BackupTab.tsx takes any interval up to a year for the time between two
\* automatic backups.
AnyIntervalKept ==
    [][\A r \in Runs : Starts(r) /\ ~hasty => begun >= settings.interval]_vars

\* A backup that is due is tried, also if it became due while the panel was
\* down or while another backup was made.
Due == panel = "up" /\ settings.enabled /\ ~unsaved /\ lastRun >= settings.interval
OverdueIsRun == Due ~> lastRun = 0 \/ ~settings.enabled \/ unsaved \/ Working
=============================================================================
