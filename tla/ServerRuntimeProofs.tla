------------------------- MODULE ServerRuntimeProofs -------------------------
(***************************************************************************)
(* Safety of ServerRuntime for every number of processes, calls and panel  *)
(* restarts and every set of exits.  The properties speak of flags and     *)
(* processes; what makes them hold is what the calls under way remember,   *)
(* so the invariant says what may be true of the runtime a call has read   *)
(* while it waits.                                                         *)
(***************************************************************************)
EXTENDS ServerRuntime, TLAPS

\* Whatever a call, the map or a shutdown refers to has been spawned.
Spawned ==
    /\ cur # None => life[cur] # "unused"
    /\ \A c \in Calls : rt[c] # None => life[rt[c]] # "unused"
    /\ \A p \in snap : life[p] # "unused"

\* A process not yet spawned has no runtime fields.
Fresh == \A p \in Pids : life[p] = "unused" => flags[p] = {}

\* A stop() that waits for its /quit, and a shutdown that does, hold runtimes
\* that somebody asked to stop, or that are closed.
QuitsTargets ==
    /\ \A c \in Calls : pc[c] = "quit" => Closed(rt[c]) \/ rt[c] \in targets
    /\ panel = "quitting" => \A p \in snap : Closed(p) \/ p \in targets

\* A start() under way holds no runtime, or one whose process has ended.
StartsFree ==
    \A c \in Calls : pc[c] \in {"firewall", "settle"} =>
        rt[c] = None \/ life[rt[c]] \in {"exitZero", "exitError", "gone"}

\* A live process marked as stopping or watched, outside a shutdown, has its
\* watchdog or has been killed.
Watched ==
    \A p \in Pids :
        /\ win32 /\ panel \in {"up", "down"} /\ Alive(p)
        /\ flags[p] \cap {"stopping", "stopWatchdogActive"} # {}
        => p \in loops \/ doomed[p] = "kill"

\* A shutdown holds one process, killed once the deadline has passed.
SnapReaped ==
    /\ \A p, q \in snap : p = q
    /\ panel \in {"forcing", "down"} =>
           \A p \in snap : Alive(p) => doomed[p] = "kill"

IInv == /\ TypeOK
        /\ Spawned
        /\ Fresh
        /\ OnlyTargetsTouched
        /\ QuitsTargets
        /\ StartsFree
        /\ Watched
        /\ SnapReaped

\* 0, which stands for no runtime, is no process.
LEMMA NoneIsNoPid == None \notin Pids
BY DEF None, Pids

\* One step as a disjunction of its callbacks, with the quantifiers outside.
LEMMA NextCases ==
    ASSUME Next
    PROVE  \/ \E c \in Calls :
                 \/ StartCheck(c) \/ StartCleanup(c) \/ Spawn(c) \/ SpawnThrows(c)
                 \/ StopSend(c) \/ QuitDelivered(c) \/ StopOk(c) \/ StopFail(c)
                 \/ Kill(c) \/ KillReturns(c)
           \/ \E p \in Pids :
                 \/ WatchdogGone(p) \/ WatchdogKills(p) \/ FinalizeEnds(p)
                 \/ KillTimer(p) \/ Bind(p) \/ Hosting(p) \/ ShutdownMarker(p)
                 \/ \E how \in Exits : Exit(p, how)
                 \/ CloseHandler(p) \/ ShutdownQuits(p)
           \/ ShutdownBegins \/ ShutdownIdle \/ ShutdownDone \/ ShutdownForces
           \/ ShutdownForced \/ PanelCrash \/ PanelBoots
BY Zenon DEF Next, Call, Watchdog, Game, Shutdown

\* Setting and clearing fields touches one open runtime and keeps the types.
LEMMA FlaggedEffect ==
    ASSUME TypeOK, NEW p \in Pids \cup {None}, NEW set \in SUBSET Flags, NEW clear
    PROVE  /\ Flagged(p, set, clear) \in [Pids -> SUBSET Flags]
           /\ \A q \in Pids :
                Flagged(p, set, clear)[q] =
                  IF q = p /\ ~Closed(p) THEN (flags[p] \cup set) \ clear
                  ELSE flags[q]
BY NoneIsNoPid DEF Flagged, Closed, TypeOK

\* A request to end processes keeps the types, undoes no kill, and a kill
\* reaches every live process it is meant for.
LEMMA DoomEffect ==
    ASSUME TypeOK, NEW ps, NEW how \in {"asked", "kill"}, Doom(ps, how)
    PROVE  /\ doomed' \in [Pids -> {"no", "asked", "kill"}]
           /\ \A q \in Pids : doomed[q] = "kill" => doomed'[q] = "kill"
           /\ \A q \in Pids : q \in ps /\ Alive(q) /\ how = "kill"
                                => doomed'[q] = "kill"
BY DEF Doom, TypeOK

\* The signal a platform uses to end a process is one of the two requests.
LEMMA SigtermType == Sigterm \in {"asked", "kill"}
BY DEF Sigterm

\* Every callback keeps the types.
LEMMA StepTypeOK == ASSUME TypeOK, Next PROVE TypeOK'
<1> USE RuntimeAssumption, NoneIsNoPid DEF TypeOK
<1>1. ASSUME NEW c \in Calls, StartCheck(c) PROVE TypeOK'
  BY <1>1 DEF StartCheck, Await, Enter, Running, panelVars, osVars,
     timerVars
<1>2. ASSUME NEW c \in Calls, StartCleanup(c) PROVE TypeOK'
  BY <1>2, DoomEffect, SigtermType DEF StartCleanup, Await, panelVars,
     timerVars
<1>3. ASSUME NEW c \in Calls, Spawn(c) PROVE TypeOK'
  BY <1>3 DEF Spawn, Return, Ready, panelVars, timerVars, Await
<1>4. ASSUME NEW c \in Calls, SpawnThrows(c) PROVE TypeOK'
  BY <1>4 DEF SpawnThrows, Return, Ready, panelVars, osVars, timerVars,
     Await
<1>5. ASSUME NEW c \in Calls, StopSend(c) PROVE TypeOK'
  BY <1>5 DEF StopSend, Await, Enter, Closed, panelVars, osVars, timerVars
<1>6. ASSUME NEW c \in Calls, QuitDelivered(c) PROVE TypeOK'
  BY <1>6, DoomEffect DEF QuitDelivered, panelVars, callVars, timerVars
<1>7. ASSUME NEW c \in Calls, StopOk(c) PROVE TypeOK'
  <2>1. PICK set \in SUBSET Flags : flags' = Flagged(rt[c], set, {})
    BY <1>7 DEF StopOk, StopContinues, Flags
  <2>2. flags' \in [Pids -> SUBSET Flags]
    BY <2>1, FlaggedEffect
  <2>3. rt[c] # None => rt[c] \in Pids
    OBVIOUS
  <2>4. loops' \subseteq Pids /\ (~win32 => loops' = {})
    BY <1>7, <2>3 DEF StopOk, StopContinues, Closed
  <2> QED
    BY <1>7, <2>2, <2>4 DEF StopOk, StopContinues, vars, panelVars, osVars,
       callVars, timerVars, Await, Return
<1>8. ASSUME NEW c \in Calls, StopFail(c) PROVE TypeOK'
  BY <1>8 DEF StopFail, Return, panelVars, osVars, timerVars, Await
<1>9. ASSUME NEW c \in Calls, Kill(c) PROVE TypeOK'
  <2>1. flags' \in [Pids -> SUBSET Flags]
    BY <1>9, FlaggedEffect DEF Kill, Running, Closed, Alive, Flags
  <2>2. doomed' \in [Pids -> {"no", "asked", "kill"}]
    BY <1>9, DoomEffect DEF Kill, vars, osVars
  <2> QED
    BY <1>9, <2>1, <2>2 DEF Kill, vars, panelVars, osVars,
       callVars, timerVars, Await, Return, Enter, Running
<1>10. ASSUME NEW c \in Calls, KillReturns(c) PROVE TypeOK'
  BY <1>10, DoomEffect DEF KillReturns, Return, DoomByPort, panelVars,
     timerVars, Await
<1>11. ASSUME NEW p \in Pids, WatchdogGone(p) PROVE TypeOK'
  BY <1>11, FlaggedEffect DEF WatchdogGone, Running, panelVars, osVars,
     callVars, Flags
<1>12. ASSUME NEW p \in Pids, WatchdogKills(p) PROVE TypeOK'
  <2>1. flags' \in [Pids -> SUBSET Flags]
    BY <1>12, FlaggedEffect DEF WatchdogKills, FinalizeBegins, Running, Closed, Alive, Flags
  <2>2. doomed' \in [Pids -> {"no", "asked", "kill"}]
    BY <1>12, DoomEffect DEF WatchdogKills, FinalizeBegins, vars, osVars
  <2> QED
    BY <1>12, <2>1, <2>2 DEF WatchdogKills, FinalizeBegins, vars, panelVars, osVars,
       callVars, timerVars, Await, Return, Enter, Running
<1>13. ASSUME NEW p \in Pids, FinalizeEnds(p) PROVE TypeOK'
  BY <1>13, DoomEffect, FlaggedEffect DEF FinalizeEnds, DoomByPort,
     panelVars, callVars, Flags
<1>14. ASSUME NEW p \in Pids, KillTimer(p) PROVE TypeOK'
  <2>1. CASE Running(p)
    <3>0. flags' = Flagged(p, {"killRequested"}, {})
      BY <1>14, <2>1 DEF KillTimer, FinalizeBegins
    <3>1. flags' \in [Pids -> SUBSET Flags]
      BY <3>0, FlaggedEffect DEF Flags
    <3>2. doomed' \in [Pids -> {"no", "asked", "kill"}]
      BY <1>14, <2>1, DoomEffect DEF KillTimer, FinalizeBegins
    <3> QED
      BY <1>14, <2>1, <3>1, <3>2 DEF KillTimer, FinalizeBegins, vars, panelVars,
         osVars, callVars, timerVars
  <2>2. CASE ~Running(p)
    <3>0. flags' = Flagged(p, {}, {"stopping", "stopWatchdogActive"})
      BY <1>14, <2>2 DEF KillTimer
    <3>1. flags' \in [Pids -> SUBSET Flags]
      BY <3>0, FlaggedEffect DEF Flags
    <3> QED
      BY <1>14, <2>2, <3>1 DEF KillTimer, vars, panelVars, osVars, callVars,
         timerVars
  <2> QED
    BY <2>1, <2>2
<1>15. ASSUME NEW p \in Pids, Bind(p) PROVE TypeOK'
  BY <1>15 DEF Bind, panelVars, callVars, timerVars
<1>16. ASSUME NEW p \in Pids, Hosting(p) PROVE TypeOK'
  BY <1>16, FlaggedEffect DEF Hosting, panelVars, callVars, timerVars, Flags
<1>17. ASSUME NEW p \in Pids, ShutdownMarker(p) PROVE TypeOK'
  <2>1. flags' \in [Pids -> SUBSET Flags]
    BY <1>17, FlaggedEffect DEF ShutdownMarker, Running, Closed, Alive, Flags
  <2> QED
    BY <1>17, <2>1 DEF ShutdownMarker, vars, panelVars, osVars,
       callVars, timerVars, Await, Return, Enter, Running
<1>18. ASSUME NEW p \in Pids, NEW how \in Exits, Exit(p, how) PROVE TypeOK'
  BY <1>18 DEF Exit, Alive, panelVars, callVars, timerVars
<1>19. ASSUME NEW p \in Pids, CloseHandler(p) PROVE TypeOK'
  BY <1>19 DEF CloseHandler, panelVars
<1>20. ASSUME NEW p \in Pids, ShutdownQuits(p) PROVE TypeOK'
  BY <1>20, DoomEffect, SigtermType DEF ShutdownQuits, Alive, panelVars,
     callVars, timerVars
<1>21. ASSUME ShutdownBegins PROVE TypeOK'
  BY <1>21, FlaggedEffect DEF ShutdownBegins, Running, osVars, callVars,
     timerVars, Flags
<1>22. ASSUME ShutdownIdle PROVE TypeOK'
  BY <1>22 DEF ShutdownIdle, Running, PanelGone, Alive
<1>23. ASSUME ShutdownDone PROVE TypeOK'
  BY <1>23 DEF ShutdownDone, Running, PanelGone, Alive
<1>24. ASSUME ShutdownForces PROVE TypeOK'
  <2>0. PICK p \in snap : flags' = Flagged(p, {"killRequested"}, {})
    BY <1>24 DEF ShutdownForces
  <2>1. flags' \in [Pids -> SUBSET Flags]
    BY <2>0, FlaggedEffect DEF Flags
  <2>2. doomed' \in [Pids -> {"no", "asked", "kill"}]
    BY <1>24, DoomEffect DEF ShutdownForces, vars, osVars
  <2> QED
    BY <1>24, <2>1, <2>2 DEF ShutdownForces, vars, panelVars, osVars,
       callVars, timerVars, Await, Return, Enter, Running
<1>25. ASSUME ShutdownForced PROVE TypeOK'
  BY <1>25, DoomEffect DEF ShutdownForced, PanelGone, Alive
<1>26. ASSUME PanelCrash PROVE TypeOK'
  BY <1>26 DEF PanelCrash, PanelGone, Alive
<1>27. ASSUME PanelBoots PROVE TypeOK'
  BY <1>27 DEF PanelBoots, osVars, callVars, timerVars
<1> QED
  BY NextCases, <1>1, <1>2, <1>3, <1>4, <1>5, <1>6, <1>7, <1>8, <1>9,
     <1>10, <1>11, <1>12, <1>13, <1>14, <1>15, <1>16, <1>17, <1>18, <1>19,
     <1>20, <1>21, <1>22, <1>23, <1>24, <1>25, <1>26, <1>27

\* A change of one runtime's fields keeps processes fresh when it marks none
\* that is not yet spawned.
LEMMA FlaggedFresh ==
    ASSUME TypeOK, Fresh, NEW p \in Pids \cup {None}, NEW set \in SUBSET Flags,
           NEW clear, flags' = Flagged(p, set, clear),
           p # None /\ life[p] = "unused" => set = {},
           \A q \in Pids : life'[q] = "unused" => life[q] = "unused"
    PROVE  Fresh'
<1> SUFFICES ASSUME NEW q \in Pids, life'[q] = "unused" PROVE flags'[q] = {}
  BY DEF Fresh
<1>1. flags[q] = {}
  BY DEF Fresh
<1>2. flags'[q] = IF q = p /\ ~Closed(p) THEN (flags[p] \cup set) \ clear
                  ELSE flags[q]
  BY FlaggedEffect
<1> QED BY <1>1, <1>2, NoneIsNoPid

\* A change of one runtime's fields is harmless when a runtime it marks as
\* stopping or killed is a target, and so is whatever is newly watched.
LEMMA FlaggedTouched ==
    ASSUME TypeOK, OnlyTargetsTouched, NEW p \in Pids \cup {None},
           NEW set \in SUBSET Flags, NEW clear, flags' = Flagged(p, set, clear),
           \/ Closed(p) \/ p \in targets'
           \/ set \cap {"stopping", "killRequested"} = {},
           targets \subseteq targets',
           loops' \cup armed' \subseteq loops \cup armed \cup targets'
    PROVE  OnlyTargetsTouched'
<1> SUFFICES ASSUME NEW q \in Pids, q \notin targets'
             PROVE  /\ q \notin loops' \cup armed'
                    /\ flags'[q] \cap {"stopping", "killRequested"} = {}
  BY DEF OnlyTargetsTouched
<1>1. /\ q \notin loops \cup armed
      /\ flags[q] \cap {"stopping", "killRequested"} = {}
  BY DEF OnlyTargetsTouched
<1>2. Flagged(p, set, clear)[q] =
        IF q = p /\ ~Closed(p) THEN (flags[p] \cup set) \ clear ELSE flags[q]
  BY ONLY TypeOK, p \in Pids \cup {None}, set \in SUBSET Flags, q \in Pids,
          FlaggedEffect
<1>3. CASE q = p /\ ~Closed(p)
  <2>1. set \cap {"stopping", "killRequested"} = {}
    BY <1>3
  <2> QED BY <1>1, <1>2, <1>3, <2>1
<1>4. CASE ~(q = p /\ ~Closed(p))
  BY <1>1, <1>2, <1>4
<1> QED BY <1>3, <1>4

\* A change of one runtime's fields keeps the watch when it marks only what is
\* watched, and a process loses its watch only with its marks.
LEMMA FlaggedWatched ==
    ASSUME TypeOK, Watched, NEW p \in Pids \cup {None},
           NEW set \in SUBSET Flags, NEW clear, flags' = Flagged(p, set, clear),
           win32' = win32, panel' \in {panel, "quitting", "forcing"},
           \A q \in Pids : life'[q] \in {"loading", "hosting"} => Alive(q),
           \A q \in Pids : Alive(q) /\ (q \in loops \/ doomed[q] = "kill") =>
               \/ q \in loops' \/ doomed'[q] = "kill"
               \/ q = p /\ set = {} /\ {"stopping", "stopWatchdogActive"} \subseteq clear,
           /\ p # None /\ win32 /\ Alive(p) /\ panel' \in {"up", "down"}
           /\ set \cap {"stopping", "stopWatchdogActive"} # {}
           => p \in loops' \/ doomed'[p] = "kill"
    PROVE  Watched'
<1> SUFFICES ASSUME NEW q \in Pids, win32, panel' \in {"up", "down"},
                    life'[q] \in {"loading", "hosting"},
                    flags'[q] \cap {"stopping", "stopWatchdogActive"} # {}
             PROVE  q \in loops' \/ doomed'[q] = "kill"
  BY DEF Watched, Alive
<1>1. panel \in {"up", "down"} /\ Alive(q)
  OBVIOUS
<1>2. q # None /\ ~Closed(q)
  BY <1>1, NoneIsNoPid DEF Closed, Alive
<1>3. CASE q # p
  <2>1. flags'[q] = flags[q]
    BY <1>3, FlaggedEffect
  <2> QED BY <1>1, <1>3, <2>1 DEF Watched
<1>4. CASE q = p
  <2>1. flags'[q] = (flags[q] \cup set) \ clear
    BY <1>2, <1>4, FlaggedEffect
  <2>2. CASE set \cap {"stopping", "stopWatchdogActive"} # {}
    BY <1>1, <1>2, <1>4, <2>2
  <2>3. CASE set \cap {"stopping", "stopWatchdogActive"} = {}
    <3>1. flags[q] \cap {"stopping", "stopWatchdogActive"} # {}
      BY <2>1, <2>3
    <3>2. q \in loops \/ doomed[q] = "kill"
      BY <1>1, <3>1 DEF Watched
    <3>3. ~({"stopping", "stopWatchdogActive"} \subseteq clear)
      BY <2>1
    <3> QED BY <1>1, <3>2, <3>3
  <2> QED BY <2>2, <2>3
<1> QED BY <1>3, <1>4

\* Calls, the map and shutdowns go on referring to spawned processes only.
LEMMA StepSpawned == ASSUME TypeOK, Spawned, Next PROVE Spawned'
<1> USE RuntimeAssumption, NoneIsNoPid DEF TypeOK, Spawned
<1>1. ASSUME NEW c \in Calls, StartCheck(c) PROVE Spawned'
  BY <1>1 DEF StartCheck, Await, Enter, Running, panelVars, osVars,
     timerVars
<1>2. ASSUME NEW c \in Calls, StartCleanup(c) PROVE Spawned'
  BY <1>2 DEF StartCleanup, Await, panelVars, timerVars
<1>3. ASSUME NEW c \in Calls, Spawn(c) PROVE Spawned'
  BY <1>3 DEF Spawn, Return, Ready, panelVars, timerVars, Await
<1>4. ASSUME NEW c \in Calls, SpawnThrows(c) PROVE Spawned'
  BY <1>4 DEF SpawnThrows, Return, Ready, panelVars, osVars, timerVars,
     Await
<1>5. ASSUME NEW c \in Calls, StopSend(c) PROVE Spawned'
  BY <1>5 DEF StopSend, Await, Enter, Closed, panelVars, osVars, timerVars
<1>6. ASSUME NEW c \in Calls, QuitDelivered(c) PROVE Spawned'
  BY <1>6 DEF QuitDelivered, panelVars, callVars, timerVars
<1>7. ASSUME NEW c \in Calls, StopOk(c) PROVE Spawned'
  BY <1>7 DEF StopOk, StopContinues, Return, Closed, panelVars, osVars,
     Await
<1>8. ASSUME NEW c \in Calls, StopFail(c) PROVE Spawned'
  BY <1>8 DEF StopFail, Return, panelVars, osVars, timerVars, Await
<1>9. ASSUME NEW c \in Calls, Kill(c) PROVE Spawned'
  BY <1>9 DEF Kill, Await, Enter, Running, panelVars, timerVars
<1>10. ASSUME NEW c \in Calls, KillReturns(c) PROVE Spawned'
  BY <1>10 DEF KillReturns, Return, DoomByPort, panelVars, timerVars, Await
<1>11. ASSUME NEW p \in Pids, WatchdogGone(p) PROVE Spawned'
  BY <1>11 DEF WatchdogGone, Running, panelVars, osVars, callVars
<1>12. ASSUME NEW p \in Pids, WatchdogKills(p) PROVE Spawned'
  BY <1>12 DEF WatchdogKills, FinalizeBegins, Running, panelVars, callVars
<1>13. ASSUME NEW p \in Pids, FinalizeEnds(p) PROVE Spawned'
  BY <1>13 DEF FinalizeEnds, DoomByPort, panelVars, callVars
<1>14. ASSUME NEW p \in Pids, KillTimer(p) PROVE Spawned'
  BY <1>14 DEF KillTimer, FinalizeBegins, Running, panelVars, osVars,
     callVars
<1>15. ASSUME NEW p \in Pids, Bind(p) PROVE Spawned'
  BY <1>15 DEF Bind, panelVars, callVars, timerVars
<1>16. ASSUME NEW p \in Pids, Hosting(p) PROVE Spawned'
  BY <1>16 DEF Hosting, panelVars, callVars, timerVars
<1>17. ASSUME NEW p \in Pids, ShutdownMarker(p) PROVE Spawned'
  BY <1>17 DEF ShutdownMarker, Alive, panelVars, osVars, callVars
<1>18. ASSUME NEW p \in Pids, NEW how \in Exits, Exit(p, how) PROVE Spawned'
  BY <1>18 DEF Exit, Alive, panelVars, callVars, timerVars
<1>19. ASSUME NEW p \in Pids, CloseHandler(p) PROVE Spawned'
  BY <1>19 DEF CloseHandler, panelVars
<1>20. ASSUME NEW p \in Pids, ShutdownQuits(p) PROVE Spawned'
  BY <1>20 DEF ShutdownQuits, Alive, panelVars, callVars, timerVars
<1>21. ASSUME ShutdownBegins PROVE Spawned'
  BY <1>21 DEF ShutdownBegins, Running, osVars, callVars, timerVars
<1>22. ASSUME ShutdownIdle PROVE Spawned'
  BY <1>22 DEF ShutdownIdle, Running, PanelGone, Alive
<1>23. ASSUME ShutdownDone PROVE Spawned'
  BY <1>23 DEF ShutdownDone, Running, PanelGone, Alive
<1>24. ASSUME ShutdownForces PROVE Spawned'
  BY <1>24 DEF ShutdownForces, Running, callVars, timerVars
<1>25. ASSUME ShutdownForced PROVE Spawned'
  BY <1>25 DEF ShutdownForced, PanelGone, Alive
<1>26. ASSUME PanelCrash PROVE Spawned'
  BY <1>26 DEF PanelCrash, PanelGone, Alive
<1>27. ASSUME PanelBoots PROVE Spawned'
  BY <1>27 DEF PanelBoots, osVars, callVars, timerVars
<1> QED
  BY NextCases, <1>1, <1>2, <1>3, <1>4, <1>5, <1>6, <1>7, <1>8, <1>9,
     <1>10, <1>11, <1>12, <1>13, <1>14, <1>15, <1>16, <1>17, <1>18, <1>19,
     <1>20, <1>21, <1>22, <1>23, <1>24, <1>25, <1>26, <1>27

\* A process has no runtime fields before it is spawned.
LEMMA StepFresh == ASSUME TypeOK, Spawned, OnlyTargetsTouched, Fresh, Next PROVE Fresh'
<1> USE RuntimeAssumption, NoneIsNoPid DEF TypeOK, Spawned
<1>1. ASSUME NEW c \in Calls, StartCheck(c) PROVE Fresh'
  BY <1>1 DEF StartCheck, Await, Enter, Running, panelVars, osVars,
     timerVars, Fresh
<1>2. ASSUME NEW c \in Calls, StartCleanup(c) PROVE Fresh'
  BY <1>2 DEF StartCleanup, Await, panelVars, timerVars, Fresh
<1>3. ASSUME NEW c \in Calls, Spawn(c) PROVE Fresh'
  BY <1>3 DEF Spawn, Return, Ready, panelVars, timerVars, Await, Fresh
<1>4. ASSUME NEW c \in Calls, SpawnThrows(c) PROVE Fresh'
  BY <1>4 DEF SpawnThrows, Return, Ready, panelVars, osVars, timerVars,
     Await, Fresh
<1>5. ASSUME NEW c \in Calls, StopSend(c) PROVE Fresh'
  BY <1>5 DEF StopSend, Await, Enter, Closed, panelVars, osVars, timerVars,
     Fresh
<1>6. ASSUME NEW c \in Calls, QuitDelivered(c) PROVE Fresh'
  BY <1>6 DEF QuitDelivered, panelVars, callVars, timerVars, Fresh
<1>7. ASSUME NEW c \in Calls, StopOk(c) PROVE Fresh'
  BY <1>7, FlaggedFresh DEF StopOk, StopContinues, Return, Closed,
     panelVars, osVars, Await, Flags
<1>8. ASSUME NEW c \in Calls, StopFail(c) PROVE Fresh'
  BY <1>8 DEF StopFail, Return, panelVars, osVars, timerVars, Await, Fresh
<1>9. ASSUME NEW c \in Calls, Kill(c) PROVE Fresh'
  BY <1>9, FlaggedFresh DEF Kill, Await, Enter, Running, panelVars,
     timerVars, Flags
<1>10. ASSUME NEW c \in Calls, KillReturns(c) PROVE Fresh'
  BY <1>10 DEF KillReturns, Return, DoomByPort, panelVars, timerVars, Await,
     Fresh
<1>11. ASSUME NEW p \in Pids, WatchdogGone(p) PROVE Fresh'
  BY <1>11, FlaggedFresh DEF WatchdogGone, Running, panelVars, osVars,
     callVars, Flags
<1>12. ASSUME NEW p \in Pids, WatchdogKills(p) PROVE Fresh'
  BY <1>12, FlaggedFresh DEF WatchdogKills, FinalizeBegins, Running,
     panelVars, callVars, Flags
<1>13. ASSUME NEW p \in Pids, FinalizeEnds(p) PROVE Fresh'
  BY <1>13, FlaggedFresh DEF FinalizeEnds, DoomByPort, panelVars, callVars,
     Flags
<1>14. ASSUME NEW p \in Pids, KillTimer(p) PROVE Fresh'
  BY <1>14, FlaggedFresh DEF KillTimer, FinalizeBegins, Running, panelVars,
     osVars, callVars, Flags
<1>15. ASSUME NEW p \in Pids, Bind(p) PROVE Fresh'
  BY <1>15 DEF Bind, panelVars, callVars, timerVars, Fresh
<1>16. ASSUME NEW p \in Pids, Hosting(p) PROVE Fresh'
  <2>1. CASE p \in orphans
    BY <1>16, <2>1 DEF Hosting, Fresh, panelVars, callVars, timerVars
  <2>2. CASE p \notin orphans
    BY <1>16, <2>2, FlaggedFresh DEF Hosting, panelVars, callVars, timerVars, Flags
  <2> QED
    BY <2>1, <2>2
<1>17. ASSUME NEW p \in Pids, ShutdownMarker(p) PROVE Fresh'
  BY <1>17, FlaggedFresh DEF ShutdownMarker, Alive, panelVars, osVars,
     callVars, Flags
<1>18. ASSUME NEW p \in Pids, NEW how \in Exits, Exit(p, how) PROVE Fresh'
  BY <1>18 DEF Exit, Alive, panelVars, callVars, timerVars, Fresh
<1>19. ASSUME NEW p \in Pids, CloseHandler(p) PROVE Fresh'
  BY <1>19 DEF CloseHandler, panelVars, Fresh
<1>20. ASSUME NEW p \in Pids, ShutdownQuits(p) PROVE Fresh'
  BY <1>20 DEF ShutdownQuits, Alive, panelVars, callVars, timerVars, Fresh
<1>21. ASSUME ShutdownBegins PROVE Fresh'
  BY <1>21, FlaggedFresh DEF ShutdownBegins, Running, osVars, callVars,
     timerVars, Flags
<1>22. ASSUME ShutdownIdle PROVE Fresh'
  BY <1>22 DEF ShutdownIdle, Running, PanelGone, Alive, Fresh
<1>23. ASSUME ShutdownDone PROVE Fresh'
  BY <1>23 DEF ShutdownDone, Running, PanelGone, Alive, Fresh
<1>24. ASSUME ShutdownForces PROVE Fresh'
  BY <1>24, FlaggedFresh DEF ShutdownForces, Running, callVars, timerVars,
     Flags
<1>25. ASSUME ShutdownForced PROVE Fresh'
  BY <1>25 DEF ShutdownForced, PanelGone, Alive, Fresh
<1>26. ASSUME PanelCrash PROVE Fresh'
  BY <1>26 DEF PanelCrash, PanelGone, Alive, Fresh
<1>27. ASSUME PanelBoots PROVE Fresh'
  BY <1>27 DEF PanelBoots, osVars, callVars, timerVars, Fresh
<1> QED
  BY NextCases, <1>1, <1>2, <1>3, <1>4, <1>5, <1>6, <1>7, <1>8, <1>9,
     <1>10, <1>11, <1>12, <1>13, <1>14, <1>15, <1>16, <1>17, <1>18, <1>19,
     <1>20, <1>21, <1>22, <1>23, <1>24, <1>25, <1>26, <1>27

\* Every callback marks, watches and arms only what somebody asked to stop.
LEMMA StepTouched ==
    ASSUME TypeOK, OnlyTargetsTouched, QuitsTargets, Next PROVE OnlyTargetsTouched'
<1> USE NoneIsNoPid DEF TypeOK
<1>1. ASSUME NEW c \in Calls, StartCheck(c) PROVE OnlyTargetsTouched'
  BY <1>1 DEF StartCheck, Await, Enter, Running, panelVars, osVars,
     timerVars, OnlyTargetsTouched
<1>2. ASSUME NEW c \in Calls, StartCleanup(c) PROVE OnlyTargetsTouched'
  BY <1>2 DEF StartCleanup, Await, panelVars, timerVars, OnlyTargetsTouched
<1>3. ASSUME NEW c \in Calls, Spawn(c) PROVE OnlyTargetsTouched'
  BY <1>3 DEF Spawn, Return, Ready, panelVars, timerVars, Await,
     OnlyTargetsTouched
<1>4. ASSUME NEW c \in Calls, SpawnThrows(c) PROVE OnlyTargetsTouched'
  BY <1>4 DEF SpawnThrows, Return, Ready, panelVars, osVars, timerVars,
     Await, OnlyTargetsTouched
<1>5. ASSUME NEW c \in Calls, StopSend(c) PROVE OnlyTargetsTouched'
  BY <1>5 DEF StopSend, Await, Enter, Closed, panelVars, osVars, timerVars,
     OnlyTargetsTouched
<1>6. ASSUME NEW c \in Calls, QuitDelivered(c) PROVE OnlyTargetsTouched'
  BY <1>6 DEF QuitDelivered, panelVars, callVars, timerVars,
     OnlyTargetsTouched
<1>7. ASSUME NEW c \in Calls, StopOk(c) PROVE OnlyTargetsTouched'
  BY <1>7, FlaggedTouched DEF StopOk, StopContinues, Return, Closed,
     panelVars, osVars, Await, Flags, QuitsTargets
<1>8. ASSUME NEW c \in Calls, StopFail(c) PROVE OnlyTargetsTouched'
  BY <1>8 DEF StopFail, Return, panelVars, osVars, timerVars, Await,
     OnlyTargetsTouched
<1>9. ASSUME NEW c \in Calls, Kill(c) PROVE OnlyTargetsTouched'
  BY <1>9, FlaggedTouched DEF Kill, Await, Enter, Running, panelVars,
     timerVars, Flags
<1>10. ASSUME NEW c \in Calls, KillReturns(c) PROVE OnlyTargetsTouched'
  BY <1>10 DEF KillReturns, Return, DoomByPort, panelVars, timerVars, Await,
     OnlyTargetsTouched
<1>11. ASSUME NEW p \in Pids, WatchdogGone(p) PROVE OnlyTargetsTouched'
  BY <1>11, FlaggedTouched DEF WatchdogGone, Running, panelVars, osVars,
     callVars, Flags
<1>12. ASSUME NEW p \in Pids, WatchdogKills(p) PROVE OnlyTargetsTouched'
  BY <1>12, FlaggedTouched DEF WatchdogKills, FinalizeBegins, Running,
     panelVars, callVars, Flags, OnlyTargetsTouched
<1>13. ASSUME NEW p \in Pids, FinalizeEnds(p) PROVE OnlyTargetsTouched'
  BY <1>13, FlaggedTouched DEF FinalizeEnds, DoomByPort, panelVars,
     callVars, Flags
<1>14. ASSUME NEW p \in Pids, KillTimer(p) PROVE OnlyTargetsTouched'
  BY <1>14, FlaggedTouched DEF KillTimer, FinalizeBegins, Running,
     panelVars, osVars, callVars, Flags, OnlyTargetsTouched
<1>15. ASSUME NEW p \in Pids, Bind(p) PROVE OnlyTargetsTouched'
  BY <1>15 DEF Bind, panelVars, callVars, timerVars, OnlyTargetsTouched
<1>16. ASSUME NEW p \in Pids, Hosting(p) PROVE OnlyTargetsTouched'
  <2>1. CASE p \in orphans
    BY <1>16, <2>1 DEF Hosting, OnlyTargetsTouched, panelVars, callVars, timerVars
  <2>2. CASE p \notin orphans
    BY <1>16, <2>2, FlaggedTouched DEF Hosting, panelVars, callVars, timerVars, Flags
  <2> QED
    BY <2>1, <2>2
<1>17. ASSUME NEW p \in Pids, ShutdownMarker(p) PROVE OnlyTargetsTouched'
  BY <1>17, FlaggedTouched DEF ShutdownMarker, Alive, panelVars, osVars,
     callVars, Flags, OnlyTargetsTouched
<1>18. ASSUME NEW p \in Pids, NEW how \in Exits, Exit(p, how) PROVE OnlyTargetsTouched'
  BY <1>18 DEF Exit, Alive, panelVars, callVars, timerVars,
     OnlyTargetsTouched
<1>19. ASSUME NEW p \in Pids, CloseHandler(p) PROVE OnlyTargetsTouched'
  BY <1>19 DEF CloseHandler, panelVars, OnlyTargetsTouched
<1>20. ASSUME NEW p \in Pids, ShutdownQuits(p) PROVE OnlyTargetsTouched'
  BY <1>20 DEF ShutdownQuits, Alive, panelVars, callVars, timerVars,
     OnlyTargetsTouched
<1>21. ASSUME ShutdownBegins PROVE OnlyTargetsTouched'
  BY <1>21, FlaggedTouched DEF ShutdownBegins, Running, osVars, callVars,
     timerVars, Flags
<1>22. ASSUME ShutdownIdle PROVE OnlyTargetsTouched'
  BY <1>22 DEF ShutdownIdle, Running, PanelGone, Alive, OnlyTargetsTouched
<1>23. ASSUME ShutdownDone PROVE OnlyTargetsTouched'
  BY <1>23 DEF ShutdownDone, Running, PanelGone, Alive, OnlyTargetsTouched
<1>24. ASSUME ShutdownForces PROVE OnlyTargetsTouched'
  BY <1>24, FlaggedTouched DEF ShutdownForces, Running, callVars, timerVars,
     Flags, QuitsTargets
<1>25. ASSUME ShutdownForced PROVE OnlyTargetsTouched'
  BY <1>25 DEF ShutdownForced, PanelGone, Alive, OnlyTargetsTouched
<1>26. ASSUME PanelCrash PROVE OnlyTargetsTouched'
  BY <1>26 DEF PanelCrash, PanelGone, Alive, OnlyTargetsTouched
<1>27. ASSUME PanelBoots PROVE OnlyTargetsTouched'
  BY <1>27 DEF PanelBoots, osVars, callVars, timerVars, OnlyTargetsTouched
<1> QED
  BY NextCases, <1>1, <1>2, <1>3, <1>4, <1>5, <1>6, <1>7, <1>8, <1>9,
     <1>10, <1>11, <1>12, <1>13, <1>14, <1>15, <1>16, <1>17, <1>18, <1>19,
     <1>20, <1>21, <1>22, <1>23, <1>24, <1>25, <1>26, <1>27

\* What a waiting stop or shutdown holds stays a target until it is closed.
LEMMA StepQuitsTargets == ASSUME TypeOK, QuitsTargets, Next PROVE QuitsTargets'
<1> USE NoneIsNoPid DEF TypeOK, QuitsTargets, Closed
<1>1. ASSUME NEW c \in Calls, StartCheck(c) PROVE QuitsTargets'
  BY <1>1 DEF StartCheck, Await, Enter, Running, panelVars, osVars,
     timerVars
<1>2. ASSUME NEW c \in Calls, StartCleanup(c) PROVE QuitsTargets'
  BY <1>2 DEF StartCleanup, Await, panelVars, timerVars
<1>3. ASSUME NEW c \in Calls, Spawn(c) PROVE QuitsTargets'
  BY <1>3 DEF Spawn, Return, Ready, panelVars, timerVars, Await
<1>4. ASSUME NEW c \in Calls, SpawnThrows(c) PROVE QuitsTargets'
  BY <1>4 DEF SpawnThrows, Return, Ready, panelVars, osVars, timerVars,
     Await
<1>5. ASSUME NEW c \in Calls, StopSend(c) PROVE QuitsTargets'
  BY <1>5 DEF StopSend, Await, Enter, Closed, panelVars, osVars, timerVars
<1>6. ASSUME NEW c \in Calls, QuitDelivered(c) PROVE QuitsTargets'
  BY <1>6 DEF QuitDelivered, panelVars, callVars, timerVars
<1>7. ASSUME NEW c \in Calls, StopOk(c) PROVE QuitsTargets'
  BY <1>7 DEF StopOk, StopContinues, Return, Closed, panelVars, osVars,
     Await
<1>8. ASSUME NEW c \in Calls, StopFail(c) PROVE QuitsTargets'
  BY <1>8 DEF StopFail, Return, panelVars, osVars, timerVars, Await
<1>9. ASSUME NEW c \in Calls, Kill(c) PROVE QuitsTargets'
  BY <1>9 DEF Kill, Await, Enter, Running, panelVars, timerVars
<1>10. ASSUME NEW c \in Calls, KillReturns(c) PROVE QuitsTargets'
  BY <1>10 DEF KillReturns, Return, DoomByPort, panelVars, timerVars, Await
<1>11. ASSUME NEW p \in Pids, WatchdogGone(p) PROVE QuitsTargets'
  BY <1>11 DEF WatchdogGone, Running, panelVars, osVars, callVars
<1>12. ASSUME NEW p \in Pids, WatchdogKills(p) PROVE QuitsTargets'
  BY <1>12 DEF WatchdogKills, FinalizeBegins, Running, panelVars, callVars
<1>13. ASSUME NEW p \in Pids, FinalizeEnds(p) PROVE QuitsTargets'
  BY <1>13 DEF FinalizeEnds, DoomByPort, panelVars, callVars
<1>14. ASSUME NEW p \in Pids, KillTimer(p) PROVE QuitsTargets'
  BY <1>14 DEF KillTimer, FinalizeBegins, Running, panelVars, osVars,
     callVars
<1>15. ASSUME NEW p \in Pids, Bind(p) PROVE QuitsTargets'
  BY <1>15 DEF Bind, panelVars, callVars, timerVars
<1>16. ASSUME NEW p \in Pids, Hosting(p) PROVE QuitsTargets'
  BY <1>16 DEF Hosting, panelVars, callVars, timerVars
<1>17. ASSUME NEW p \in Pids, ShutdownMarker(p) PROVE QuitsTargets'
  BY <1>17 DEF ShutdownMarker, Alive, panelVars, osVars, callVars
<1>18. ASSUME NEW p \in Pids, NEW how \in Exits, Exit(p, how) PROVE QuitsTargets'
  BY <1>18 DEF Exit, Alive, panelVars, callVars, timerVars
<1>19. ASSUME NEW p \in Pids, CloseHandler(p) PROVE QuitsTargets'
  BY <1>19 DEF CloseHandler, panelVars
<1>20. ASSUME NEW p \in Pids, ShutdownQuits(p) PROVE QuitsTargets'
  BY <1>20 DEF ShutdownQuits, Alive, panelVars, callVars, timerVars
<1>21. ASSUME ShutdownBegins PROVE QuitsTargets'
  BY <1>21 DEF ShutdownBegins, Running, osVars, callVars, timerVars
<1>22. ASSUME ShutdownIdle PROVE QuitsTargets'
  BY <1>22 DEF ShutdownIdle, Running, PanelGone, Alive
<1>23. ASSUME ShutdownDone PROVE QuitsTargets'
  BY <1>23 DEF ShutdownDone, Running, PanelGone, Alive
<1>24. ASSUME ShutdownForces PROVE QuitsTargets'
  BY <1>24 DEF ShutdownForces, Running, callVars, timerVars
<1>25. ASSUME ShutdownForced PROVE QuitsTargets'
  BY <1>25 DEF ShutdownForced, PanelGone, Alive
<1>26. ASSUME PanelCrash PROVE QuitsTargets'
  BY <1>26 DEF PanelCrash, PanelGone, Alive
<1>27. ASSUME PanelBoots PROVE QuitsTargets'
  BY <1>27 DEF PanelBoots, osVars, callVars, timerVars
<1> QED
  BY NextCases, <1>1, <1>2, <1>3, <1>4, <1>5, <1>6, <1>7, <1>8, <1>9,
     <1>10, <1>11, <1>12, <1>13, <1>14, <1>15, <1>16, <1>17, <1>18, <1>19,
     <1>20, <1>21, <1>22, <1>23, <1>24, <1>25, <1>26, <1>27

\* The process of the runtime a start() has read does not come back to life.
LEMMA StepStartsFree == ASSUME TypeOK, Spawned, StartsFree, Next PROVE StartsFree'
<1> USE RuntimeAssumption, NoneIsNoPid DEF TypeOK, Spawned, StartsFree
<1>1. ASSUME NEW c \in Calls, StartCheck(c) PROVE StartsFree'
  BY <1>1 DEF StartCheck, Await, Enter, Running, panelVars, osVars,
     timerVars
<1>2. ASSUME NEW c \in Calls, StartCleanup(c) PROVE StartsFree'
  BY <1>2 DEF StartCleanup, Await, panelVars, timerVars
<1>3. ASSUME NEW c \in Calls, Spawn(c) PROVE StartsFree'
  BY <1>3 DEF Spawn, Return, Ready, panelVars, timerVars, Await
<1>4. ASSUME NEW c \in Calls, SpawnThrows(c) PROVE StartsFree'
  BY <1>4 DEF SpawnThrows, Return, Ready, panelVars, osVars, timerVars,
     Await
<1>5. ASSUME NEW c \in Calls, StopSend(c) PROVE StartsFree'
  BY <1>5 DEF StopSend, Await, Enter, Closed, panelVars, osVars, timerVars
<1>6. ASSUME NEW c \in Calls, QuitDelivered(c) PROVE StartsFree'
  BY <1>6 DEF QuitDelivered, panelVars, callVars, timerVars
<1>7. ASSUME NEW c \in Calls, StopOk(c) PROVE StartsFree'
  BY <1>7 DEF StopOk, StopContinues, Return, Closed, panelVars, osVars,
     Await
<1>8. ASSUME NEW c \in Calls, StopFail(c) PROVE StartsFree'
  BY <1>8 DEF StopFail, Return, panelVars, osVars, timerVars, Await
<1>9. ASSUME NEW c \in Calls, Kill(c) PROVE StartsFree'
  BY <1>9 DEF Kill, Await, Enter, Running, panelVars, timerVars
<1>10. ASSUME NEW c \in Calls, KillReturns(c) PROVE StartsFree'
  BY <1>10 DEF KillReturns, Return, DoomByPort, panelVars, timerVars, Await
<1>11. ASSUME NEW p \in Pids, WatchdogGone(p) PROVE StartsFree'
  BY <1>11 DEF WatchdogGone, Running, panelVars, osVars, callVars
<1>12. ASSUME NEW p \in Pids, WatchdogKills(p) PROVE StartsFree'
  BY <1>12 DEF WatchdogKills, FinalizeBegins, Running, panelVars, callVars
<1>13. ASSUME NEW p \in Pids, FinalizeEnds(p) PROVE StartsFree'
  BY <1>13 DEF FinalizeEnds, DoomByPort, panelVars, callVars
<1>14. ASSUME NEW p \in Pids, KillTimer(p) PROVE StartsFree'
  BY <1>14 DEF KillTimer, FinalizeBegins, Running, panelVars, osVars,
     callVars
<1>15. ASSUME NEW p \in Pids, Bind(p) PROVE StartsFree'
  BY <1>15 DEF Bind, panelVars, callVars, timerVars
<1>16. ASSUME NEW p \in Pids, Hosting(p) PROVE StartsFree'
  BY <1>16 DEF Hosting, panelVars, callVars, timerVars
<1>17. ASSUME NEW p \in Pids, ShutdownMarker(p) PROVE StartsFree'
  BY <1>17 DEF ShutdownMarker, Alive, panelVars, osVars, callVars
<1>18. ASSUME NEW p \in Pids, NEW how \in Exits, Exit(p, how) PROVE StartsFree'
  BY <1>18 DEF Exit, Alive, panelVars, callVars, timerVars
<1>19. ASSUME NEW p \in Pids, CloseHandler(p) PROVE StartsFree'
  BY <1>19 DEF CloseHandler, panelVars
<1>20. ASSUME NEW p \in Pids, ShutdownQuits(p) PROVE StartsFree'
  BY <1>20 DEF ShutdownQuits, Alive, panelVars, callVars, timerVars
<1>21. ASSUME ShutdownBegins PROVE StartsFree'
  BY <1>21 DEF ShutdownBegins, Running, osVars, callVars, timerVars
<1>22. ASSUME ShutdownIdle PROVE StartsFree'
  BY <1>22 DEF ShutdownIdle, Running, PanelGone, Alive
<1>23. ASSUME ShutdownDone PROVE StartsFree'
  BY <1>23 DEF ShutdownDone, Running, PanelGone, Alive
<1>24. ASSUME ShutdownForces PROVE StartsFree'
  BY <1>24 DEF ShutdownForces, Running, callVars, timerVars
<1>25. ASSUME ShutdownForced PROVE StartsFree'
  BY <1>25 DEF ShutdownForced, PanelGone, Alive
<1>26. ASSUME PanelCrash PROVE StartsFree'
  BY <1>26 DEF PanelCrash, PanelGone, Alive
<1>27. ASSUME PanelBoots PROVE StartsFree'
  BY <1>27 DEF PanelBoots, osVars, callVars, timerVars
<1> QED
  BY NextCases, <1>1, <1>2, <1>3, <1>4, <1>5, <1>6, <1>7, <1>8, <1>9,
     <1>10, <1>11, <1>12, <1>13, <1>14, <1>15, <1>16, <1>17, <1>18, <1>19,
     <1>20, <1>21, <1>22, <1>23, <1>24, <1>25, <1>26, <1>27

\* Only the end of a process, or a kill, takes a marked process from its
\* watchdog.
LEMMA StepWatched == ASSUME TypeOK, Fresh, Watched, Next PROVE Watched'
<1> USE RuntimeAssumption, NoneIsNoPid DEF TypeOK, Alive
<1>1. ASSUME NEW c \in Calls, StartCheck(c) PROVE Watched'
  BY <1>1 DEF StartCheck, Await, Enter, Running, panelVars, osVars,
     timerVars, Watched
<1>2. ASSUME NEW c \in Calls, StartCleanup(c) PROVE Watched'
  BY <1>2, DoomEffect, SigtermType DEF StartCleanup, Await, panelVars,
     timerVars, Watched
<1>3. ASSUME NEW c \in Calls, Spawn(c) PROVE Watched'
  BY <1>3 DEF Spawn, Return, Ready, panelVars, timerVars, Await, Fresh,
     Watched
<1>4. ASSUME NEW c \in Calls, SpawnThrows(c) PROVE Watched'
  BY <1>4 DEF SpawnThrows, Return, Ready, panelVars, osVars, timerVars,
     Await, Watched
<1>5. ASSUME NEW c \in Calls, StopSend(c) PROVE Watched'
  BY <1>5 DEF StopSend, Await, Enter, Closed, panelVars, osVars, timerVars,
     Watched
<1>6. ASSUME NEW c \in Calls, QuitDelivered(c) PROVE Watched'
  BY <1>6, DoomEffect DEF QuitDelivered, panelVars, callVars, timerVars,
     Watched
<1>7. ASSUME NEW c \in Calls, StopOk(c) PROVE Watched'
  BY <1>7, FlaggedWatched DEF StopOk, StopContinues, Return, Closed,
     panelVars, osVars, Await, Flags, Watched
<1>8. ASSUME NEW c \in Calls, StopFail(c) PROVE Watched'
  BY <1>8 DEF StopFail, Return, panelVars, osVars, timerVars, Await, Watched
<1>9. ASSUME NEW c \in Calls, Kill(c) PROVE Watched'
  BY <1>9, DoomEffect, FlaggedWatched DEF Kill, Await, Enter, Running,
     panelVars, timerVars, Flags
<1>10. ASSUME NEW c \in Calls, KillReturns(c) PROVE Watched'
  BY <1>10, DoomEffect DEF KillReturns, Return, DoomByPort, panelVars,
     timerVars, Await, Watched
<1>11. ASSUME NEW p \in Pids, WatchdogGone(p) PROVE Watched'
  BY <1>11, FlaggedWatched DEF WatchdogGone, Running, panelVars, osVars,
     callVars, Flags
<1>12. ASSUME NEW p \in Pids, WatchdogKills(p) PROVE Watched'
  BY <1>12, DoomEffect, FlaggedWatched DEF WatchdogKills, FinalizeBegins,
     Running, panelVars, callVars, Flags
<1>13. ASSUME NEW p \in Pids, FinalizeEnds(p) PROVE Watched'
  BY <1>13, DoomEffect, FlaggedWatched DEF FinalizeEnds, DoomByPort,
     panelVars, callVars, Flags
<1>14. ASSUME NEW p \in Pids, KillTimer(p) PROVE Watched'
  BY <1>14, DoomEffect, FlaggedWatched DEF KillTimer, FinalizeBegins,
     Running, panelVars, osVars, callVars, Flags
<1>15. ASSUME NEW p \in Pids, Bind(p) PROVE Watched'
  BY <1>15 DEF Bind, panelVars, callVars, timerVars, Watched
<1>16. ASSUME NEW p \in Pids, Hosting(p) PROVE Watched'
  <2>1. CASE p \in orphans
    BY <1>16, <2>1 DEF Hosting, Watched, panelVars, callVars, timerVars
  <2>2. CASE p \notin orphans
    BY <1>16, <2>2, FlaggedWatched DEF Hosting, panelVars, callVars, timerVars, Flags
  <2> QED
    BY <2>1, <2>2
<1>17. ASSUME NEW p \in Pids, ShutdownMarker(p) PROVE Watched'
  BY <1>17, FlaggedWatched DEF ShutdownMarker, Alive, panelVars, osVars,
     callVars, Flags
<1>18. ASSUME NEW p \in Pids, NEW how \in Exits, Exit(p, how) PROVE Watched'
  BY <1>18 DEF Exit, Alive, panelVars, callVars, timerVars, Watched
<1>19. ASSUME NEW p \in Pids, CloseHandler(p) PROVE Watched'
  BY <1>19 DEF CloseHandler, panelVars, Watched
<1>20. ASSUME NEW p \in Pids, ShutdownQuits(p) PROVE Watched'
  BY <1>20, DoomEffect, SigtermType DEF ShutdownQuits, Alive, panelVars,
     callVars, timerVars, Watched
<1>21. ASSUME ShutdownBegins PROVE Watched'
  BY <1>21, FlaggedWatched DEF ShutdownBegins, Running, osVars, callVars,
     timerVars, Flags
<1>22. ASSUME ShutdownIdle PROVE Watched'
  BY <1>22 DEF ShutdownIdle, Running, PanelGone, Alive, Watched
<1>23. ASSUME ShutdownDone PROVE Watched'
  BY <1>23 DEF ShutdownDone, Running, PanelGone, Alive, Watched
<1>24. ASSUME ShutdownForces PROVE Watched'
  BY <1>24, DoomEffect, FlaggedWatched DEF ShutdownForces, Running,
     callVars, timerVars, Flags
<1>25. ASSUME ShutdownForced PROVE Watched'
  BY <1>25, DoomEffect DEF ShutdownForced, PanelGone, Alive, Watched
<1>26. ASSUME PanelCrash PROVE Watched'
  BY <1>26 DEF PanelCrash, PanelGone, Alive, Watched
<1>27. ASSUME PanelBoots PROVE Watched'
  BY <1>27 DEF PanelBoots, osVars, callVars, timerVars, Watched
<1> QED
  BY NextCases, <1>1, <1>2, <1>3, <1>4, <1>5, <1>6, <1>7, <1>8, <1>9,
     <1>10, <1>11, <1>12, <1>13, <1>14, <1>15, <1>16, <1>17, <1>18, <1>19,
     <1>20, <1>21, <1>22, <1>23, <1>24, <1>25, <1>26, <1>27

\* A shutdown gives up only on a process it has killed.
LEMMA StepSnapReaped == ASSUME TypeOK, Spawned, SnapReaped, Next PROVE SnapReaped'
<1> USE RuntimeAssumption, NoneIsNoPid DEF TypeOK, SnapReaped, Alive
<1>1. ASSUME NEW c \in Calls, StartCheck(c) PROVE SnapReaped'
  BY <1>1 DEF StartCheck, Await, Enter, Running, panelVars, osVars,
     timerVars
<1>2. ASSUME NEW c \in Calls, StartCleanup(c) PROVE SnapReaped'
  BY <1>2, DoomEffect, SigtermType DEF StartCleanup, Await, panelVars,
     timerVars
<1>3. ASSUME NEW c \in Calls, Spawn(c) PROVE SnapReaped'
  BY <1>3 DEF Spawn, Return, Ready, panelVars, timerVars, Await, Spawned
<1>4. ASSUME NEW c \in Calls, SpawnThrows(c) PROVE SnapReaped'
  BY <1>4 DEF SpawnThrows, Return, Ready, panelVars, osVars, timerVars,
     Await
<1>5. ASSUME NEW c \in Calls, StopSend(c) PROVE SnapReaped'
  BY <1>5 DEF StopSend, Await, Enter, Closed, panelVars, osVars, timerVars
<1>6. ASSUME NEW c \in Calls, QuitDelivered(c) PROVE SnapReaped'
  BY <1>6, DoomEffect DEF QuitDelivered, panelVars, callVars, timerVars
<1>7. ASSUME NEW c \in Calls, StopOk(c) PROVE SnapReaped'
  BY <1>7 DEF StopOk, StopContinues, Return, Closed, panelVars, osVars,
     Await
<1>8. ASSUME NEW c \in Calls, StopFail(c) PROVE SnapReaped'
  BY <1>8 DEF StopFail, Return, panelVars, osVars, timerVars, Await
<1>9. ASSUME NEW c \in Calls, Kill(c) PROVE SnapReaped'
  BY <1>9, DoomEffect DEF Kill, Await, Enter, Running, panelVars, timerVars
<1>10. ASSUME NEW c \in Calls, KillReturns(c) PROVE SnapReaped'
  BY <1>10, DoomEffect DEF KillReturns, Return, DoomByPort, panelVars,
     timerVars, Await
<1>11. ASSUME NEW p \in Pids, WatchdogGone(p) PROVE SnapReaped'
  BY <1>11 DEF WatchdogGone, Running, panelVars, osVars, callVars
<1>12. ASSUME NEW p \in Pids, WatchdogKills(p) PROVE SnapReaped'
  BY <1>12, DoomEffect DEF WatchdogKills, FinalizeBegins, Running,
     panelVars, callVars
<1>13. ASSUME NEW p \in Pids, FinalizeEnds(p) PROVE SnapReaped'
  BY <1>13, DoomEffect DEF FinalizeEnds, DoomByPort, panelVars, callVars
<1>14. ASSUME NEW p \in Pids, KillTimer(p) PROVE SnapReaped'
  BY <1>14, DoomEffect DEF KillTimer, FinalizeBegins, Running, panelVars,
     osVars, callVars
<1>15. ASSUME NEW p \in Pids, Bind(p) PROVE SnapReaped'
  BY <1>15 DEF Bind, panelVars, callVars, timerVars
<1>16. ASSUME NEW p \in Pids, Hosting(p) PROVE SnapReaped'
  BY <1>16 DEF Hosting, panelVars, callVars, timerVars
<1>17. ASSUME NEW p \in Pids, ShutdownMarker(p) PROVE SnapReaped'
  BY <1>17 DEF ShutdownMarker, Alive, panelVars, osVars, callVars
<1>18. ASSUME NEW p \in Pids, NEW how \in Exits, Exit(p, how) PROVE SnapReaped'
  BY <1>18 DEF Exit, Alive, panelVars, callVars, timerVars
<1>19. ASSUME NEW p \in Pids, CloseHandler(p) PROVE SnapReaped'
  BY <1>19 DEF CloseHandler, panelVars
<1>20. ASSUME NEW p \in Pids, ShutdownQuits(p) PROVE SnapReaped'
  BY <1>20, DoomEffect, SigtermType DEF ShutdownQuits, Alive, panelVars,
     callVars, timerVars
<1>21. ASSUME ShutdownBegins PROVE SnapReaped'
  BY <1>21 DEF ShutdownBegins, Running, osVars, callVars, timerVars
<1>22. ASSUME ShutdownIdle PROVE SnapReaped'
  BY <1>22 DEF ShutdownIdle, Running, PanelGone, Alive
<1>23. ASSUME ShutdownDone PROVE SnapReaped'
  BY <1>23 DEF ShutdownDone, Running, PanelGone, Alive
<1>24. ASSUME ShutdownForces PROVE SnapReaped'
  BY <1>24, DoomEffect DEF ShutdownForces, Running, callVars, timerVars
<1>25. ASSUME ShutdownForced PROVE SnapReaped'
  BY <1>25, DoomEffect DEF ShutdownForced, PanelGone, Alive
<1>26. ASSUME PanelCrash PROVE SnapReaped'
  BY <1>26 DEF PanelCrash, PanelGone, Alive
<1>27. ASSUME PanelBoots PROVE SnapReaped'
  BY <1>27 DEF PanelBoots, osVars, callVars, timerVars
<1> QED
  BY NextCases, <1>1, <1>2, <1>3, <1>4, <1>5, <1>6, <1>7, <1>8, <1>9,
     <1>10, <1>11, <1>12, <1>13, <1>14, <1>15, <1>16, <1>17, <1>18, <1>19,
     <1>20, <1>21, <1>22, <1>23, <1>24, <1>25, <1>26, <1>27

\* A panel that boots with nothing running satisfies the invariant.
LEMMA InitIInv == Init => IInv
<1> SUFFICES ASSUME Init PROVE IInv
  OBVIOUS
<1> USE RuntimeAssumption, NoneIsNoPid DEF Init
<1>1. TypeOK
  <2>1. win32 \in BOOLEAN
    BY Zenon
  <2>2. boots \in 0..MaxBoots
    OBVIOUS
  <2> QED BY <2>1, <2>2 DEF TypeOK, Flags
<1>2. Spawned /\ Fresh
  BY DEF Spawned, Fresh
<1>3. OnlyTargetsTouched
  BY DEF OnlyTargetsTouched
<1>4. QuitsTargets /\ StartsFree
  BY DEF QuitsTargets, StartsFree
<1>5. Watched /\ SnapReaped
  BY DEF Watched, SnapReaped
<1> QED BY <1>1, <1>2, <1>3, <1>4, <1>5 DEF IInv

\* Steps that leave every variable alone leave the invariant alone.
LEMMA StutterIInv == ASSUME IInv, UNCHANGED vars PROVE IInv'
<1> USE DEF vars, panelVars, osVars, callVars, timerVars
<1>1. TypeOK'
  BY DEF IInv, TypeOK
<1>2. Spawned' /\ Fresh' /\ StartsFree'
  BY DEF IInv, Spawned, Fresh, StartsFree
<1>3. OnlyTargetsTouched' /\ QuitsTargets'
  BY DEF IInv, OnlyTargetsTouched, QuitsTargets, Closed
<1>4. Watched' /\ SnapReaped'
  BY DEF IInv, Watched, SnapReaped, Alive
<1> QED BY <1>1, <1>2, <1>3, <1>4 DEF IInv

\* A start() that replaces a runtime holds one whose process has ended, so a
\* running process it replaces was spawned after it looked.
LEMMA StepReplaces ==
    ASSUME IInv, Next, cur' \notin {cur, None}, Running(cur)
    PROVE  \E c \in Calls : /\ pc[c] \in {"firewall", "settle"}
                            /\ pc'[c] = "idle" /\ rt[c] # cur
<1> USE DEF IInv, TypeOK
<1>1. \E c \in Calls : Spawn(c)
  <2>1. ASSUME NEW c \in Calls, StartCheck(c) PROVE FALSE
    BY <2>1 DEF StartCheck, Await, Enter, Running, panelVars, osVars,
       timerVars
  <2>2. ASSUME NEW c \in Calls, StartCleanup(c) PROVE FALSE
    BY <2>2 DEF StartCleanup, Await, panelVars, timerVars
  <2>3. ASSUME NEW c \in Calls, SpawnThrows(c) PROVE FALSE
    BY <2>3 DEF SpawnThrows, Return, Ready, panelVars, osVars, timerVars,
       Await
  <2>4. ASSUME NEW c \in Calls, StopSend(c) PROVE FALSE
    BY <2>4 DEF StopSend, Await, Enter, Closed, panelVars, osVars, timerVars
  <2>5. ASSUME NEW c \in Calls, QuitDelivered(c) PROVE FALSE
    BY <2>5 DEF QuitDelivered, panelVars, callVars, timerVars
  <2>6. ASSUME NEW c \in Calls, StopOk(c) PROVE FALSE
    BY <2>6 DEF StopOk, StopContinues, Return, Closed, panelVars, osVars,
       Await
  <2>7. ASSUME NEW c \in Calls, StopFail(c) PROVE FALSE
    BY <2>7 DEF StopFail, Return, panelVars, osVars, timerVars, Await
  <2>8. ASSUME NEW c \in Calls, Kill(c) PROVE FALSE
    BY <2>8 DEF Kill, Await, Enter, Running, panelVars, timerVars
  <2>9. ASSUME NEW c \in Calls, KillReturns(c) PROVE FALSE
    BY <2>9 DEF KillReturns, Return, DoomByPort, panelVars, timerVars, Await
  <2>10. ASSUME NEW p \in Pids, WatchdogGone(p) PROVE FALSE
    BY <2>10 DEF WatchdogGone, Running, panelVars, osVars, callVars
  <2>11. ASSUME NEW p \in Pids, WatchdogKills(p) PROVE FALSE
    BY <2>11 DEF WatchdogKills, FinalizeBegins, Running, panelVars, callVars
  <2>12. ASSUME NEW p \in Pids, FinalizeEnds(p) PROVE FALSE
    BY <2>12 DEF FinalizeEnds, DoomByPort, panelVars, callVars
  <2>13. ASSUME NEW p \in Pids, KillTimer(p) PROVE FALSE
    BY <2>13 DEF KillTimer, FinalizeBegins, Running, panelVars, osVars,
       callVars
  <2>14. ASSUME NEW p \in Pids, Bind(p) PROVE FALSE
    BY <2>14 DEF Bind, panelVars, callVars, timerVars
  <2>15. ASSUME NEW p \in Pids, Hosting(p) PROVE FALSE
    BY <2>15 DEF Hosting, panelVars, callVars, timerVars
  <2>16. ASSUME NEW p \in Pids, ShutdownMarker(p) PROVE FALSE
    BY <2>16 DEF ShutdownMarker, Alive, panelVars, osVars, callVars
  <2>17. ASSUME NEW p \in Pids, NEW how \in Exits, Exit(p, how) PROVE FALSE
    BY <2>17 DEF Exit, Alive, panelVars, callVars, timerVars
  <2>18. ASSUME NEW p \in Pids, CloseHandler(p) PROVE FALSE
    BY <2>18 DEF CloseHandler, panelVars
  <2>19. ASSUME NEW p \in Pids, ShutdownQuits(p) PROVE FALSE
    BY <2>19 DEF ShutdownQuits, Alive, panelVars, callVars, timerVars
  <2>20. ASSUME ShutdownBegins PROVE FALSE
    BY <2>20 DEF ShutdownBegins, Running, osVars, callVars, timerVars
  <2>21. ASSUME ShutdownIdle PROVE FALSE
    BY <2>21 DEF ShutdownIdle, Running, PanelGone, Alive
  <2>22. ASSUME ShutdownDone PROVE FALSE
    BY <2>22 DEF ShutdownDone, Running, PanelGone, Alive
  <2>23. ASSUME ShutdownForces PROVE FALSE
    BY <2>23 DEF ShutdownForces, Running, callVars, timerVars
  <2>24. ASSUME ShutdownForced PROVE FALSE
    BY <2>24 DEF ShutdownForced, PanelGone, Alive
  <2>25. ASSUME PanelCrash PROVE FALSE
    BY <2>25 DEF PanelCrash, PanelGone, Alive
  <2>26. ASSUME PanelBoots PROVE FALSE
    BY <2>26 DEF PanelBoots, osVars, callVars, timerVars
  <2> QED
    BY NextCases, <2>1, <2>2, <2>3, <2>4, <2>5, <2>6, <2>7, <2>8, <2>9,
       <2>10, <2>11, <2>12, <2>13, <2>14, <2>15, <2>16, <2>17, <2>18,
       <2>19, <2>20, <2>21, <2>22, <2>23, <2>24, <2>25, <2>26
<1>2. PICK c \in Calls : Spawn(c)
  BY <1>1
<1>3. pc[c] \in {"firewall", "settle"} /\ pc'[c] = "idle"
  BY <1>2 DEF Spawn, Ready, Return, Await
<1>4. rt[c] # cur
  BY <1>3 DEF StartsFree, Running
<1> QED BY <1>3, <1>4

\* For every number of processes and calls, every step of the runtime keeps
\* the inductive invariant.
THEOREM Invariance == Spec => []IInv
<1>1. ASSUME IInv, [Next]_vars PROVE IInv'
  <2>1. CASE Next
    BY <1>1, <2>1, StepTypeOK, StepSpawned, StepFresh, StepTouched,
       StepQuitsTargets, StepStartsFree, StepWatched, StepSnapReaped DEF IInv
  <2>2. CASE UNCHANGED vars
    BY <1>1, <2>2, StutterIInv
  <2> QED BY <1>1, <2>1, <2>2
<1> QED BY InitIInv, <1>1, PTL DEF Spec

\* The state of RuntimeService is well typed, and on Linux no watchdog loop,
\* kill timer or forced end is ever under way.
THEOREM TypeCorrect == Spec => []TypeOK
<1>1. IInv => TypeOK
  BY DEF IInv
<1> QED BY Invariance, <1>1, PTL

\* However start, stop, kill, restarts of the panel and exits interleave, only
\* a process somebody asked to stop is marked, watched or force-killed.
THEOREM TouchesTargetsOnly == Spec => []OnlyTargetsTouched
<1>1. IInv => OnlyTargetsTouched
  BY DEF IInv
<1> QED BY Invariance, <1>1, PTL

\* On Windows a stopping server always has a watchdog or has been killed.
THEOREM StoppingWatched == Spec => []StoppingIsWatched
<1>1. ASSUME IInv PROVE StoppingIsWatched
  <2> SUFFICES ASSUME NEW p \in Pids, win32, panel = "up",
                      "stopping" \in flags[p], Alive(p)
               PROVE  p \in loops \/ doomed[p] = "kill"
    BY DEF StoppingIsWatched
  <2>1. flags[p] \cap {"stopping", "stopWatchdogActive"} # {}
    OBVIOUS
  <2> QED BY <1>1, <2>1 DEF IInv, Watched
<1> QED BY Invariance, <1>1, PTL

\* A shutdown that has come to its end leaves nothing of its snapshot alive
\* that has not been sent a kill.
THEOREM ShutdownLeavesNone == Spec => []ShutdownReaps
<1>1. ASSUME IInv PROVE ShutdownReaps
  BY <1>1 DEF IInv, SnapReaped, ShutdownReaps
<1> QED BY Invariance, <1>1, PTL

\* start() replaces a running process only in a race of two calls of start().
THEOREM ReplacesRaced == Spec => ReplacesOnlyRaced
<1>1. ASSUME IInv, [Next]_vars
      PROVE  [ cur' \notin {cur, None} /\ Running(cur)
                 => \E c \in Calls : /\ pc[c] \in {"firewall", "settle"}
                                     /\ pc'[c] = "idle" /\ rt[c] # cur ]_vars
  BY <1>1, StepReplaces
<1> QED BY Invariance, <1>1, PTL DEF Spec, ReplacesOnlyRaced
=============================================================================
