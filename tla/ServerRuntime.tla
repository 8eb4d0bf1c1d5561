---------------------------- MODULE ServerRuntime ----------------------------
(***************************************************************************)
(* The life of one Factorio instance: RuntimeService's start, stop, kill,  *)
(* Windows stop watchdog, close handler and panel shutdown.  The calls are *)
(* asynchronous: the runtime a call read before an await is kept in rt,    *)
(* and every await is a point where other calls, process events and timers *)
(* run.  ServerOpsService's restart is calls of these, one after another.  *)
(*                                                                         *)
(* A process and the InstanceRuntime record made for it share an identity. *)
(* The Factorio process, the operating system and the crash of the panel   *)
(* itself are the environment.                                             *)
(***************************************************************************)
EXTENDS Naturals

CONSTANTS
    MaxPids,    \* bound on the processes spawned
    Calls,      \* slots for concurrent calls
    Exits,      \* the ways a process ends that are told apart
    MaxBoots    \* bound on the restarts of the panel

ASSUME RuntimeAssumption ==
    /\ MaxPids \in Nat \ {0} /\ MaxBoots \in Nat
    /\ Exits \subseteq {"exitZero", "exitError", "exitSignal"}

Pids == 1..MaxPids
None == 0

VARIABLES
    win32,      \* process.platform === 'win32'
    panel,      \* "up", or how far the shutdown of the panel has come
    boots,
    snap,       \* running, in onModuleDestroy
    orphans,    \* processes an earlier life of the panel left alive
    cur,        \* runtimes.get(instanceId)
    flags,      \* the boolean fields of each runtime that are set
    life,       \* each process; an exit whose close event is due; "gone" after
    bound,      \* the process listening on the instance's ports
    doomed,     \* the strongest request to end it a live process has received
    pc,         \* where each call is
    rt,         \* the runtime each call read before its await
    loops,      \* runtimes a stop watchdog loop polls
    armed,      \* runtimes whose shutdown kill timer is armed
    finalizing, \* runtimes finalizeShutdownKill awaits the kill of
    targets     \* history: processes current when a stop or kill was asked,
                \* until they are gone

panelVars == <<win32, panel, boots, snap, orphans>>
osVars    == <<life, bound, doomed>>
callVars  == <<pc, rt>>
timerVars == <<loops, armed, finalizing>>
vars == <<panelVars, cur, flags, osVars, callVars, timerVars, targets>>

\* inGame is what the status display reads, and no handler here; the kill timer
\* is armed by the first marker line only, which shutdownKillScheduled repeats.
Flags == {"stopping", "wasEverInGame", "killRequested", "stopWatchdogActive",
          "sawShutdownMarker"}

TypeOK ==
    /\ win32 \in BOOLEAN
    /\ panel \in {"up", "quitting", "forcing", "down"}
    /\ boots \in 0..MaxBoots
    /\ snap \subseteq Pids /\ orphans \subseteq Pids /\ targets \subseteq Pids
    /\ cur \in Pids \cup {None} /\ bound \in Pids \cup {None}
    /\ flags \in [Pids -> SUBSET Flags]
    /\ life \in [Pids -> {"unused", "loading", "hosting", "gone"} \cup Exits]
    /\ doomed \in [Pids -> {"no", "asked", "kill"}]
    /\ pc \in [Calls -> {"idle", "firewall", "settle", "quit", "killing"}]
    /\ rt \in [Calls -> Pids \cup {None}]
    /\ loops \subseteq Pids /\ armed \subseteq Pids /\ finalizing \subseteq Pids
    /\ ~win32 => loops = {} /\ armed = {} /\ finalizing = {}

Init ==
    /\ win32 \in BOOLEAN
    /\ panel = "up" /\ boots = 0 /\ snap = {} /\ orphans = {} /\ targets = {}
    /\ cur = None /\ bound = None
    /\ flags = [p \in Pids |-> {}]
    /\ life = [p \in Pids |-> "unused"]
    /\ doomed = [p \in Pids |-> "no"]
    /\ pc = [c \in Calls |-> "idle"]
    /\ rt = [c \in Calls |-> None]
    /\ loops = {} /\ armed = {} /\ finalizing = {}

-----------------------------------------------------------------------------
Alive(p) == life[p] \in {"loading", "hosting"}

\* rt.proc && rt.proc.exitCode === null.  A process ended by a signal has no
\* exit code, so it passes until its close handler has run.
Running(p) == p # None /\ life[p] \in {"loading", "hosting", "exitSignal"}

\* The fields of p's runtime after some are set and others cleared.  Once the
\* close handler has run, isRunning is false whatever they are and nothing reads
\* them: they stay empty, and the loop or timer that finds them so has ended.
Closed(p) == p = None \/ life[p] = "gone"

Flagged(p, set, clear) ==
    IF Closed(p) THEN flags ELSE [flags EXCEPT ![p] = (@ \cup set) \ clear]

\* A request to end processes, if alive; nothing undoes a kill.
Doom(ps, how) ==
    doomed' = [p \in Pids |-> IF p \in ps /\ Alive(p) /\ doomed[p] # "kill"
                              THEN how ELSE doomed[p]]

\* What SIGTERM, or taskkill in its place, does to a process.
Sigterm == IF win32 THEN "kill" ELSE "asked"

\* forceKillProc's second half: whoever else listens on the ports is killed.
DoomByPort(p) == Doom({bound} \ {p}, "kill")

\* A call goes on to its next await, remembering the runtime it read, or
\* returns.
Await(c, label, p) ==
    /\ pc' = [pc EXCEPT ![c] = label]
    /\ rt' = [rt EXCEPT ![c] = p]

Return(c) == Await(c, "idle", None)

Enter(c) == panel # "down" /\ pc[c] = "idle"

-----------------------------------------------------------------------------
(* start()                                                                 *)

\* Mutant: no check that the instance is running.
StartCheck_NoBusyCheck(c) ==
    /\ Enter(c)
    /\ Await(c, "firewall", cur)
    /\ UNCHANGED <<panelVars, cur, flags, osVars, timerVars, targets>>

\* Up to the first await; already_busy and the errors before it change nothing.
StartCheck(c) ==
    /\ Enter(c)
    /\ ~Running(cur)
    /\ Await(c, "firewall", cur)
    /\ UNCHANGED <<panelVars, cur, flags, osVars, timerVars, targets>>

\* cleanupOrphanOnPorts finds a listener, ends it and lets 600 ms pass.
StartCleanup(c) ==
    /\ pc[c] = "firewall" /\ bound # None
    /\ Doom({bound}, Sigterm)
    /\ Await(c, "settle", rt[c])
    /\ UNCHANGED <<panelVars, cur, flags, life, bound, timerVars, targets>>

Ready(c) == pc[c] = "settle" \/ (pc[c] = "firewall" /\ bound = None)

\* spawn and everything after it, in one turn: a fresh runtime replaces
\* whatever the map holds.
Spawn(c) ==
    /\ Ready(c)
    /\ \E p \in Pids :
         /\ life[p] = "unused" /\ \A q \in Pids : q < p => life[q] # "unused"
         /\ life' = [life EXCEPT ![p] = "loading"]
         /\ cur' = p
    /\ Return(c)
    /\ UNCHANGED <<panelVars, flags, bound, doomed, timerVars, targets>>

\* spawn throws.
SpawnThrows(c) ==
    /\ Ready(c)
    /\ Return(c)
    /\ UNCHANGED <<panelVars, cur, flags, osVars, timerVars, targets>>

-----------------------------------------------------------------------------
(* stop()                                                                  *)

\* Up to the await of rcon.run('/quit'): the runtime is read here, once.
\* Without a runtime the configured password is used.
StopSend(c) ==
    /\ Enter(c)
    /\ Await(c, "quit", cur)
    /\ targets' = targets \cup {p \in {cur} : ~Closed(p)}
    /\ UNCHANGED <<panelVars, cur, flags, osVars, timerVars>>

\* The packet reaches whichever process listens on the RCON port by now.
QuitDelivered(c) ==
    /\ pc[c] = "quit" /\ bound # None
    /\ doomed[bound] = "no"
    /\ Doom({bound}, "asked")
    /\ UNCHANGED <<panelVars, cur, flags, life, bound, callVars, timerVars, targets>>

\* What follows the await marks the runtime p and starts its watchdog, unless
\* one is active.
StopContinues(c, p) ==
    /\ pc[c] = "quit"
    /\ LET watched == /\ win32 /\ ~Closed(p)
                      /\ "stopWatchdogActive" \notin flags[p] IN
       /\ flags' = Flagged(p, {"stopping"} \cup
                              (IF watched THEN {"stopWatchdogActive"} ELSE {}), {})
       /\ loops' = IF watched THEN loops \cup {p} ELSE loops
    /\ Return(c)
    /\ UNCHANGED <<panelVars, cur, osVars, armed, finalizing, targets>>

\* Mutant: the runtime is looked up again after the await.
StopOk_Rereads(c) == StopContinues(c, cur)

\* Mutant: the watchdog is not started.
StopOk_NoWatchdog(c) ==
    /\ pc[c] = "quit"
    /\ flags' = Flagged(rt[c], {"stopping"}, {})
    /\ Return(c)
    /\ UNCHANGED <<panelVars, cur, osVars, timerVars, targets>>

\* rcon.run resolves: an answer, or its 25 s timer, which counts as success
\* for a /quit.  The runtime read before the await is marked.
StopOk(c) == StopContinues(c, rt[c])

\* rcon.run rejects: refused, dropped or closed connection, wrong password.
StopFail(c) ==
    /\ pc[c] = "quit"
    /\ Return(c)
    /\ UNCHANGED <<panelVars, cur, flags, osVars, timerVars, targets>>

-----------------------------------------------------------------------------
(* kill()                                                                  *)

\* Up to its first await, on the runtime current at the call.
Kill(c) ==
    /\ Enter(c) /\ Running(cur)
    /\ flags' = Flagged(cur, {"killRequested"}, {"stopping", "stopWatchdogActive"})
    /\ Doom({cur}, "kill")
    /\ targets' = targets \cup {cur}
    /\ Await(c, "killing", cur)
    /\ UNCHANGED <<panelVars, cur, life, bound, timerVars>>

\* The await of forceKillProc in kill() returns.
KillReturns(c) ==
    /\ pc[c] = "killing"
    /\ DoomByPort(rt[c])
    /\ Return(c)
    /\ UNCHANGED <<panelVars, cur, flags, life, bound, timerVars, targets>>

-----------------------------------------------------------------------------
(* The Windows stop watchdog and the kill timer.                           *)

\* The loop finds the process gone.
WatchdogGone(p) ==
    /\ p \in loops /\ ~Running(p)
    /\ flags' = Flagged(p, {}, {"stopping", "stopWatchdogActive"})
    /\ loops' = loops \ {p}
    /\ UNCHANGED <<panelVars, cur, osVars, callVars, armed, finalizing, targets>>

\* finalizeShutdownKill up to its await, the process still running.
FinalizeBegins(p) ==
    /\ Running(p)
    /\ flags' = Flagged(p, {"killRequested"}, {})
    /\ Doom({p}, "kill")
    /\ finalizing' = finalizing \cup {p}
    /\ UNCHANGED <<panelVars, cur, life, bound, callVars, targets>>

\* Mutant: without the shutdown marker the loop waits for ever.
WatchdogKills_MarkerOnly(p) ==
    /\ p \in loops
    /\ "sawShutdownMarker" \in flags[p]
    /\ FinalizeBegins(p)
    /\ loops' = loops \ {p}
    /\ UNCHANGED armed

\* The loop has waited long enough: the marker and the save line were seen, or
\* the marker 2.5 s ago, or the save line 30 s ago, or 210 s have passed.
WatchdogKills(p) ==
    /\ p \in loops
    /\ FinalizeBegins(p)
    /\ loops' = loops \ {p}
    /\ UNCHANGED armed

\* The timer armed by the shutdown marker fires.
KillTimer(p) ==
    /\ p \in armed
    /\ armed' = armed \ {p}
    /\ IF Running(p)
       THEN FinalizeBegins(p) /\ UNCHANGED loops
       ELSE /\ flags' = Flagged(p, {}, {"stopping", "stopWatchdogActive"})
            /\ UNCHANGED <<panelVars, cur, osVars, callVars, loops, finalizing,
                           targets>>

\* The await of forceKillProc in finalizeShutdownKill returns.
FinalizeEnds(p) ==
    /\ p \in finalizing
    /\ finalizing' = finalizing \ {p}
    /\ DoomByPort(p)
    /\ flags' = Flagged(p, {}, {"stopping", "stopWatchdogActive"})
    /\ UNCHANGED <<panelVars, cur, life, bound, callVars, loops, armed, targets>>

-----------------------------------------------------------------------------
(* The game server: its ports, its log lines as the panel reads them, and  *)
(* its end.  The panel no longer reads the output of an orphan.            *)

Bind(p) ==
    /\ life[p] = "loading" /\ bound = None
    /\ bound' = p
    /\ UNCHANGED <<panelVars, cur, flags, life, doomed, callVars, timerVars, targets>>

\* "changing state from(CreatingGame) to(InGame)"
Hosting(p) ==
    /\ life[p] = "loading" /\ bound = p
    /\ life' = [life EXCEPT ![p] = "hosting"]
    /\ flags' = IF p \in orphans THEN flags
                ELSE Flagged(p, {"wasEverInGame"}, {})
    /\ UNCHANGED <<panelVars, cur, bound, doomed, callVars, timerVars, targets>>

\* Mutant: the kill timer is armed on every platform.
ShutdownMarker_AnyPlatform(p) ==
    /\ Alive(p) /\ p \notin orphans
    /\ doomed[p] = "asked" /\ "sawShutdownMarker" \notin flags[p]
    /\ flags' = Flagged(p, {"sawShutdownMarker"}, {})
    /\ armed' = IF "stopping" \in flags[p] THEN armed \cup {p} ELSE armed
    /\ UNCHANGED <<panelVars, cur, osVars, callVars, loops, finalizing, targets>>

\* "Deleting active scenario": a server told to end is going down; the line
\* arms the kill timer of a runtime that is stopping, once.
ShutdownMarker(p) ==
    /\ Alive(p) /\ p \notin orphans
    /\ doomed[p] = "asked" /\ "sawShutdownMarker" \notin flags[p]
    /\ flags' = Flagged(p, {"sawShutdownMarker"}, {})
    /\ armed' = IF win32 /\ "stopping" \in flags[p] THEN armed \cup {p} ELSE armed
    /\ UNCHANGED <<panelVars, cur, osVars, callVars, loops, finalizing, targets>>

\* The process ends, by itself or not.  Killed, it does not end with 0; on
\* Windows only a process that was killed ends by a signal.
Exit(p, how) ==
    /\ Alive(p)
    /\ doomed[p] = "kill" => how # "exitZero"
    /\ how = "exitSignal" => ~win32 \/ doomed[p] = "kill"
    /\ life' = [life EXCEPT ![p] = IF p \in orphans THEN "gone" ELSE how]
    /\ bound' = IF bound = p THEN None ELSE bound
    /\ UNCHANGED <<panelVars, cur, flags, doomed, callVars, timerVars, targets>>

-----------------------------------------------------------------------------
\* The close handler of the process: it clears the fields, reports how the
\* process ended (stopped, crashed, or failed to start), and closes the RCON
\* connection of the endpoint, which rejects every /quit under way.
CloseHandler(p) ==
    /\ life[p] \in Exits
    /\ life' = [life EXCEPT ![p] = "gone"]
    /\ flags' = [flags EXCEPT ![p] = {}]
    /\ doomed' = [doomed EXCEPT ![p] = "no"]
    /\ LET rejected == {c \in Calls : pc[c] = "quit"} IN
       /\ pc' = [c \in Calls |-> IF c \in rejected THEN "idle" ELSE pc[c]]
       /\ rt' = [c \in Calls |-> IF c \in rejected THEN None ELSE rt[c]]
    /\ targets' = targets \ {p}
    /\ loops' = loops \ {p} /\ armed' = armed \ {p}
    /\ UNCHANGED <<panelVars, cur, bound, finalizing>>

-----------------------------------------------------------------------------
(* onModuleDestroy, and the panel's own end.                               *)

\* The panel's process is gone: its calls and timers with it, and the game
\* servers still alive are orphans.
PanelGone ==
    /\ panel' = "down"
    /\ orphans' = orphans \cup {p \in Pids : Alive(p)}
    /\ life' = [p \in Pids |-> IF life[p] \in Exits THEN "gone" ELSE life[p]]
    /\ cur' = None
    /\ flags' = [p \in Pids |-> {}]
    /\ pc' = [c \in Calls |-> "idle"]
    /\ rt' = [c \in Calls |-> None]
    /\ loops' = {} /\ armed' = {} /\ finalizing' = {} /\ targets' = {}
    /\ UNCHANGED <<win32, boots, bound>>

\* The runtime whose process runs is marked and sent /quit.
ShutdownBegins ==
    /\ panel = "up" /\ Running(cur)
    /\ panel' = "quitting"
    /\ snap' = {cur}
    /\ targets' = targets \cup {cur}
    /\ flags' = Flagged(cur, {"stopping"}, {})
    /\ UNCHANGED <<win32, boots, orphans, cur, osVars, callVars, timerVars>>

ShutdownIdle ==
    /\ panel = "up" /\ ~Running(cur)
    /\ snap' = {}
    /\ PanelGone
    /\ UNCHANGED doomed

\* The /quit reaches the listener, or fails and the process is sent SIGTERM;
\* one that timed out did neither.
ShutdownQuits(p) ==
    /\ panel = "quitting" /\ p \in snap
    /\ \/ bound # None /\ doomed[bound] = "no" /\ Doom({bound}, "asked")
       \/ doomed[p] # "kill" /\ Alive(p) /\ Doom({p}, Sigterm)
    /\ UNCHANGED <<panelVars, cur, flags, life, bound, callVars, timerVars, targets>>

\* Mutant: after 35 s the panel leaves, whoever still runs.
ShutdownDone_Impatient ==
    /\ panel = "quitting"
    /\ PanelGone
    /\ UNCHANGED <<snap, doomed>>

\* Every process of the snapshot has ended within 35 s.
ShutdownDone ==
    /\ panel = "quitting" /\ \A p \in snap : ~Running(p)
    /\ PanelGone
    /\ UNCHANGED <<snap, doomed>>

\* Mutant: the wait has no deadline.
ShutdownForces_NoDeadline == FALSE

\* 35 s have passed: forceKillProc on those still running, up to its await.
ShutdownForces ==
    /\ panel = "quitting"
    /\ \E p \in snap :
         /\ Running(p)
         /\ Doom({p}, "kill")
         /\ flags' = Flagged(p, {"killRequested"}, {})
    /\ panel' = "forcing"
    /\ UNCHANGED <<win32, boots, snap, orphans, cur, life, bound, callVars,
                   timerVars, targets>>

ShutdownForced ==
    /\ panel = "forcing"
    /\ Doom({bound}, "kill")
    /\ PanelGone
    /\ UNCHANGED snap

\* The panel is killed or crashes, at any point of its work.
PanelCrash ==
    /\ panel # "down" /\ boots < MaxBoots
    /\ snap' = {}
    /\ PanelGone
    /\ UNCHANGED doomed

PanelBoots ==
    /\ panel = "down" /\ boots < MaxBoots
    /\ boots' = boots + 1
    /\ panel' = "up" /\ snap' = {}
    /\ UNCHANGED <<win32, orphans, cur, flags, osVars, callVars, timerVars, targets>>

-----------------------------------------------------------------------------
Call(c) ==
    \/ StartCheck(c) \/ StartCleanup(c) \/ Spawn(c) \/ SpawnThrows(c)
    \/ StopSend(c) \/ QuitDelivered(c) \/ StopOk(c) \/ StopFail(c)
    \/ Kill(c) \/ KillReturns(c)

Watchdog(p) ==
    \/ WatchdogGone(p) \/ WatchdogKills(p) \/ FinalizeEnds(p)

Game(p) ==
    \/ Bind(p) \/ Hosting(p) \/ ShutdownMarker(p)
    \/ \E how \in Exits : Exit(p, how)

Shutdown ==
    \/ ShutdownDone \/ ShutdownForces \/ ShutdownForced

Next ==
    \/ \E c \in Calls : Call(c)
    \/ \E p \in Pids : \/ Watchdog(p) \/ KillTimer(p) \/ Game(p)
                       \/ CloseHandler(p) \/ ShutdownQuits(p)
    \/ ShutdownBegins \/ ShutdownIdle \/ Shutdown
    \/ PanelCrash \/ PanelBoots

Spec == Init /\ [][Next]_vars

(***************************************************************************)
(* The watchdog's timers fire, a killed process dies, its close event      *)
(* comes, and a shutdown goes on.  Nothing is assumed of the calls, and a  *)
(* server asked to quit may hang for ever.                                 *)
(***************************************************************************)
FairSpec ==
    /\ Spec
    /\ \A p \in Pids : /\ WF_vars(Watchdog(p))
                       /\ WF_vars(CloseHandler(p))
                       /\ WF_vars(doomed[p] = "kill" /\
                                  \E how \in Exits : Exit(p, how))
    /\ WF_vars(Shutdown)

-----------------------------------------------------------------------------
(* Properties.                                                             *)

\* Only a process somebody asked to stop is marked, watched or force-killed
\* through its own runtime, however the calls and restarts interleave.
OnlyTargetsTouched ==
    \A p \in Pids :
        \/ p \in targets
        \/ /\ p \notin loops \cup armed
           /\ flags[p] \cap {"stopping", "killRequested"} = {}

\* On Windows a server that is stopping while the panel serves is always
\* somebody's to end: a watchdog loop, or a kill already sent.
StoppingIsWatched ==
    \A p \in Pids :
        win32 /\ panel = "up" /\ "stopping" \in flags[p] /\ Alive(p)
            => p \in loops \/ doomed[p] = "kill"

\* start() never replaces a process that runs, save one spawned by another call
\* after this call's busy check.
ReplacesOnlyRaced ==
    [][ cur' \notin {cur, None} /\ Running(cur)
          => \E c \in Calls : /\ pc[c] \in {"firewall", "settle"}
                              /\ pc'[c] = "idle" /\ rt[c] # cur ]_vars

\* A completed shutdown leaves no process of its snapshot running, unless it
\* has been sent the signal that no process survives.
ShutdownReaps ==
    panel = "down" => \A p \in snap : Alive(p) => doomed[p] = "kill"

\* On Windows every stop ends: a hung server is killed in the end.
StopEndsOnWindows ==
    \A p \in Pids :
        (win32 /\ "stopping" \in flags[p] /\ Running(p))
            ~> (~Running(p) \/ panel = "down")

\* A shutdown of the panel ends, whatever the servers do.
ShutdownEnds == (panel = "quitting") ~> (panel = "down")
=============================================================================
