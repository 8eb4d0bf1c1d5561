------------------------------ MODULE RconCalls ------------------------------
(***************************************************************************)
(* What RconService.run promises its callers, whatever the network does:   *)
(* each call settles once, for good, with an outcome that fits its         *)
(* command.  One event of a connection may settle many calls and issue     *)
(* another.                                                                *)
(***************************************************************************)
CONSTANTS Cmds, Quits

VARIABLE outcome

\* Any call may be told that the connection is of no use.
Dropped == {"rcon_connection_closed", "rcon_reconnecting", "rcon_auth_failed"}

\* A /quit that is answered, or times out, counts as done.
Settled(c) == Dropped \cup IF c \in Quits THEN {"empty"} ELSE {"text", "rcon_timeout"}

Init == outcome = [c \in Cmds |-> "idle"]

Issues(c)  == outcome[c] = "idle" /\ outcome'[c] = "waiting"
Settles(c) == outcome[c] = "waiting" /\ outcome'[c] \in Settled(c)

Next ==
    /\ DOMAIN outcome' = Cmds
    /\ \A c \in Cmds : Issues(c) \/ Settles(c) \/ outcome'[c] = outcome[c]

\* Every call issued settles.
Answers == \A c \in Cmds : (outcome[c] = "waiting") ~> (outcome[c] \in Settled(c))

Spec == Init /\ [][Next]_outcome /\ Answers
=============================================================================
