--------------------------- MODULE RconConnection ---------------------------
(***************************************************************************)
(* The persistent RCON connection to one host:port (RconService): the      *)
(* command queue, the commands in flight, the authentication handshake,    *)
(* and reconnection.  Node delivers the events of a socket one at a time;  *)
(* every action below is one callback, run to its end.                     *)
(*                                                                         *)
(* The handlers of a socket close over the connection object, not over     *)
(* the socket: an event of a socket that is no longer conn.sock still acts *)
(* on the connection.  That is why sockets have identities here.           *)
(***************************************************************************)
EXTENDS FiniteSets, Naturals

CONSTANTS
    Cmds,       \* the calls of run(), one identity for each
    Quits,      \* those of them whose command is /quit
    Passwords,  \* the passwords callers pass
    ServerPw,   \* the password the game server was started with
    Socks,      \* identities of net.Socket objects, reused once closed
    NoSock,     \* conn.sock = null
    NoPw,       \* no AUTH packet outstanding
    MaxDrops    \* bound on connections the peer refuses, closes or garbles

ASSUME RconAssumption ==
    /\ Quits \subseteq Cmds
    /\ ServerPw \in Passwords
    /\ NoSock \notin Socks /\ NoPw \notin Passwords
    /\ MaxDrops \in Nat

VARIABLES
    present,    \* the connections map holds a connection for the endpoint
    password,   \* conn.password
    sock,       \* conn.sock
    authed,     \* conn.authed
    timer,      \* conn.reconnectTimer is armed
    queue,      \* conn.queue
    pending,    \* conn.pending
    stranded,   \* commands left in a connection that shutdown destroyed
    outcome,    \* what the promise of each call has settled to
    sstate,     \* life of each socket; "destroyed": its close event is due
    authOut,    \* the password of the AUTH packet unanswered on each socket
    wire,       \* the socket the packet of a command was written to
    drops

conn == <<present, password, sock, authed, timer, queue, pending, stranded>>
net  == <<sstate, authOut, wire>>
vars == <<conn, outcome, net, drops>>

Outcomes == {"idle", "waiting", "text", "empty", "rcon_timeout",
             "rcon_connection_closed", "rcon_reconnecting", "rcon_auth_failed"}

TypeOK ==
    /\ present \in BOOLEAN /\ authed \in BOOLEAN /\ timer \in BOOLEAN
    /\ password \in Passwords
    /\ sock \in Socks \cup {NoSock}
    /\ queue \subseteq Cmds /\ pending \subseteq Cmds /\ stranded \subseteq Cmds
    /\ outcome \in [Cmds -> Outcomes]
    /\ \A c \in Quits : outcome[c] \notin {"text", "rcon_timeout"}
    /\ sstate \in [Socks -> {"free", "connecting", "open", "destroyed"}]
    /\ authOut \in [Socks -> Passwords \cup {NoPw}]
    /\ wire \in [Cmds -> Socks \cup {NoSock}]
    /\ drops \in 0..MaxDrops

Init ==
    /\ present = FALSE /\ sock = NoSock /\ authed = FALSE /\ timer = FALSE
    /\ password \in Passwords
    /\ queue = {} /\ pending = {} /\ stranded = {}
    /\ outcome = [c \in Cmds |-> "idle"]
    /\ sstate = [s \in Socks |-> "free"]
    /\ authOut = [s \in Socks |-> NoPw]
    /\ wire = [c \in Cmds |-> NoSock]
    /\ drops = 0

-----------------------------------------------------------------------------
(* Helpers the handlers share.                                             *)

Alive(s) == sstate[s] \in {"connecting", "open"}

\* conn.sock && !conn.sock.destroyed: a packet sent now is written somewhere.
Writable == sock # NoSock /\ Alive(sock)

\* sock.destroy(): the close event follows; destroying twice changes nothing.
Destroyed(st, s) ==
    [x \in Socks |-> IF x = s /\ st[x] # "free" THEN "destroyed" ELSE st[x]]

\* Mutant: only the commands in flight are rejected.
FailAllPending_SentOnly(why) ==
    /\ outcome' = [c \in Cmds |-> IF c \in pending THEN why ELSE outcome[c]]
    /\ pending' = {}

\* failAllPending: every command sent or queued is rejected, both lists empty.
FailAllPending(why) ==
    /\ outcome' = [c \in Cmds |->
                     IF c \in queue \cup pending THEN why ELSE outcome[c]]
    /\ pending' = {}

\* connect(): a new socket becomes conn.sock, after the previous is destroyed.
Connect(st, old) ==
    \E s \in Socks :
        /\ sstate[s] = "free"
        /\ sock' = s
        /\ authed' = FALSE
        /\ sstate' = [Destroyed(st, old) EXCEPT ![s] = "connecting"]

\* Commands whose packet is written to conn.sock; sendPacket drops it silently
\* when there is no usable socket.
Sent(cs) == wire' = [c \in Cmds |-> IF c \in cs /\ Writable THEN sock ELSE wire[c]]

-----------------------------------------------------------------------------
(* Calls from the rest of the panel.                                       *)

Issue(c) == outcome[c] = "idle"

\* run(), no connection yet: create it, connect, queue the command.
RunFirst(c, pw) ==
    /\ Issue(c) /\ ~present
    /\ present' = TRUE
    /\ password' = pw
    /\ Connect(sstate, NoSock)
    /\ queue' = {c}
    /\ outcome' = [outcome EXCEPT ![c] = "waiting"]
    /\ UNCHANGED <<timer, pending, stranded, authOut, wire, drops>>

\* Mutant: the reconnect timer is not cleared.
RunReconnect_KeepsTimer(c, pw) ==
    /\ Issue(c) /\ present /\ pw # password
    /\ password' = pw
    /\ timer' = timer
    /\ Connect(Destroyed(sstate, sock), NoSock)
    /\ outcome' = [d \in Cmds |-> IF d = c THEN "waiting"
                                  ELSE IF d \in queue \cup pending
                                  THEN "rcon_reconnecting" ELSE outcome[d]]
    /\ pending' = {}
    /\ queue' = {c}
    /\ UNCHANGED <<present, stranded, authOut, wire, drops>>

\* Mutant: commands in flight are kept for a retry.
RunReconnect_KeepsPending(c, pw) ==
    /\ Issue(c) /\ present /\ pw # password
    /\ password' = pw
    /\ timer' = FALSE
    /\ Connect(Destroyed(sstate, sock), NoSock)
    /\ outcome' = [d \in Cmds |-> IF d = c THEN "waiting"
                                  ELSE IF d \in queue
                                  THEN "rcon_reconnecting" ELSE outcome[d]]
    /\ queue' = {c}
    /\ UNCHANGED <<present, pending, stranded, authOut, wire, drops>>

\* run() with another password: reconnect() fails what was outstanding, drops
\* the socket and opens another; the new command is queued behind it.
RunReconnect(c, pw) ==
    /\ Issue(c) /\ present /\ pw # password
    /\ password' = pw
    /\ timer' = FALSE
    /\ Connect(Destroyed(sstate, sock), NoSock)
    /\ outcome' = [d \in Cmds |-> IF d = c THEN "waiting"
                                  ELSE IF d \in queue \cup pending
                                  THEN "rcon_reconnecting" ELSE outcome[d]]
    /\ pending' = {}
    /\ queue' = {c}
    /\ UNCHANGED <<present, stranded, authOut, wire, drops>>

\* run() on the connection as it is: send at once if authenticated, else queue.
RunEnqueue(c, pw) ==
    /\ Issue(c) /\ present /\ pw = password
    /\ outcome' = [outcome EXCEPT ![c] = "waiting"]
    /\ IF authed /\ Writable
       THEN pending' = pending \cup {c} /\ Sent({c}) /\ UNCHANGED queue
       ELSE queue' = queue \cup {c} /\ UNCHANGED <<pending, wire>>
    /\ UNCHANGED <<present, password, sock, authed, timer, stranded, sstate,
                   authOut, drops>>

\* The handlers of a destroyed connection return early: its sockets can no
\* longer act, and their identities are free again.
Forget ==
    /\ present' = FALSE /\ sock' = NoSock /\ authed' = FALSE /\ timer' = FALSE
    /\ queue' = {} /\ pending' = {}
    /\ sstate' = [s \in Socks |-> "free"]
    /\ authOut' = [s \in Socks |-> NoPw]
    /\ wire' = [c \in Cmds |-> NoSock]
    /\ UNCHANGED <<password, drops>>

\* close(host, port), called when the game server's process has exited.
Close ==
    /\ present
    /\ FailAllPending("rcon_connection_closed")
    /\ Forget
    /\ UNCHANGED stranded

\* onModuleDestroy: the map is cleared, nothing is rejected; the commands keep
\* their timers.
OnModuleDestroy ==
    /\ present
    /\ stranded' = stranded \cup queue \cup pending
    /\ Forget
    /\ UNCHANGED outcome

-----------------------------------------------------------------------------
(* Timers.                                                                 *)

\* Mutant: /quit times out like any other command.
CommandTimeout_QuitFails(c) ==
    /\ outcome[c] = "waiting"
    /\ outcome' = [outcome EXCEPT
                     ![c] = "rcon_timeout"]
    /\ queue' = queue \ {c}
    /\ pending' = pending \ {c}
    /\ stranded' = stranded \ {c}
    /\ UNCHANGED <<present, password, sock, authed, timer, net, drops>>

\* Mutant: the timer is cleared once the command is sent.
CommandTimeout_QueuedOnly(c) ==
    /\ c \in queue
    /\ outcome' = [outcome EXCEPT
                     ![c] = IF c \in Quits THEN "empty" ELSE "rcon_timeout"]
    /\ queue' = queue \ {c}
    /\ pending' = pending \ {c}
    /\ stranded' = stranded \ {c}
    /\ UNCHANGED <<present, password, sock, authed, timer, net, drops>>

\* The timer of one command: /quit counts as done, anything else as an error.
CommandTimeout(c) ==
    /\ outcome[c] = "waiting"
    /\ outcome' = [outcome EXCEPT
                     ![c] = IF c \in Quits THEN "empty" ELSE "rcon_timeout"]
    /\ queue' = queue \ {c}
    /\ pending' = pending \ {c}
    /\ stranded' = stranded \ {c}
    /\ UNCHANGED <<present, password, sock, authed, timer, net, drops>>

ReconnectTimer ==
    /\ timer
    /\ timer' = FALSE
    /\ Connect(sstate, sock)
    /\ UNCHANGED <<present, password, queue, pending, stranded, outcome,
                   authOut, wire, drops>>

-----------------------------------------------------------------------------
(* Socket events.                                                          *)

\* The connect callback of s authenticates on conn.sock, whichever socket that
\* is by now.  Node runs due close events before the I/O of the next turn.
Connected(s) ==
    /\ sstate[s] = "connecting"
    /\ \A x \in Socks : sstate[x] # "destroyed"
    /\ sstate' = [sstate EXCEPT ![s] = "open"]
    /\ authOut' = [x \in Socks |-> IF x = sock /\ Alive(x) THEN password
                                    ELSE authOut[x]]
    /\ UNCHANGED <<conn, outcome, wire, drops>>

\* drain(), while not authenticated: the answer to an AUTH packet sent on s.
AuthAccepted(s) ==
    /\ authOut[s] = ServerPw /\ sstate[s] = "open"
    /\ authOut' = [authOut EXCEPT ![s] = NoPw]
    /\ IF authed
       THEN UNCHANGED <<authed, queue, pending, wire>>
       ELSE /\ authed' = TRUE
            /\ queue' = {}
            /\ pending' = pending \cup queue
            /\ Sent(queue)
    /\ UNCHANGED <<present, password, sock, timer, stranded, outcome, sstate,
                   drops>>

AuthRefused(s) ==
    /\ authOut[s] \notin {ServerPw, NoPw} /\ sstate[s] = "open"
    /\ authOut' = [authOut EXCEPT ![s] = NoPw]
    /\ IF authed
       THEN UNCHANGED <<outcome, queue, pending, sstate>>
       ELSE /\ FailAllPending("rcon_auth_failed")
            /\ queue' = {}
            /\ sstate' = Destroyed(sstate, sock)
    /\ UNCHANGED <<present, password, sock, authed, timer, stranded, wire, drops>>

\* drain(), authenticated: the answer to a command; one that waits no longer
\* is ignored, and so is any answer while the connection is unauthenticated.
Response(c) ==
    /\ wire[c] # NoSock
    /\ sstate[wire[c]] = "open"
    /\ wire' = [wire EXCEPT ![c] = NoSock]
    /\ IF authed /\ c \in pending
       THEN /\ pending' = pending \ {c}
            /\ outcome' = [outcome EXCEPT
                             ![c] = IF c \in Quits THEN "empty" ELSE "text"]
       ELSE UNCHANGED <<pending, outcome>>
    /\ UNCHANGED <<present, password, sock, authed, timer, queue, stranded,
                   sstate, authOut, drops>>

\* The peer refuses, resets or ends s.
PeerDrop(s) ==
    /\ Alive(s) /\ drops < MaxDrops
    /\ drops' = drops + 1
    /\ sstate' = Destroyed(sstate, s)
    /\ UNCHANGED <<conn, outcome, authOut, wire>>

\* drain() meets a malformed packet on s and destroys conn.sock.
BadPacket(s) ==
    /\ sstate[s] = "open" /\ drops < MaxDrops
    /\ drops' = drops + 1
    /\ sstate' = Destroyed(sstate, sock)
    /\ UNCHANGED <<conn, outcome, authOut, wire>>

\* Mutant: the close handler schedules no reconnect.
SocketClose_NoTimer(s) ==
    /\ sstate[s] = "destroyed"
    /\ sstate' = [sstate EXCEPT ![s] = "free"]
    /\ authOut' = [authOut EXCEPT ![s] = NoPw]
    /\ wire' = [c \in Cmds |-> IF wire[c] = s THEN NoSock ELSE wire[c]]
    /\ authed' = FALSE
    /\ sock' = NoSock
    /\ FailAllPending("rcon_connection_closed")
    /\ queue' = {}
    /\ timer' = timer
    /\ UNCHANGED <<present, password, stranded, drops>>

\* The close event of s, conn.sock or not: forget conn.sock, reject everything,
\* arm the reconnect timer.
SocketClose(s) ==
    /\ sstate[s] = "destroyed"
    /\ sstate' = [sstate EXCEPT ![s] = "free"]
    /\ authOut' = [authOut EXCEPT ![s] = NoPw]
    /\ wire' = [c \in Cmds |-> IF wire[c] = s THEN NoSock ELSE wire[c]]
    /\ authed' = FALSE
    /\ sock' = NoSock
    /\ FailAllPending("rcon_connection_closed")
    /\ queue' = {}
    /\ timer' = TRUE
    /\ UNCHANGED <<present, password, stranded, drops>>

-----------------------------------------------------------------------------
Run(c, pw) == RunFirst(c, pw) \/ RunReconnect(c, pw) \/ RunEnqueue(c, pw)

SocketEvent(s) ==
    \/ Connected(s) \/ AuthAccepted(s) \/ AuthRefused(s)
    \/ PeerDrop(s) \/ BadPacket(s) \/ SocketClose(s)

Next ==
    \/ \E c \in Cmds, pw \in Passwords : Run(c, pw)
    \/ Close \/ OnModuleDestroy
    \/ \E c \in Cmds : CommandTimeout(c) \/ Response(c)
    \/ ReconnectTimer
    \/ \E s \in Socks : SocketEvent(s)

Spec == Init /\ [][Next]_vars

(***************************************************************************)
(* Timers expire and due events are delivered; the server answers an AUTH  *)
(* packet.  Nothing is assumed of callers, of replies, or of the peer's    *)
(* closing a socket.                                                       *)
(***************************************************************************)
FairSpec ==
    /\ Spec
    /\ WF_vars(ReconnectTimer)
    /\ \A c \in Cmds : WF_vars(CommandTimeout(c))
    /\ \A s \in Socks : /\ WF_vars(Connected(s))
                        /\ WF_vars(AuthAccepted(s) \/ AuthRefused(s))
                        /\ WF_vars(SocketClose(s))

-----------------------------------------------------------------------------
(* Properties.                                                             *)

\* Every call that has not settled is in exactly one place that will settle
\* it, and nothing settled is left behind: reconnecting, closing, timing out
\* and answering hand a command over without losing or keeping it.
CommandsAccounted ==
    \A c \in Cmds :
        /\ outcome[c] = "waiting" <=> c \in queue \cup pending \cup stranded
        /\ ~(c \in queue /\ c \in pending)
        /\ ~(c \in stranded /\ c \in queue \cup pending)

\* A connection that is kept never gets stuck: without a socket it has the
\* reconnect timer armed, with one it has not, and the socket it holds still
\* has its close event to come.
ReconnectArmed ==
    /\ timer <=> (present /\ sock = NoSock)
    /\ sock # NoSock => present /\ sstate[sock] # "free"

\* No command waits for an answer on a socket the connection has abandoned.
PendingOnCurrentSocket == \A c \in pending : wire[c] \in {NoSock, sock}

\* What run() promises its callers: every call settles, once, with an outcome
\* that fits its command, whatever the connection goes through.
Promised == INSTANCE RconCalls
ImplementsCalls == Promised!Spec

\* A connection that is kept, with the server's password, ends up authenticated
\* for good once the peer has stopped dropping sockets, whatever stale close
\* events the earlier sockets still deliver.
Recovers == <>[](present /\ password = ServerPw) => <>[]authed
=============================================================================
