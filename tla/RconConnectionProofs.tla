------------------------ MODULE RconConnectionProofs ------------------------
(***************************************************************************)
(* Safety of RconConnection for every set of calls, passwords and sockets  *)
(* and every number of dropped connections.  CommandsAccounted and the     *)
(* others are not inductive alone: a handler may run whenever its socket   *)
(* is alive, so the invariant has to say that an absent connection has     *)
(* neither commands nor live sockets.                                      *)
(***************************************************************************)
EXTENDS RconConnection, TLAPS

\* What close() and onModuleDestroy() leave of a connection.
AbsentIsEmpty ==
    ~present => /\ queue = {} /\ pending = {}
                /\ \A s \in Socks : sstate[s] = "free"

\* A command is written to a socket only once it has left the queue.
QueueUnwritten ==
    \A c \in Cmds : outcome[c] = "idle" \/ c \in queue => wire[c] = NoSock

IInv == /\ TypeOK
        /\ CommandsAccounted
        /\ ReconnectArmed
        /\ PendingOnCurrentSocket
        /\ AbsentIsEmpty
        /\ QueueUnwritten

\* One step as a disjunction of its callbacks, with the quantifiers outside.
LEMMA NextCases ==
    ASSUME Next
    PROVE  \/ \E c \in Cmds, pw \in Passwords :
                 RunFirst(c, pw) \/ RunReconnect(c, pw) \/ RunEnqueue(c, pw)
           \/ Close \/ OnModuleDestroy \/ ReconnectTimer
           \/ \E c \in Cmds : CommandTimeout(c) \/ Response(c)
           \/ \E s \in Socks : \/ Connected(s) \/ AuthAccepted(s)
                               \/ AuthRefused(s) \/ PeerDrop(s)
                               \/ BadPacket(s) \/ SocketClose(s)
BY DEF Next, Run, SocketEvent

\* The fresh connection map, before the first run(), satisfies the invariant.
LEMMA InitIInv == Init => IInv
<1> SUFFICES ASSUME Init PROVE IInv
  OBVIOUS
<1> USE RconAssumption DEF Init
<1>1. TypeOK
  <2>1. drops \in 0..MaxDrops
    OBVIOUS
  <2>2. outcome \in [Cmds -> Outcomes] /\ authOut \in [Socks -> Passwords \cup {NoPw}]
    BY DEF Outcomes
  <2>3. present \in BOOLEAN /\ authed \in BOOLEAN /\ timer \in BOOLEAN
    BY Zenon
  <2> QED BY <2>1, <2>2, <2>3 DEF TypeOK
<1>2. CommandsAccounted
  BY DEF CommandsAccounted
<1>3. ReconnectArmed
  BY DEF ReconnectArmed
<1>4. PendingOnCurrentSocket /\ AbsentIsEmpty /\ QueueUnwritten
  BY DEF PendingOnCurrentSocket, AbsentIsEmpty, QueueUnwritten
<1> QED BY <1>1, <1>2, <1>3, <1>4 DEF IInv

\* Marking a socket destroyed keeps the table of sockets well typed, frees no
\* socket and revives none.
LEMMA DestroyedType ==
    ASSUME NEW st \in [Socks -> {"free", "connecting", "open", "destroyed"}],
           NEW x
    PROVE  /\ Destroyed(st, x) \in [Socks -> {"free", "connecting", "open", "destroyed"}]
           /\ \A s \in Socks : Destroyed(st, x)[s] = "free" <=> st[s] = "free"
BY DEF Destroyed

\* Connecting yields a live current socket that was closed before.
LEMMA ConnectType ==
    ASSUME NEW st \in [Socks -> {"free", "connecting", "open", "destroyed"}],
           NEW old, Connect(st, old)
    PROVE  /\ sock' \in Socks /\ sstate[sock'] = "free"
           /\ authed' = FALSE
           /\ sstate' \in [Socks -> {"free", "connecting", "open", "destroyed"}]
           /\ sstate'[sock'] = "connecting"
<1>1. PICK s \in Socks : /\ sstate[s] = "free"
                         /\ sock' = s
                         /\ authed' = FALSE
                         /\ sstate' = [Destroyed(st, old) EXCEPT ![s] = "connecting"]
  BY DEF Connect
<1>2. Destroyed(st, old) \in [Socks -> {"free", "connecting", "open", "destroyed"}]
  BY DestroyedType
<1> QED BY <1>1, <1>2

\* Every callback keeps the types.
LEMMA StepTypeOK == ASSUME IInv, Next PROVE TypeOK'
<1> USE RconAssumption DEF IInv, TypeOK, Outcomes
<1>1. ASSUME NEW c \in Cmds, NEW pw \in Passwords, RunFirst(c, pw)
      PROVE  TypeOK'
  BY <1>1, ConnectType DEF RunFirst, Issue
<1>2. ASSUME NEW c \in Cmds, NEW pw \in Passwords, RunReconnect(c, pw)
      PROVE  TypeOK'
  <2>1. Destroyed(sstate, sock) \in [Socks -> {"free", "connecting", "open", "destroyed"}]
    BY DestroyedType
  <2>2. sock' \in Socks /\ authed' = FALSE
        /\ sstate' \in [Socks -> {"free", "connecting", "open", "destroyed"}]
    BY <1>2, <2>1, ConnectType DEF RunReconnect
  <2> QED BY <1>2, <2>2 DEF RunReconnect, Issue
<1>3. ASSUME NEW c \in Cmds, NEW pw \in Passwords, RunEnqueue(c, pw)
      PROVE  TypeOK'
  BY <1>3 DEF RunEnqueue, Issue, Sent, Writable
<1>4. ASSUME Close PROVE TypeOK'
  BY <1>4 DEF Close, Forget, FailAllPending
<1>5. ASSUME OnModuleDestroy PROVE TypeOK'
  BY <1>5 DEF OnModuleDestroy, Forget
<1>6. ASSUME ReconnectTimer PROVE TypeOK'
  BY <1>6, ConnectType DEF ReconnectTimer
<1>7. ASSUME NEW c \in Cmds, CommandTimeout(c) PROVE TypeOK'
  BY <1>7 DEF CommandTimeout, net
<1>8. ASSUME NEW c \in Cmds, Response(c) PROVE TypeOK'
  BY <1>8 DEF Response
<1>9. ASSUME NEW s \in Socks, Connected(s) PROVE TypeOK'
  BY <1>9 DEF Connected, conn
<1>10. ASSUME NEW s \in Socks, AuthAccepted(s) PROVE TypeOK'
  BY <1>10 DEF AuthAccepted, Sent, Writable
<1>11. ASSUME NEW s \in Socks, AuthRefused(s) PROVE TypeOK'
  BY <1>11, DestroyedType DEF AuthRefused, FailAllPending
<1>12. ASSUME NEW s \in Socks, PeerDrop(s) PROVE TypeOK'
  BY <1>12, DestroyedType DEF PeerDrop, conn
<1>13. ASSUME NEW s \in Socks, BadPacket(s) PROVE TypeOK'
  BY <1>13, DestroyedType DEF BadPacket, conn
<1>14. ASSUME NEW s \in Socks, SocketClose(s) PROVE TypeOK'
  BY <1>14 DEF SocketClose, FailAllPending
<1> QED
  BY NextCases, <1>1, <1>2, <1>3, <1>4, <1>5, <1>6, <1>7, <1>8, <1>9, <1>10,
     <1>11, <1>12, <1>13, <1>14

\* Every callback hands the commands over without losing or keeping one.
LEMMA StepAccounted == ASSUME IInv, Next PROVE CommandsAccounted'
<1> USE DEF IInv, TypeOK, Outcomes, CommandsAccounted, AbsentIsEmpty
<1>1. ASSUME NEW c \in Cmds, NEW pw \in Passwords, RunFirst(c, pw)
      PROVE  CommandsAccounted'
  BY <1>1 DEF RunFirst, Issue
<1>2. ASSUME NEW c \in Cmds, NEW pw \in Passwords, RunReconnect(c, pw)
      PROVE  CommandsAccounted'
  BY <1>2 DEF RunReconnect, Issue
<1>3. ASSUME NEW c \in Cmds, NEW pw \in Passwords, RunEnqueue(c, pw)
      PROVE  CommandsAccounted'
  BY <1>3 DEF RunEnqueue, Issue
<1>4. ASSUME Close PROVE CommandsAccounted'
  BY <1>4 DEF Close, Forget, FailAllPending
<1>5. ASSUME OnModuleDestroy PROVE CommandsAccounted'
  BY <1>5 DEF OnModuleDestroy, Forget
<1>6. ASSUME ReconnectTimer PROVE CommandsAccounted'
  BY <1>6 DEF ReconnectTimer
<1>7. ASSUME NEW c \in Cmds, CommandTimeout(c) PROVE CommandsAccounted'
  BY <1>7 DEF CommandTimeout
<1>8. ASSUME NEW c \in Cmds, Response(c) PROVE CommandsAccounted'
  BY <1>8 DEF Response
<1>9. ASSUME NEW s \in Socks, Connected(s) \/ PeerDrop(s) \/ BadPacket(s)
      PROVE  CommandsAccounted'
  BY <1>9 DEF Connected, PeerDrop, BadPacket, conn
<1>10. ASSUME NEW s \in Socks, AuthAccepted(s) PROVE CommandsAccounted'
  BY <1>10 DEF AuthAccepted
<1>11. ASSUME NEW s \in Socks, AuthRefused(s) PROVE CommandsAccounted'
  BY <1>11 DEF AuthRefused, FailAllPending
<1>12. ASSUME NEW s \in Socks, SocketClose(s) PROVE CommandsAccounted'
  BY <1>12 DEF SocketClose, FailAllPending
<1> QED
  BY NextCases, <1>1, <1>2, <1>3, <1>4, <1>5, <1>6, <1>7, <1>8, <1>9, <1>10,
     <1>11, <1>12

\* Every callback keeps the reconnect timer and the current socket in step, and
\* an absent connection empty.
LEMMA StepArmed == ASSUME IInv, Next PROVE ReconnectArmed' /\ AbsentIsEmpty'
<1> USE RconAssumption DEF IInv, TypeOK, ReconnectArmed, AbsentIsEmpty
<1> DEFINE Goal == ReconnectArmed' /\ AbsentIsEmpty'
<1>1. ASSUME NEW c \in Cmds, NEW pw \in Passwords, RunFirst(c, pw)
      PROVE  Goal
  BY <1>1, ConnectType DEF RunFirst
<1>2. ASSUME NEW c \in Cmds, NEW pw \in Passwords, RunReconnect(c, pw)
      PROVE  Goal
  <2>1. Destroyed(sstate, sock) \in [Socks -> {"free", "connecting", "open", "destroyed"}]
    BY DestroyedType
  <2>2. sock' \in Socks /\ sstate'[sock'] = "connecting"
    BY <1>2, <2>1, ConnectType DEF RunReconnect
  <2> QED BY <1>2, <2>2 DEF RunReconnect
<1>3. ASSUME NEW c \in Cmds, NEW pw \in Passwords, RunEnqueue(c, pw)
      PROVE  Goal
  BY <1>3 DEF RunEnqueue
<1>4. ASSUME Close \/ OnModuleDestroy PROVE Goal
  BY <1>4 DEF Close, OnModuleDestroy, Forget
<1>5. ASSUME ReconnectTimer PROVE Goal
  BY <1>5, ConnectType DEF ReconnectTimer
<1>6. ASSUME NEW c \in Cmds, CommandTimeout(c) \/ Response(c) PROVE Goal
  BY <1>6 DEF CommandTimeout, Response, net
<1>7. ASSUME NEW s \in Socks, Connected(s) PROVE Goal
  BY <1>7 DEF Connected, conn
<1>8. ASSUME NEW s \in Socks, AuthAccepted(s) PROVE Goal
  BY <1>8 DEF AuthAccepted
<1>9. ASSUME NEW s \in Socks, AuthRefused(s) PROVE Goal
  BY <1>9, DestroyedType DEF AuthRefused
<1>10. ASSUME NEW s \in Socks, PeerDrop(s) \/ BadPacket(s) PROVE Goal
  BY <1>10, DestroyedType DEF PeerDrop, BadPacket, conn, Alive
<1>11. ASSUME NEW s \in Socks, SocketClose(s) PROVE Goal
  BY <1>11 DEF SocketClose
<1> QED
  BY NextCases, <1>1, <1>2, <1>3, <1>4, <1>5, <1>6, <1>7, <1>8, <1>9, <1>10, <1>11

\* Whenever conn.sock changes, nothing in flight was written to the old one.
LEMMA StepPending == ASSUME IInv, Next PROVE PendingOnCurrentSocket'
<1> USE RconAssumption DEF IInv, TypeOK, PendingOnCurrentSocket
<1>1. ASSUME NEW c \in Cmds, NEW pw \in Passwords,
             RunFirst(c, pw) \/ RunReconnect(c, pw)
      PROVE  PendingOnCurrentSocket'
  BY <1>1 DEF RunFirst, RunReconnect, AbsentIsEmpty
<1>2. ASSUME NEW c \in Cmds, NEW pw \in Passwords, RunEnqueue(c, pw)
      PROVE  PendingOnCurrentSocket'
  BY <1>2 DEF RunEnqueue, Sent
<1>3. ASSUME Close \/ OnModuleDestroy PROVE PendingOnCurrentSocket'
  BY <1>3 DEF Close, OnModuleDestroy, Forget
<1>4. ASSUME ReconnectTimer PROVE PendingOnCurrentSocket'
  BY <1>4 DEF ReconnectTimer, ReconnectArmed
<1>5. ASSUME NEW c \in Cmds, CommandTimeout(c) \/ Response(c)
      PROVE  PendingOnCurrentSocket'
  BY <1>5 DEF CommandTimeout, Response, net
<1>6. ASSUME NEW s \in Socks, Connected(s) \/ PeerDrop(s) \/ BadPacket(s)
      PROVE  PendingOnCurrentSocket'
  BY <1>6 DEF Connected, PeerDrop, BadPacket, conn
<1>7. ASSUME NEW s \in Socks, AuthAccepted(s) PROVE PendingOnCurrentSocket'
  <2>1. CASE authed
    BY <1>7, <2>1 DEF AuthAccepted
  <2>2. CASE ~authed
    <3>1. \A c \in queue : c \notin pending /\ c \in Cmds
      BY DEF CommandsAccounted
    <3>4. \A c \in queue : wire[c] = NoSock
      BY <3>1 DEF QueueUnwritten
    <3>2. \A c \in pending : wire'[c] \in {NoSock, sock}
      BY <1>7, <2>2, <3>1 DEF AuthAccepted, Sent
    <3>3. \A c \in queue : wire'[c] \in {wire[c], sock}
      BY <1>7, <2>2, <3>1 DEF AuthAccepted, Sent
    <3> QED BY <1>7, <2>2, <3>1, <3>2, <3>3, <3>4 DEF AuthAccepted
  <2> QED BY <2>1, <2>2
<1>8. ASSUME NEW s \in Socks, AuthRefused(s) \/ SocketClose(s)
      PROVE  PendingOnCurrentSocket'
  BY <1>8 DEF AuthRefused, SocketClose, FailAllPending
<1> QED
  BY NextCases, <1>1, <1>2, <1>3, <1>4, <1>5, <1>6, <1>7, <1>8

\* Every callback writes only commands that are not queued, and queues only
\* commands that were never written.
LEMMA StepUnwritten == ASSUME IInv, Next PROVE QueueUnwritten'
<1> USE DEF IInv, TypeOK, QueueUnwritten
<1>1. ASSUME NEW c \in Cmds, NEW pw \in Passwords,
             RunFirst(c, pw) \/ RunReconnect(c, pw)
      PROVE  QueueUnwritten'
  BY <1>1 DEF RunFirst, RunReconnect, Issue
<1>2. ASSUME NEW c \in Cmds, NEW pw \in Passwords, RunEnqueue(c, pw)
      PROVE  QueueUnwritten'
  BY <1>2 DEF RunEnqueue, Issue, Sent, CommandsAccounted
<1>3. ASSUME Close \/ OnModuleDestroy PROVE QueueUnwritten'
  BY <1>3 DEF Close, OnModuleDestroy, Forget
<1>4. ASSUME ReconnectTimer PROVE QueueUnwritten'
  BY <1>4 DEF ReconnectTimer
<1>5. ASSUME NEW c \in Cmds, CommandTimeout(c) \/ Response(c)
      PROVE  QueueUnwritten'
  BY <1>5 DEF CommandTimeout, Response, net
<1>6. ASSUME NEW s \in Socks, Connected(s) \/ PeerDrop(s) \/ BadPacket(s)
      PROVE  QueueUnwritten'
  BY <1>6 DEF Connected, PeerDrop, BadPacket, conn
<1>7. ASSUME NEW s \in Socks, AuthAccepted(s) PROVE QueueUnwritten'
  BY <1>7 DEF AuthAccepted, Sent, CommandsAccounted
<1>8. ASSUME NEW s \in Socks, AuthRefused(s) \/ SocketClose(s)
      PROVE  QueueUnwritten'
  BY <1>8 DEF AuthRefused, SocketClose, FailAllPending
<1> QED
  BY NextCases, <1>1, <1>2, <1>3, <1>4, <1>5, <1>6, <1>7, <1>8

\* A step that changes nothing keeps the invariant.
LEMMA Stuttering == ASSUME IInv, UNCHANGED vars PROVE IInv'
BY DEF IInv, vars, conn, net, TypeOK, CommandsAccounted, ReconnectArmed,
       PendingOnCurrentSocket, AbsentIsEmpty, QueueUnwritten

\* The strengthened invariant holds in every reachable state.
THEOREM Invariance == Spec => []IInv
<1>1. IInv /\ [Next]_vars => IInv'
  <2>1. ASSUME IInv, Next PROVE IInv'
    BY <2>1, StepTypeOK, StepAccounted, StepArmed, StepPending, StepUnwritten
       DEF IInv
  <2> QED BY <2>1, Stuttering
<1> QED BY InitIInv, <1>1, PTL DEF Spec

\* RconService keeps its fields well typed.
THEOREM TypeCorrect == Spec => []TypeOK
BY Invariance, PTL DEF IInv

\* run(), close() and the socket handlers never lose a command: every promise
\* not yet settled sits in exactly one list that will settle it.
THEOREM NoCommandLost == Spec => []CommandsAccounted
BY Invariance, PTL DEF IInv

\* A kept connection is never stuck without a socket and a timer.
THEOREM NeverStuck == Spec => []ReconnectArmed
BY Invariance, PTL DEF IInv

\* No command waits on a socket that conn.sock no longer names.
THEOREM NoStaleWait == Spec => []PendingOnCurrentSocket
BY Invariance, PTL DEF IInv

-----------------------------------------------------------------------------
(* The connection keeps the promise made to the callers of run(), as far as *)
(* safety goes; that every call settles is liveness.                        *)

\* Every callback is a step of the promise: it issues and settles calls, and
\* touches no call that has settled.
LEMMA StepPromised == ASSUME IInv, Next PROVE Promised!Next
<1> USE RconAssumption DEF Promised!Next, Promised!Issues, Promised!Settles,
        Promised!Settled, Promised!Dropped
<1>1. ASSUME NEW c \in Cmds, NEW pw \in Passwords, RunFirst(c, pw)
      PROVE  Promised!Next
  BY <1>1 DEF RunFirst, Issue, IInv, TypeOK
<1>2. ASSUME NEW c \in Cmds, NEW pw \in Passwords, RunReconnect(c, pw)
      PROVE  Promised!Next
  BY <1>2 DEF RunReconnect, Issue, IInv, TypeOK, CommandsAccounted
<1>3. ASSUME NEW c \in Cmds, NEW pw \in Passwords, RunEnqueue(c, pw)
      PROVE  Promised!Next
  BY <1>3 DEF RunEnqueue, Issue, IInv, TypeOK
<1>4. CASE Close
  BY <1>4 DEF Close, FailAllPending, IInv, TypeOK, CommandsAccounted
<1>5. ASSUME NEW c \in Cmds, CommandTimeout(c)
      PROVE  Promised!Next
  BY <1>5 DEF CommandTimeout, IInv, TypeOK
<1>6. ASSUME NEW c \in Cmds, Response(c)
      PROVE  Promised!Next
  BY <1>6 DEF Response, IInv, TypeOK, CommandsAccounted
<1>7. ASSUME NEW s \in Socks, AuthRefused(s)
      PROVE  Promised!Next
  BY <1>7 DEF AuthRefused, FailAllPending, IInv, TypeOK, CommandsAccounted
<1>8. ASSUME NEW s \in Socks, SocketClose(s)
      PROVE  Promised!Next
  BY <1>8 DEF SocketClose, FailAllPending, IInv, TypeOK, CommandsAccounted
<1>9. ASSUME UNCHANGED outcome
      PROVE  Promised!Next
  BY <1>9 DEF IInv, TypeOK
<1> QED
  BY NextCases, <1>1, <1>2, <1>3, <1>4, <1>5, <1>6, <1>7, <1>8, <1>9
     DEF OnModuleDestroy, ReconnectTimer, Connected, AuthAccepted, PeerDrop,
         BadPacket

\* run() keeps its promise: every step of a connection issues or settles calls
\* as RconCalls says, and a call that has settled never changes again.
THEOREM PromiseKept == Spec => Promised!Init /\ [][Promised!Next]_outcome
<1>1. Init => Promised!Init
  BY DEF Init, Promised!Init
<1>2. IInv /\ [Next]_vars => [Promised!Next]_outcome
  BY StepPromised DEF vars
<1> QED BY <1>1, <1>2, Invariance, PTL DEF Spec
=============================================================================
