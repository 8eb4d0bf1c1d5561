SPECIFICATION FairSpec
CONSTANTS
    Cmds = {c1, c2, q1}
    Quits = {q1}
    Passwords = {p1, p2}
    ServerPw = p1
    Socks = {s1, s2, s3}
    NoSock = NoSock
    NoPw = NoPw
    MaxDrops = 1
INVARIANTS
    TypeOK
    CommandsAccounted
    ReconnectArmed
    PendingOnCurrentSocket
PROPERTIES
    ImplementsCalls
    Recovers
CHECK_DEADLOCK FALSE
