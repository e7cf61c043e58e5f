SPECIFICATION FairSpec
CONSTANTS
    Conns = {c1, c2}
    Users = {u1, u2}
    NoUser = NoUser
    NoConn = NoConn
    ClientKinds = {"login", "chat", "query", "garbled", "friend_list", "oversized"}
    MaxQueue = 1
    MaxMessages = 1
    ReadsOnAccept = TRUE
    Relogin = FALSE
    WriteFaults = FALSE
INVARIANTS
    TypeOK
    UniqueSession
    SessionReachable
    NoGhostUser
PROPERTIES
    OutboundSpec
    PresenceSpec
    RequestsAreServed
    PacketsAreWritten
    ClosedPeerGoesOffline
CHECK_DEADLOCK FALSE
