SPECIFICATION FairSpec
CONSTANTS
    Conns = {c1, c2}
    Users = {u1, u2}
    NoUser = NoUser
    NoConn = NoConn
    ClientKinds = {"login", "chat"}
    MaxQueue = 1
    MaxMessages = 1
    ReadsOnAccept = FALSE
    Relogin = FALSE
    WriteFaults = FALSE
PROPERTIES
    RequestsAreServed
CHECK_DEADLOCK FALSE
