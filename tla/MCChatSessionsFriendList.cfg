SPECIFICATION Spec
CONSTANTS
    Conns = {c1}
    Users = {u1, u2}
    NoUser = NoUser
    NoConn = NoConn
    ClientKinds = {"login", "friend_list"}
    MaxQueue = 1
    MaxMessages = 1
    ReadsOnAccept = TRUE
    Relogin = FALSE
    WriteFaults = FALSE
PROPERTIES
    FriendListIsServed
CHECK_DEADLOCK FALSE
