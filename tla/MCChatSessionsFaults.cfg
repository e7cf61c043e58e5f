SPECIFICATION Spec
CONSTANTS
    Conns = {c1, c2}
    Users = {u1, u2}
    NoUser = NoUser
    NoConn = NoConn
    ClientKinds = {"login", "chat", "friend_list"}
    MaxQueue = 2
    MaxMessages = 1
    ReadsOnAccept = TRUE
    Relogin = FALSE
    WriteFaults = TRUE
SYMMETRY SessionSymmetry
INVARIANTS
    RoutesToItsUser
    NotificationsMeetTheirUser
    RouteIsWatched
    WritePump
PROPERTIES
    OnlyTheGoneMissMessages
CHECK_DEADLOCK FALSE
