SPECIFICATION Spec
CONSTANTS
    Conns = {c1, c2, c3}
    Users = {u1, u2}
    NoUser = NoUser
    NoConn = NoConn
    ClientKinds = {"login"}
    MaxQueue = 1
    MaxMessages = 1
    ReadsOnAccept = TRUE
    Relogin = FALSE
    WriteFaults = TRUE
SYMMETRY SessionSymmetry
INVARIANTS
    UniqueSession
CHECK_DEADLOCK FALSE
