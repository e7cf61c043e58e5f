SPECIFICATION Spec
CONSTANTS
    Names = {n1, n2}
    LongNames = {}
    Passwords = {p1, p2}
    Answers = {a1, a2}
    NoAccount = NoAccount
    NoJob = NoJob
    MaxRows = 4
    DbFaults = FALSE
SYMMETRY AccountSymmetry
INVARIANTS
    FriendIsAddedOnce
