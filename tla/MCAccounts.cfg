SPECIFICATION Spec
CONSTANTS
    Names = {n1, n2, n3}
    LongNames = {n3}
    Passwords = {p1, p2}
    Answers = {a1, a2}
    NoAccount = NoAccount
    NoJob = NoJob
    MaxRows = 3
    DbFaults = TRUE
SYMMETRY AccountSymmetry
INVARIANTS
    TypeOK
    SymmetricUnlessFaulted
    AddedFriendIsListed
    PasswordIsBelieved
    ConfirmedPasswordLogsIn
PROPERTIES
    OnlyTheAnswerChangesThePassword
