SPECIFICATION Spec
CONSTANTS
    Relock = TRUE
INVARIANTS
    TypeOK
    ConnectedHasWorker
    NoStaleUp
    UpcallHasService
    NoSocketLeak
    TwoEmbraces
CHECK_DEADLOCK FALSE
