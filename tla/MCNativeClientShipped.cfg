SPECIFICATION FairSpec
CONSTANTS
    Relock = FALSE
PROPERTIES
    InitReturns
CHECK_DEADLOCK FALSE
