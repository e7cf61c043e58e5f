SPECIFICATION FairSpec
CONSTANTS
    Base = 6
    Requests <- MCRequests
    UserIds <- MCUserIds
    Names <- MCNames
    Notifications <- MCNotifications
    Packets <- AnswerPackets
    RecvSize = 12
    BodyLimit = 50
    AcceptsEmptyBody = TRUE
    MaxRequests = 1
    MaxConnects = 2
    MaxPushes = 1
INVARIANTS
    TypeOK
    DeliveredInOrder
    RequestsAreUnderstood
    AnswersAreReported
PROPERTY EveryoneIsAnswered
CHECK_DEADLOCK FALSE
