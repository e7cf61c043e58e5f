\* Three screens are a login, a registration and a friend list, or a login, a
\* friend list and a chat; with two requests that wait for their answers.  The
\* bounds let the system stop.
SPECIFICATION Spec
CONSTANTS
    MaxScreens = 3
    MaxAsked = 2
INVARIANTS
    TypeOK
    SessionSurvivesNavigation
    SomethingEnablesLogin
    FrontHasTheSlot
CHECK_DEADLOCK FALSE
