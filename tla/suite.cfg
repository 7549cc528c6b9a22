SPECIFICATION Spec
CONSTANTS
    Stages = 3
    N = 2
    Shapes <- SafeSuites
    MaxSessions = 3
INVARIANTS SkipsOnlyWritten DoneIsDelivered
PROPERTY NothingIsRedone
CHECK_DEADLOCK FALSE
