SPECIFICATION FairSpec
CONSTANT MaxFailures = 4
INVARIANTS
    TypeOK
    TimerDiscipline
    NoLeakedSubscription
    NoStaleCallback
    StopIsFinal
PROPERTIES
    BackoffKept
    ImplementsContract
    Recovers
CHECK_DEADLOCK FALSE
