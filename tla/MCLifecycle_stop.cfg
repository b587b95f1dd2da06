SPECIFICATION FairSpec
CONSTANTS
    q1 = q1
    q2 = q2
    Requests = {q1, q2}
    Sockets = {q1}
    QueueCapacity = 1
    BatchSize = 2
INVARIANTS
    TypeOK
    EventsAreAccounted
    NothingIsStranded
    CleanStopLosesNothing
PROPERTIES
    StopEnds
    EventsAreWritten
CHECK_DEADLOCK FALSE
