CONSTANTS
    MaxRequests = 1
    MaxRounds = 1
    MaxStarts = 2
    Kinds = {"keepAlive", "choke", "dataRequest"}
    PeersLeave = FALSE

SPECIFICATION FairSpec
\* A handler that is stopped for good has nothing left to do.
CHECK_DEADLOCK FALSE
INVARIANTS
    AnsweredOnce
PROPERTIES
    EveryRequestAnswered
    StoppedThreadsEnd
