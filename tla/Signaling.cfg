CONSTANTS
    p1 = p1
    p2 = p2
    p3 = p3
    Nobody = Nobody
    Peer = {p1, p2, p3}
    IdSpace = 3
    MaxConnected = 0
    MaxRequests = 3
    MaxLeaves = 1
    MaxAged = 1
    MaxInHandler = 1
    DataLengths = {0, 1, 2, 31, 12288, 65535, 65536, 65570}
    UserCounts = {0, 1, 3}

SPECIFICATION FairSpec
\* The peers may all have their answers, or wait for one another.
CHECK_DEADLOCK FALSE
INVARIANTS
    OneTracePerRequest
    RequestOnItsWay
    
    HeldUpInCircles
    MessagesArrive
PROPERTIES
    RequestsEnd
