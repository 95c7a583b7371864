CONSTANTS
    p1 = p1
    p2 = p2
    f1 = f1
    f2 = f2
    t1 = t1
    t2 = t2
    Nobody = Nobody
    Acceptor = Acceptor
    Peer = {p1, p2}
    File = {f1, f2}
    Thread = {t1, t2}
    MaxConnections = 1
    MaxMade = 2

SPECIFICATION FairConnSpec
\* The program may end.
CHECK_DEADLOCK FALSE
PROPERTIES
    NeverReplaced
    CallsEnd
