CONSTANTS
    p1 = p1
    p2 = p2
    f1 = f1
    f2 = f2
    Nobody = Nobody
    Acceptor = Acceptor
    Peer = {p1, p2}
    File = {f1}
    Thread <- Threads
    MaxConnections = 1
    MaxMade = 2
    MaxPeers = 1
    Lists <- FullList

SPECIFICATION FairSpec
INVARIANTS
    InterestedIsRegistered
PROPERTIES
    DeadPeersLeave
