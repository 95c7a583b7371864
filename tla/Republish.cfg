CONSTANTS
    p1 = p1
    p2 = p2
    f1 = f1
    f2 = f2
    NoFile = NoFile
    File = {f1, f2}
    Peer = {p1, p2}
    Publisher = {p1}
    Ttl = 2
    Collisions = FALSE
    MaxTime = 6
    MaxAnnounce = 2

SPECIFICATION Spec
SYMMETRY RepublishSymmetry
\* Time ends at MaxTime.
CHECK_DEADLOCK FALSE
INVARIANTS
    
    RepublishedInTime
PROPERTIES
    KeepsPromise
