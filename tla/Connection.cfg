CONSTANTS
    MaxMessages = 2
    MaxReceived = 2
    Others = {TRUE, FALSE}

SPECIFICATION FairIceSpec
\* A connection ends.
CHECK_DEADLOCK FALSE
INVARIANTS
    
    InOrder
PROPERTIES
    
    GatheringEnds
