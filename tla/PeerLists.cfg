CONSTANTS
    m1 = m1
    m2 = m2
    m3 = m3
    Manager = {m1, m2, m3}
    MaxEarly = 1

SPECIFICATION FairListsSpec
\* All managers may wait.
CHECK_DEADLOCK FALSE
INVARIANTS
    OneListEach
    AnswerOnItsWay
PROPERTIES
    RequestEnds
