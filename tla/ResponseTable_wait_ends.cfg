SPECIFICATION FairSpec
CONSTANTS
    Requests = {r1}
    Copies = {c1}
    Waiters = {w1}
PROPERTIES
    WaitEnds
CHECK_DEADLOCK FALSE
