SPECIFICATION FairSpec
CONSTANTS
    Requests = {r1, r2}
    Copies = {c1, c2}
    Waiters = {w1}
INVARIANTS
    TypeOK
    EntryUntilAnswered
    NoLostWakeup
    SessionSurvives
PROPERTIES
    KeepsPromises
    WaitReturns
CHECK_DEADLOCK FALSE
