SPECIFICATION FairSpec
CONSTANTS
    w1 = w1
    w2 = w2
    u1 = u1
    u2 = u2
    Workers = {w1, w2}
    Users = {u1, u2}
    RetryLimit = 1
    MaxFaults = 3
INVARIANTS
    TypeOK
    RunningRunHasJob
PROPERTIES
    ClosedRunStaysClosed
    ClosedWhilePendingIsUndone
    EnqueuedRunLeavesPending
CHECK_DEADLOCK FALSE
