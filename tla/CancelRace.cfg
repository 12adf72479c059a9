SPECIFICATION FairSpec
CONSTANTS
    w1 = w1
    w2 = w2
    u1 = u1
    u2 = u2
    Workers = {w1}
    Users = {u1}
    RetryLimit = 1
    MaxFaults = 0
PROPERTY CancelledRemotelyFirst
CHECK_DEADLOCK FALSE
