SPECIFICATION FairSpec
CONSTANTS
    MaxSeq = 1
    Payloads <- MCPayloads
    EngineCounts = {0}
    w1 = w1
    w2 = w2
    s1 = s1
    o1 = o1
    u1 = u1
    Workers = {w1, w2}
    Schedulers = {s1}
    Operators = {}
    Users = {}
    HasTimeout = TRUE
    MaxAttempts = 3
    MaxFaults = 2
PROPERTIES
    EveryBatchIngested
    TimedOutRunCloses
CHECK_DEADLOCK FALSE
