SPECIFICATION Spec
CONSTANTS
    MaxSeq = 2
    Payloads <- MCPayloads
    EngineCounts = {7}
    w1 = w1
    w2 = w2
    s1 = s1
    o1 = o1
    u1 = u1
    Workers = {w1}
    Schedulers = {s1}
    Operators = {}
    Users = {}
    HasTimeout = TRUE
    MaxAttempts = 1
    MaxFaults = 0
INVARIANT NeverClosedWhileIngesting
CHECK_DEADLOCK FALSE
