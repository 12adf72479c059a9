SPECIFICATION Spec
CONSTANTS
    MaxSeq = 2
    Payloads <- MCPayloads
    EngineCounts = {0}
    w1 = w1
    w2 = w2
    s1 = s1
    o1 = o1
    u1 = u1
    Workers = {w1, w2}
    Schedulers = {}
    Operators = {}
    Users = {u1}
    HasTimeout = FALSE
    MaxAttempts = 2
    MaxFaults = 2
INVARIANTS
    TypeOK
    ReadyMeansClosed
    ClosedByCallbacksIsComplete
    ProcessedHasFacts
    ListedRowsAreClaimable
    CountIsSumOfProcessed
PROPERTY ImplementsLedger
SYMMETRY WorkerSymmetry
CHECK_DEADLOCK FALSE
