SPECIFICATION Spec
CONSTANTS
    j1 = j1
    j2 = j2
    w1 = w1
    w2 = w2
    NoJob = NoJob
    Jobs = {j1}
    StreamJobs = {j1}
    Workers = {w1, w2}
    QueueSize = 1
    MaxSeq = 3
    Counts = {1}
    MaxFaults = 1
    MaxSaveFaults = 1
INVARIANTS
    TypeOK
    OnePayloadPerSeq
    NoGapInStream
PROPERTY CheckpointNeverRollsBack
CHECK_DEADLOCK FALSE
SYMMETRY WorkerSymmetry
