SPECIFICATION FairSpec
CONSTANTS
    j1 = j1
    j2 = j2
    w1 = w1
    w2 = w2
    NoJob = NoJob
    Jobs = {j1}
    StreamJobs = {j1}
    Workers = {w1}
    QueueSize = 1
    MaxSeq = 2
    Counts = {1}
    MaxFaults = 0
    MaxSaveFaults = 1
PROPERTY TerminalStays
CHECK_DEADLOCK FALSE
