SPECIFICATION FairSpec
CONSTANTS
    j1 = j1
    j2 = j2
    w1 = w1
    w2 = w2
    NoJob = NoJob
    Jobs = {j1, j2}
    StreamJobs = {j1}
    Workers = {w1}
    QueueSize = 2
    MaxSeq = 3
    Counts = {1}
    MaxFaults = 1
    MaxSaveFaults = 0
INVARIANTS
    EndedStreamMatches
    ResultCountsEveryFact
PROPERTIES
    TerminalStays
    AcceptedJobEnds
CHECK_DEADLOCK FALSE
