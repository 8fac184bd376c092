SPECIFICATION FairSpec
CONSTANTS
    c1 = c1
    c2 = c2
    w1 = w1
    w2 = w2
    Callers <- TwoCallers
    Workers <- TwoWorkers
    MaxJobs = 1
    MaxBooks = 5
    Batch = 2
INVARIANTS CompletedIsWhole BlockedOnlyByLoss
PROPERTY JobsEnd
CHECK_DEADLOCK FALSE
