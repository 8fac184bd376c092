SPECIFICATION FairSpec
CONSTANTS
    c1 = c1
    c2 = c2
    Callers = {c1}
    MaxSessions = 2
    MaxArchives = 2
    MaxFiles = 1
    MaxFixBooks = 1
    Round = 10
INVARIANTS Owned CompletedIsWhole
PROPERTIES ScansEnd
CHECK_DEADLOCK FALSE
