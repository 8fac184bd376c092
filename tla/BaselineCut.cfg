SPECIFICATION Spec
CONSTANTS
    Runners = {1}
    Last = 2
    Boundary = 1
    Repeatable = {}
    MaxRuns = 2
INVARIANT NeverReplays
CHECK_DEADLOCK FALSE
