SPECIFICATION Spec
CONSTANTS
    b1 = b1
    r1 = r1
    r2 = r2
    img = img
    x = x
    t = t
    e = e
    Blank = e
    NoImage = NoImage
    Partial = Partial
    NoOne = NoOne
    Unread = Unread
    Books <- mcBooks
    Requests <- mcRequests
    Parses <- mcParses
    Choices <- mcChoices
    Edits <- mcEdits
    MaxRows = 2
    MaxEdits = 1
    known = known
    several = several
    nameless = nameless
    Nameless = nameless
    a1 = a1
    a2 = a2
    Volumes = {1, 2}
    Keys <- mcKeys
    Key <- mcKey
    N = 2
    Found <- mcFound
    Cached <- mcCached
    Actors <- mcActors
    MaxStarts = 2
    Runners = {1, 2}
    Last = 4
    Boundary = 2
    Repeatable = {3}
    MaxRuns = 3
    Setups <- mcSetups
    Pictured = {1, 3}
    Marked = {2, 3}
    NoVolume = 0
    MaxErrors = 2
    MaxDeeds = 1
INVARIANTS
    RowsAgree
    StatsHold
    CacheFollows
    FixScanHolds
    LedgerTells
PROPERTIES
    OnePreview
    CoverKept
    PlanTold
SYMMETRY Symmetry
CHECK_DEADLOCK FALSE
