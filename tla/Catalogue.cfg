CONSTANTS
    c = c
    d = d
    a1 = a1
    a2 = a2
    h1 = h1
    Contents = {c, d}
    Tagged = {d}
    Archives = {a1, a2}
    Files <- MCFiles
    Legacy <- MCLegacy
    Hiders = {h1}
    Skip = TRUE
    MaxId = 3
    MaxEdits = 1
SPECIFICATION Spec
INVARIANTS HiddenHasNewer HideIsComplete ScannedIsCovered
