SPECIFICATION Spec
CONSTANTS
    b1 = b1
    v1 = v1
    v2 = v2
    v3 = v3
    d1 = d1
    d2 = d2
    NoFile = NoFile
    NoBook = NoBook
    Books <- mcBooks
    Convs <- mcConvs
    Loads <- mcLoads
    Size = 2
INVARIANTS
    WholeDownload
    ReadyIsThere
SYMMETRY Symmetry
CHECK_DEADLOCK FALSE
