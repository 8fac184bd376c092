SPECIFICATION MCSpec
CONSTANTS
    c1 = c1
    NUsers = 2
    NTokens = 2
    Tries <- OneShared
    Frail = {1}
    Callers <- OneCaller
    MaxUuid = 3
    r1 = r1
    r2 = r2
    l1 = l1
    l2 = l2
    p1 = p1
    p2 = p2
    Logins <- mcLogins
    Lower <- mcLower
    Passwords <- mcPasswords
    Clients <- mcClients
    NoAccount = NoAccount
    NoLogin = NoLogin
    NoPass = NoPass
    LinkLife = 1
    MaxIds = 2
    MaxLinks = 2
INVARIANTS
    BotMeansRow
    MapsAgree
    AsAsked
    LinkServes
SYMMETRY Symmetry
CHECK_DEADLOCK FALSE
