SPECIFICATION FairSpec
CONSTANTS
    b1 = b1
    b2 = b2
    Books <- TwoBooks
    Readers = {r1}
    Slots = 1
    MaxParts = 2
    Parts <- TwoParts
    Chunks <- TwoChunks
    Ttl = 6
    Timeout = 2
    OpTime = 1
INVARIANTS WholeUntilTail NoNeedlessBuild
PROPERTIES PoolSpec FlightsEnd
CHECK_DEADLOCK FALSE
