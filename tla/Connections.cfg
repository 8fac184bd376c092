SPECIFICATION Spec
CONSTANTS
    c1 = c1
    v1 = v1
    v2 = v2
    v3 = v3
    Pong = Pong
    Event = Event
    Conns <- mcConns
    Admins <- mcConns
    Convs <- mcConvs
    Cap = 1
    MaxOther = 2
PROPERTIES
    AnswersArrive
    GoroutinesEnd
CHECK_DEADLOCK FALSE
