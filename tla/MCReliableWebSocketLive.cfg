SPECIFICATION FairSpec
CONSTANTS
    Conns = {c1, c2}
    ConnIds = {i1, i2}
    Channels = {q1, q2}
    User = u
    NoConn = NoConn
    NoUser = NoUser
    NoId = NoId
    NoChannel = NoChannel
    Nil = Nil
    sendQueueSize = 1
    sendSlowWarn = 1
    deadQueueSize = 2
    MinorEvents = {2}
    MaxEvents = 2
    MaxFaults = 1
CHECK_DEADLOCK FALSE
PROPERTIES EventuallyKnown
