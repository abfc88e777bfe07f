SPECIFICATION LiveSpec
CONSTANTS
    Conns = {c1, c2}
    Users = {u1}
    ConnIds = {i1, i2}
    Channels = {q1, q2}
    Broadcasts <- Events
    NoConn = NoConn
    NoUser = NoUser
    NoId = NoId
    NoChannel = NoChannel
    sendQueueSize = 1
    sendSlowWarn = 1
PROPERTIES
    StopTerminates
    EvictedIsTornDown
CHECK_DEADLOCK FALSE
