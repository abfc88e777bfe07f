SPECIFICATION Spec
CONSTANTS
    Conns = {c1, c2}
    ConnIds = {i1, i2, i3}
    Channels = {q1, q2}
    User = u
    NoConn = NoConn
    NoUser = NoUser
    NoId = NoId
    NoChannel = NoChannel
    Nil = Nil
    sendQueueSize = 2
    sendSlowWarn = 1
    deadQueueSize = 2
    MinorEvents = {2, 4}
    MaxEvents = 4
    MaxFaults = 2
CONSTRAINT WithinBounds
SYMMETRY Symmetry
INVARIANTS
    NoSilentGap
PROPERTIES ImplementsEventStream
CHECK_DEADLOCK FALSE
