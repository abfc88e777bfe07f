SPECIFICATION Spec
CONSTANTS
    Conns = {c1, c2}
    Users = {u1}
    ConnIds = {i1, i2, i3}
    Channels = {q1, q2}
    Broadcasts <- Events
    NoConn = NoConn
    NoUser = NoUser
    NoId = NoId
    NoChannel = NoChannel
    sendQueueSize = 2
    sendSlowWarn = 1
CONSTRAINT OneLapse
SYMMETRY Symmetry
INVARIANTS
    IndexedChannelsOpen
    SoleOwner
    InactiveMeansFinished
    GreetingFindsRoom
    DirectedEventsReachOwner
CHECK_DEADLOCK FALSE
