SPECIFICATION FairSpec
CONSTANTS
    Sockets = {s1, s2, s3}
    NoSocket = NoSocket
    ConnIds = {i1, i2}
    NoId = NoId
    MaxSequence = 2
    MaxFaults = 3
INVARIANTS
    KeepsTrying
    NoForgottenSocket
    OpenIsWatched
    RegainedRunsReconnect
PROPERTIES
    ImplementsStreamClient
    ClosedStaysClosed
    SilenceIsNoticed
    EventuallyConnected
