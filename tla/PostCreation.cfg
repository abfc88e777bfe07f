SPECIFICATION LiveSpec
CONSTANTS
    MaxClock = 5
    MaxWrites = 2
    MaxLosses = 1
    MaxBlocks = 3
    Conditions = {{"others", "failure", "dismissal"},
                  {"failure", "lost answer", "disconnect"},
                  {"others", "disconnect", "permalink"}}
    NoPost = NoPost
    Unloaded = Unloaded
    NoReply = NoReply
INVARIANTS
    EachPostOnce
    PendingOrCreated
PROPERTIES
    SentOnceAtATime
    OwnPostsCome
CHECK_DEADLOCK FALSE
