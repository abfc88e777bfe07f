SPECIFICATION Spec
CONSTANTS
    Scenarios <- MCScenarios
    PerPage = 1
    NoPost = NoPost
    Unloaded = Unloaded
    NoReply = NoReply
INVARIANTS
    OrderedBlocks
    OneRecentNewest
    HolesOnlyFromLostEvents
    StampedSyncRepairs
CHECK_DEADLOCK FALSE
