\* Four requests, undisturbed, and with every disturbance at once.
SPECIFICATION ServerSpec
CONSTANTS
    Request = {r1, r2, r3, r4}
    Disturbances = {{}, {"race", "late failure", "cache failure", "expiry", "unauthorized"}}
    Absent = Absent
    Unknown = Unknown
    NoneSaved = NoneSaved
    Waiting = Waiting
    Error = Error
INVARIANT
    IdleEntryIsTrue
PROPERTY
    ImplementsIdempotentPost
CHECK_DEADLOCK FALSE
