SPECIFICATION LogSpec
CONSTANTS
    deadQueueSize = 3
    MaxNumber = 9
    Nil = Nil
INVARIANTS
    FindsExactlyTheKept
    DrainsTheRest
    LosslessMeansUpToDate
CHECK_DEADLOCK FALSE
