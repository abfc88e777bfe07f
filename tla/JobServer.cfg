\* Both kinds of workers: undisturbed, crashing with updates
\* that fail, and with the status of jobs set directly.
SPECIFICATION LiveSpec
CONSTANTS
    Node = {n1, n2}
    Job = {j1, j2}
    Requester = {r1, r2}
    Conditions = {{}, {"watcher"}, {"crash", "failure"}, {"watcher", "crash", "failure"},
                  {"patch", "replace"}, {"watcher", "patch", "replace"}}
    NoJob = NoJob
INVARIANTS
    OneNodePerJob
    InProgressIsWorked
PROPERTIES
    FinalStays
    RequestStands
    CancellationHeard
CHECK_DEADLOCK FALSE
