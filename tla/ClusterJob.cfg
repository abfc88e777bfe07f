\* Three instances, two crashes; with failing reads and writes of the job, and with
\* failing and late calls of the mutex.
SPECIFICATION LiveJobSpec
CONSTANTS
    Instance = {i1, i2, i3}
    TTL = 2
    RefreshInterval = 1
    Interval = 2
    Backoff = 1
    MaxCrashes = 2
    Conditions = {{"crash"}, {"crash", "metadata"}, {"failure", "delay"}}
    Nobody = Nobody
    Stopped = Stopped
INVARIANT
    OneRunning
PROPERTIES
    Spaced
    JobRuns
    KeyExpires
CHECK_DEADLOCK FALSE
