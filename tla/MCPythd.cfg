SPECIFICATION PythdSpec
CONSTANTS
    User = {u1, u2}
    Price = {p1}
    Secondary = TRUE
    MaxBatch = 2
    MaxSubs = 2
    MaxUpdates = 3
    SchedPrice = {1, 2, 3}
    Hash <- MCHash
    fraction = 4
    pub_int_ = 4
    MaxElapsed = 6
    timeout_ = 3
    MaxPause = 5
    MaxChanges = 3
INVARIANTS UsersServed IntervalComplete
PROPERTIES AskedForEver ConnectionKept
CHECK_DEADLOCK FALSE
