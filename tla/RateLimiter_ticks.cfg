\* Ticks that are late, but never into the next interval.
SPECIFICATION Spec
CONSTANTS
    Interval = 2
    FlushInterval = 2
    StoreMultiplier = 2
    Limit = 1
    Phases = {0}
    MaxLate = 1
    Deltas = {5}
    MaxTime = 10
    MaxBytes = 10
INVARIANTS
    RecentIsCounted
    NoFalseBreach
    TotalIsStored
CHECK_DEADLOCK FALSE
