\* Ticks that are late by more than a flush interval, so that some are dropped.
SPECIFICATION Spec
CONSTANTS
    Interval = 2
    FlushInterval = 2
    StoreMultiplier = 3
    Limit = 1
    Phases = {1}
    MaxLate = 3
    Deltas = {1}
    MaxTime = 10
    MaxBytes = 1
INVARIANT
    RecentIsCounted
CHECK_DEADLOCK FALSE
