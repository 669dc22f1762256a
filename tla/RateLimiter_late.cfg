\* Init at the end of an interval: a late tick is in the next one.
SPECIFICATION Spec
CONSTANTS
    Interval = 3
    FlushInterval = 3
    StoreMultiplier = 1
    Limit = 1
    Phases = {2}
    MaxLate = 1
    Deltas = {6}
    MaxTime = 18
    MaxBytes = 6
INVARIANT
    NoFalseBreach
CHECK_DEADLOCK FALSE
