\* Two targets in breach that fall back to each other.
SPECIFICATION FairSpec
CONSTANTS
    Sources = {"s1", "s2"}
    Targets = {"a", "b"}
    Workers = {w1, w2}
    Route <- SharedRoute
    Rules <- CycleRules
    MaxLines = 1
    HasMonitor = TRUE
    Faults = {}
PROPERTY
    FallbackIsSent
CHECK_DEADLOCK FALSE
