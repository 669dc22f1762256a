\* A target that discards, and what a response of the API says of it.
SPECIFICATION MSpec
CONSTANTS
    Sources = {"s1"}
    Targets = {"a", "b"}
    Workers = {w1}
    Route <- UnknownRoute
    Rules <- MixedRules
    MaxLines = 2
    HasMonitor = TRUE
    Shown <- ShownB
    Faults = {}
INVARIANT
    DroppedIsShown
CHECK_DEADLOCK FALSE
