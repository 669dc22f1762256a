\* A fallback chain, and what the gauge of the first target shows.
SPECIFICATION Spec
CONSTANTS
    Sources = {"s1", "s2"}
    Targets = {"a", "b"}
    Workers = {w1, w2}
    Route <- SharedRoute
    Rules <- ChainedRules
    MaxLines = 1
    HasMonitor = TRUE
    Faults = {}
INVARIANT
    GaugeIsInFlight
CHECK_DEADLOCK FALSE
