\* Two sources that share a target, two workers, a fallback chain and a discard
\* rule; sources whose connection breaks.
SPECIFICATION FairSpec
CONSTANTS
    Sources = {"s1", "s2"}
    Targets = {"a", "b"}
    Workers = {w1, w2}
    Route <- SharedRoute
    Rules <- ChainedRules
    MaxLines = 1
    HasMonitor = TRUE
    Faults = {"error"}
INVARIANTS
    IndInv
    CounterIsExact
    OneHolder
    DrainedMeansSettled
PROPERTIES
    NoAddWhileWaiting
    ImplementsLogDelivery
    StopCompletes
    PendingSettles
CHECK_DEADLOCK FALSE
