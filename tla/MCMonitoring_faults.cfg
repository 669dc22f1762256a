\* One source routed to an unconfigured target, a fallback to an unconfigured
\* target, the default of one worker, and every fault of the environment.
SPECIFICATION MSpec
CONSTANTS
    Sources = {"s1"}
    Targets = {"a", "b"}
    Workers = {w1}
    Route <- UnknownRoute
    Rules <- MixedRules
    MaxLines = 2
    HasMonitor = TRUE
    Shown <- ShownB
    Faults = {"dial", "eof", "error", "garbled", "other", "write", "refuse"}
INVARIANTS
    InOrder
    DrainedMeansSettled
    Accounts
    CountersTellOutcomes
    ViewMissesAtMostOne
CHECK_DEADLOCK FALSE
