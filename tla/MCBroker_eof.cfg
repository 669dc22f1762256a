\* A source that closes its connection.
SPECIFICATION FairSpec
CONSTANTS
    Sources = {"s1"}
    Targets = {"a", "b"}
    Workers = {w1, w2}
    Route <- PlainRoute
    Rules <- PlainRules
    MaxLines = 1
    HasMonitor = TRUE
    Faults = {"eof"}
PROPERTY
    EOFEndsSource
CHECK_DEADLOCK FALSE
