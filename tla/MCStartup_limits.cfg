\* A rate limit whose period does not parse.
SPECIFICATION Spec
CONSTANTS
    Sources = {"s1"}
    Targets = {"a"}
    Providers <- OneKnown
    Route <- OneRoute
    RateLimit <- Misspelt
    NumWorkers = 1
    WebPort = 1
    Ports = {1, 2, 3, 4}
    Ephemeral = {2, 3, 4}
    MaxForeign = 0
    Faults = {}
INVARIANT
    LimitsInForce
CHECK_DEADLOCK FALSE
