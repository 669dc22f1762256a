\* Two sources and two targets, one of them perhaps of an unknown provider, and a
\* machine with too few ports when another process takes one.  The nomad source may
\* find that its client cannot start.
SPECIFICATION Spec
CONSTANTS
    Sources = {"s1", "s2"}
    Targets = {"a", "b"}
    Providers <- WithUnknown
    Route <- SharedRoute
    RateLimit <- NoLimits
    NumWorkers = 1
    WebPort = 1
    Ports = {1, 2, 3, 4, 5}
    Ephemeral = {1, 2, 3, 4, 5}
    MaxForeign = 1
    Faults = {"file", "nomad"}
INVARIANTS
    WiredRight
    MapComplete
PROPERTIES
    StartDecides
    AckedIsRouted
CHECK_DEADLOCK FALSE
