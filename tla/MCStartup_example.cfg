\* The providers that _docs/config-example.yaml names; nothing fails.
SPECIFICATION Spec
CONSTANTS
    Sources = {"s1"}
    Targets = {"a"}
    Providers <- Example
    Route <- OneRoute
    RateLimit <- OneLimit
    NumWorkers = 1
    WebPort = 1
    Ports = {1, 2, 3, 4}
    Ephemeral = {2, 3, 4}
    MaxForeign = 0
    Faults = {}
PROPERTY
    ExampleRuns
CHECK_DEADLOCK FALSE
