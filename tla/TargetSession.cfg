\* logz.io, whose processing of a line may panic, on a connection that may break
\* and on which frames may be read short.
SPECIFICATION FairSpec
CONSTANTS
    Provider = "logzio"
    Kinds = {"full", "bare"}
    MaxLines = 5
    HasMonitor = TRUE
    Faults = {"cut", "store", "garbled"}
INVARIANTS
    AckedIsHandled
PROPERTIES
    AwaitEnds
    ServerEnds
CHECK_DEADLOCK FALSE
