\* A line that is read short, and the connector that waits for its OK.
SPECIFICATION FairSpec
CONSTANTS
    Provider = "blackhole"
    Kinds = {"full"}
    MaxLines = 2
    HasMonitor = TRUE
    Faults = {"garbled"}
PROPERTY
    LinesAreAnswered
CHECK_DEADLOCK FALSE
