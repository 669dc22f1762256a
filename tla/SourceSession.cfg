\* A connection that may break and on which a frame may be misread.
SPECIFICATION FairSpec
CONSTANTS
    MaxLines = 6
    Faults = {"cut", "garbled"}
INVARIANTS
    OneOutstanding
    AckedIsTaken
PROPERTIES
    AwaitEnds
    DummyEnds
CHECK_DEADLOCK FALSE
