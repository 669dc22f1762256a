\* Frames that arrive in any pieces, two at a time, and some that are longer
\* than the buffer.
SPECIFICATION FairSpec
CONSTANTS
    Header = 2
    BufSize = 8
    Sizes = {1, 2, 9}
    Unanswered = 2
    Split = TRUE
    MaxFrames = 5
INVARIANTS
    NothingLeftOver
PROPERTIES
    ShortReads
    AllRead
CHECK_DEADLOCK FALSE
