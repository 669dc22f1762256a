\* A frame that is longer than the buffer.
SPECIFICATION Spec
CONSTANTS
    Header = 2
    BufSize = 8
    Sizes = {1, 7}
    Unanswered = 1
    Split = FALSE
    MaxFrames = 3
INVARIANT
    SingleMessage
CHECK_DEADLOCK FALSE
