\* A frame that arrives in pieces.
SPECIFICATION Spec
CONSTANTS
    Header = 2
    BufSize = 8
    Sizes = {1, 2}
    Unanswered = 1
    Split = TRUE
    MaxFrames = 3
INVARIANT
    SingleMessage
CHECK_DEADLOCK FALSE
