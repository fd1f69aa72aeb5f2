\* Two messages of one implementation and a segment of another, with the count
\* of a first, a middle or a last one.
CONSTANTS
    Writer = {w1, w2}
    NoWriter = NoWriter
    Reliabilities = {TRUE}
    SegmentSize = 2
    MaxSegments = 3
    Sizes = {4}
    MaxMessages = 1
    Foreign = {0, 1, 2}
    MaxForeign = 1
    Buffer = 1
SPECIFICATION FairSpec
INVARIANTS
    CountsDown
PROPERTIES
    CloseEnds
    Delivered
CHECK_DEADLOCK FALSE
