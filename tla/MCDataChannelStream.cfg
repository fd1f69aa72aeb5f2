\* Two goroutines send messages of one and two segments, and one that takes too
\* many, while either Conn is closed; or, on the channel that loses and
\* reorders, messages of one segment.
CONSTANTS
    Writer = {w1, w2}
    NoWriter = NoWriter
    Reliabilities = {TRUE, FALSE}
    SegmentSize = 2
    MaxSegments = 2
    Sizes = {1, 4, 7}
    MaxMessages = 2
    Foreign = {}
    MaxForeign = 0
    Buffer = 0
SPECIFICATION Spec
SYMMETRY Symmetry
INVARIANTS
    TypeOK
    PacketsWhole
PROPERTIES
    ImplementsStream
CHECK_DEADLOCK FALSE
