\* Two dials of one Client, a Listener that closes and one that follows it.
CONSTANTS
    Client = {c1}
    MaxRequests = 2
    Listener = {l1, l2}
    NoListener = NoListener
    NoRequest = NoRequest
SPECIFICATION ClientSpec
CONSTRAINT OneTrouble
INVARIANTS
    TypeOK
    OwnReply
    PendingExact
    Settled
    AnswerReaches
SYMMETRY Symmetry
CHECK_DEADLOCK FALSE
