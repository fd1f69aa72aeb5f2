\* Offers for one key and one admission slot: an owner and its replacement,
\* remote errors, a failing signaling, and Close.
CONSTANTS
    Key = {k1}
    Neg = {n1, n2}
    NoNeg = NoNeg
    Incoming = {"offer", "error"}
    Caller = {t1}
    MaxNegotiations = 1
    MaxPending = 0
    TrickleICE = FALSE
SPECIFICATION Spec
SYMMETRY Symmetry
INVARIANTS
    TypeOK
    KeyReserved
    ClosedOwnerRemoved
    FailedConnReleased
    ShutdownComplete
PROPERTIES
    ImplementsSession
CHECK_DEADLOCK FALSE
