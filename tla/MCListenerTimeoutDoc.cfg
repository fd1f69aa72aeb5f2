\* The documented reply to a NegotiationContext deadline.
CONSTANTS
    Key = {k1}
    Neg = {n1}
    NoNeg = NoNeg
    Incoming = {"offer"}
    Caller = {t1}
    MaxNegotiations = 1
    MaxPending = 0
    TrickleICE = FALSE
SPECIFICATION Spec
PROPERTIES
    NegotiationTimeoutSignaled
CHECK_DEADLOCK FALSE
