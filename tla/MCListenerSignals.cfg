\* One offer whose candidates and errors are delivered while it is negotiated,
\* and the progress of its negotiation, its calls and its closure.
CONSTANTS
    Key = {k1}
    Neg = {n1}
    NoNeg = NoNeg
    Incoming = {"candidate", "badCandidate", "error"}
    Caller = {t1}
    MaxNegotiations = 1
    MaxPending = 1
    TrickleICE = TRUE
SPECIFICATION FairSpec
INVARIANTS
    PeerErrorEndsConn
    CandidateKept
    NothingStranded
PROPERTIES
    Released
    CallReturns
    ClosureEnds
CHECK_DEADLOCK FALSE
