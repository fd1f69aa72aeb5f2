\* Every kind of signal, a buffer that can be full, and every stage failing.
CONSTANTS
    Capacity = 2
    MaxSignals = 3
    Kinds = {"answer", "candidate", "bad", "error", "other"}
SPECIFICATION FairSpec
INVARIANTS
    TypeOK
    NothingLeft
    ListensWhileLive
PROPERTIES
    DialEnds
    SignalsServed
CHECK_DEADLOCK FALSE
