SPECIFICATION MCSpec
CONSTANTS
    i1 = i1
    i2 = i2
    ID <- IDs
    MaxDials = 2
    MaxNegs = 2
    MaxTrickles = 1
    Fingerprint = {f1, f2}
    Identity = {identity}
    Candidate = candidate
    Absent = Absent
    MaxCandidates = 4
INVARIANTS
    CancelsOwnDial
    ReplacementSafe
    PeersUnderstand
PROPERTIES
    ImplementsPairing
ACTION_CONSTRAINT TricklesInOrder
CHECK_DEADLOCK FALSE
