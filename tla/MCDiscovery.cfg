\* One peer and the network 0, with clocks short enough for a response to
\* expire before its address and an address before the clock stops; numbers of 8
\* bits in groups of 3, the last of which is not full either.
CONSTANTS
    NetworkID = {peer}
    Local = Local
    Zero = Zero
    Place = {place}
    Notifier = {n1, n2, n3}
    Caller = {caller}
    None = None
    AddressLifetime = 4
    ResponseLifetime = 1
    Stall = 1
    MaxTime = 5
    Width = 8
    Group = 3
    Version = 7
    MaxDeclared = 1140
    LengthModulus = 65536
    MaxData = 70000
SPECIFICATION FairSpec
CONSTRAINT TablesOrNotifiers
INVARIANTS
    NotifiersExact
    StoppedSilent
    PacketRead
PROPERTIES
    ListedReachable
    CloseEnds
CHECK_DEADLOCK FALSE
