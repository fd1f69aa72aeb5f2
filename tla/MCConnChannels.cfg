\* A Listener whose peer opens both channels, one twice or an invalid one, and
\* a Dialer whose peer opens channels although it may not.
CONSTANTS
    Channel = {reliable, unreliable}
    Invalid = Invalid
    Roles = {"Dialer", "Listener"}
    MaxOpenings = 3
    MaxFires = 2
SPECIFICATION FairSpec
INVARIANTS
    ReadyHasChannels
    ExposedClosed
PROPERTIES
    CloseEnds
CHECK_DEADLOCK FALSE
