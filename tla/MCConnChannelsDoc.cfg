\* conn.close against the comment on Conn.Close.
CONSTANTS
    Channel = {reliable, unreliable}
    Invalid = Invalid
    Roles = {"Dialer"}
    MaxOpenings = 0
    MaxFires = 2
SPECIFICATION Spec
INVARIANTS
    ClosesChannels
CHECK_DEADLOCK FALSE
