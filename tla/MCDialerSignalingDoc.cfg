\* A dial whose signaling is down.
CONSTANTS
    Capacity = 1
    MaxSignals = 1
    Kinds = {"answer"}
SPECIFICATION ReturningSpec
PROPERTIES
    SignalingEndsDial
CHECK_DEADLOCK FALSE
