SPECIFICATION DeviceFairSpec
CONSTANTS
    StackPackets = {p1, p2}
    Writes = {}
    MaxCalls = 3
PROPERTIES
    ReadReturns
CHECK_DEADLOCK FALSE
