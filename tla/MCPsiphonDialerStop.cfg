SPECIFICATION PsiphonFairSpec
CONSTANTS
    None = None
    Starts = {a, b, c}
    Stops = {k1}
    Dials = {}
PROPERTIES
    StopIsComplete
CHECK_DEADLOCK FALSE
