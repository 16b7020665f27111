SPECIFICATION MCTunnelsSpec
CONSTANTS
    None = None
    Starts <- MCStarts
    Stops = {k1}
    Dials = {x1}
    Fronts = {"lwip", "h1", "h1tls", "h2"}
    Backs = {"tcp", "ws", "pipe"}
    MaxBytes = 2
INVARIANTS
    TunnelsInHand
    EofAfterAllBytes
PROPERTIES
    CallsReturn
    EndsArePassedOn
    BytesPassThrough
CHECK_DEADLOCK FALSE
