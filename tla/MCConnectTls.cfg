SPECIFICATION StreamRelaySpec
CONSTANTS
    Fronts = {"lwip", "h1", "h1tls", "h2"}
    Backs = {"tcp", "ws", "pipe"}
    MaxBytes = 2
PROPERTIES
    H1BytesPassThrough
CHECK_DEADLOCK FALSE
