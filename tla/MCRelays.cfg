SPECIFICATION MCRelaysSpec
CONSTANTS
    s1 = s1
    s2 = s2
    s3 = s3
    k1 = k1
    k2 = k2
    Calls <- MCCalls
    Closers <- MCClosers
    Timeout = 3
    Sends <- MCSends
    Owners <- MCClosers
    Timeouts = {1, 2}
INVARIANTS
    TimeoutSafety
    ConnInOneHand
PROPERTIES
    SessionsEnd
    Contracts
CHECK_DEADLOCK FALSE
