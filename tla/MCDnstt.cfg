SPECIFICATION DnsttSpec
CONSTANTS
    Callers = {c1, c2, c3}
    MaxCloses = 1
    Nil = Nil
    Kinds = {"udp", "dot", "doh", "resolver"}
    MaxOut = 1
    PollLimit = 2
    MaxBackoff = 2
    QueueSize = 2
INVARIANTS
    PartsHaveOwner
    OneLiveSession
    PacketsSound
PROPERTIES
    PacketsKeepPolling
CHECK_DEADLOCK FALSE
