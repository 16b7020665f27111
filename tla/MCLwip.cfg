SPECIFICATION MCLwipSpec
CONSTANTS
    StackPackets = {p1, p2, p3}
    Writes = {"w1", "w2"}
    MaxCalls = 3
    Configs = {d1, d2, d3}
    Users = {u1, u2}
    Assocs = {i1, i2}
    Conns = {c1, c2}
    Addrs = {a1}
    Closers = {k1}
    MaxPackets = 3
    QueueCap = 1
    Nil = Nil
    Packets <- MCPackets
INVARIANTS
    CountIsForOwnPacket
    DevicesDoNotOverlap
    RelaySessionsOwned
PROPERTIES
    NobodyIsStuck
CHECK_DEADLOCK FALSE
