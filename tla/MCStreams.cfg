SPECIFICATION StreamsSpec
CONSTANTS
    PayloadMax = 3
    Overhead = 1
    AddrLen = 2
    TotalBytes = 6
    HeaderLen = 2
    MaxRecord = 3
    FragStreamLen = 7
    Kinds = {"len", "hello"}
    Resumers = {"hello"}
    Conns = {c1, c2}
    DisorderAt = 1
    SplitStreamLen = 5
    DefaultHops = 64
    SplitLengths <- MCSplits
    BufferSize = 8
    SaltSize = 2
    TagSize = 2
    AddrSize = 1
    Peers = {p1, p2}
    Remote = p1
    MaxPayload = 4
INVARIANTS
    ChunksDecrypt
    OutputIsFragmented
    SegmentsAsAsked
PROPERTIES
    IsPipe
    WrittenArrives
    PacketsAreWhole
CHECK_DEADLOCK FALSE
