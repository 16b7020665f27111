SPECIFICATION MCDialingSpec
CONSTANTS
    Lookups = {"A", "AAAA"}
    Answers <- MCAnswers
    MaxAttempts = 3
    Procs = {"socks5", "socks5_packet", "turn", "turn_dtls", "tls", "h2", "shadowsocks",
             "tlsfrag", "disorder", "dns_udp", "dns_stream", "dns_tls", "run_proxy"}
    BufSize = 23
    Payloads <- MCPayloads
    ReadSizes = {1, 3}
    Parts <- MCParts
    MaxParts = 3
INVARIANTS
    DialSound
    BuiltWhole
    SocksIsExact
PROPERTIES
    DialEnds
CHECK_DEADLOCK FALSE
