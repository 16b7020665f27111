------------------------------- MODULE MCDialing -------------------------------
(*****************************************************************************)
(* Dialing, for TLC: a behavior is the building of a dialer from a config    *)
(* text, one DialStream of the Happy Eyeballs dialer, one call of a function *)
(* that opens several resources in a row, or a SOCKS5 handshake with the     *)
(* datagrams after it. The other parts keep a first state.                   *)
(*****************************************************************************)
EXTENDS HappyEyeballs, Teardown, Socks5, ConfigUrl

VARIABLE layer

dialingVars == <<vars, tearVars, socksVars, configVars, layer>>

Answer(e, four, six) == [err |-> e, v4 |-> four, v6 |-> six]

\* Each lookup may fail, find nothing or an address of its family; one of them may
\* also return both families, as a system resolver does.
MCAnswers == [l \in {"A", "AAAA"} |->
    {Answer("error", 0, 0), Answer("nil", 0, 0)} \cup
    (IF l = "A" THEN {Answer("nil", 1, 0), Answer("nil", 1, 1)} ELSE {Answer("nil", 0, 1)})]

MCPayloads == {<<>>, <<"a">>, <<"a", "b">>, <<"a", "b", "c", "d">>}

Part(type, opts) == [type |-> type, opts |-> opts]

\* One part of each shape: wrappers of streams, of both kinds and of all three, parts
\* that need both kinds below, leaves, and a part or an option nobody knows.
MCParts == {
    Part("split", {"number"}), Part("split", {"bogus"}), Part("override", {"host"}),
    Part("ss", {"server", "user"}), Part("socks5", {"server"}), Part("do53", {"address"}),
    Part("do53", {}), Part("ws", {"tcp_path"}), Part("ws", {"tcp_path", "udp_path"}),
    Part("dnstt", {"domain", "pubkey"}), Part("dnstt", {"domain", "pubkey", "doh", "udp"}),
    Part("turn", {"server", "user", "peer"}), Part("h3connect", {"server", "plain"}),
    Part("h2connect", {"server", "user", "plain"}),
    Part("h2connect", {"server", "user", "plain", "sni", "auth"}), Part("unknown", {})}

MCDialingInit ==
    /\ layer \in {"config", "eyeballs", "teardown", "socks5"}
    /\ Init /\ TearInit /\ SocksInit /\ ConfigInit
    /\ layer # "config" => ~resolver
    /\ layer # "teardown" => proc = "tls"
    /\ layer # "socks5" =>
         cred = "none" /\ script = <<"v4", "m0">>

MCDialingNext ==
    /\ layer' = layer
    /\ \/ layer = "config" /\ ConfigNext /\ UNCHANGED <<vars, tearVars, socksVars>>
       \/ layer = "eyeballs" /\ Next /\ UNCHANGED <<tearVars, socksVars, configVars>>
       \/ layer = "teardown" /\ TearNext /\ UNCHANGED <<vars, socksVars, configVars>>
       \/ layer = "socks5" /\ SocksNext /\ UNCHANGED <<vars, tearVars, configVars>>

\* Only the Happy Eyeballs dialer is fair here, so only of it anything is expected.
MCDialingSpec == /\ MCDialingInit
                 /\ [][MCDialingNext]_dialingVars
                 /\ layer = "eyeballs" => Fairness

\* A dialer is built through every part of its text and for what it needs of each, and
\* of a dial or a start that fails half-way nothing stays open (config.go:72, module.go:43).
BuiltWhole == TornDown /\ BuildSound

\* Every address that arrives is dialed unless the call ends, the call returns once
\* its lookups and dials have, and no attempt outlives it for good.
DialEnds == layer = "eyeballs" => EveryAddressTried /\ CallReturns /\ AttemptsEnd
===============================================================================
