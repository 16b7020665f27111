------------------------------- MODULE ConfigUrl -------------------------------
(*****************************************************************************)
(* x/configurl: a config text is a chain of parts, "first|second|...", each  *)
(* dialing through the parts before it. A text is read part by part, then    *)
(* one object of the kind asked for is built by asking the last part, which  *)
(* has the objects it needs built from the parts before it, and so on down   *)
(* to the plain TCP and UDP objects.                                         *)
(*                                                                           *)
(* A part is a type with the set of the options its URL gives; an option     *)
(* that is malformed or given twice is the option "bogus". Userinfo is the   *)
(* option "user", a host with its port "server", the number after the colon  *)
(* of split, tlsfrag and disorder "number"; the legacy form of a Shadowsocks *)
(* URL gives both of what it needs. SOCKS5 credentials are taken to be short *)
(* enough.                                                                   *)
(*****************************************************************************)
EXTENDS Naturals, Sequences, FiniteSets, SequencesExt

CONSTANTS Parts,    \* the parts a text is made of, [type, opts]
          MaxParts  \* the longest text

ASSUME ConfigAssumption == MaxParts \in Nat /\ \A part \in Parts : IsFiniteSet(part.opts)

VARIABLES config,    \* the parts read so far
          resolver,  \* does the context carry a default DNS resolver?
          built      \* what the call returned: at most one result

configVars == <<config, resolver, built>>

ObjectTypes == {"stream", "packet", "listener"}

(* Which parts are there *)

ConnectTypes == {"httpconnect", "h2connect", "h3connect"}

Registered == [
    stream   |-> {"disorder", "dnstt", "do53", "doh", "override", "socks5", "split", "ss",
                  "tls", "tlsfrag", "turn", "ws"} \cup ConnectTypes,
    packet   |-> {"override", "socks5", "ss", "turn", "ws"},
    listener |-> {"socks5", "ss", "turn"}]

Socks5Bases(kind) == IF kind = "stream" THEN <<"stream">> ELSE <<"stream", "packet">>

ShadowsocksBases(kind) == IF kind = "stream" THEN <<"stream">> ELSE <<"packet">>

(* Variant: the resolver of do53 is built on streams alone. *)
BasesWithoutPackets(type, kind) ==
    CASE type \in {"turn", "dnstt", "h3connect"} -> <<>>
      [] type = "socks5"                         -> Socks5Bases(kind)
      [] type = "ss"                             -> ShadowsocksBases(kind)
      [] type \in {"ws", "do53"}                 -> <<"stream">>
      [] OTHER                                   -> <<kind>>

\* What a part has built from the parts before it, in this order.
Bases(type, kind) ==
    CASE type \in {"turn", "dnstt", "h3connect"} -> <<>>
      [] type = "do53"                           -> <<"stream", "packet">>
      [] type = "socks5"                         -> Socks5Bases(kind)
      [] type = "ss"                             -> ShadowsocksBases(kind)
      [] type = "ws"                             -> <<"stream">>
      [] OTHER                                   -> <<kind>>

(* The options of a part *)

TlsOptions         == {"sni", "certname"}
OverrideOptions    == {"host", "port"}
WsOptions          == {"tcp_path", "udp_path"}
ShadowsocksOptions == {"server", "user"}
TurnOptions        == {"server", "user", "peer"}
DnsttOptions       == {"domain", "pubkey"}
NumberTypes        == {"split", "tlsfrag", "disorder"}

\* The parsers that refuse an option they do not know, with those they know; "user"
\* and "server" are not options of the query.
KnownOptions == [
    ws       |-> WsOptions,
    do53     |-> {"address"},
    doh      |-> {"name", "address"},
    override |-> OverrideOptions,
    tls      |-> TlsOptions,
    connect  |-> {"plain", "auth", "user", "server"} \cup TlsOptions]

Parser(type) == IF type \in ConnectTypes THEN "connect" ELSE type

WsPath(kind) == IF kind = "stream" THEN "tcp_path" ELSE "udp_path"

RequiredOptions(type, kind) ==
    CASE type = "ws"           -> {WsPath(kind)}
      [] type = "do53"         -> {"address"}
      [] type = "doh"          -> {"name"}
      [] type \in ConnectTypes -> {"server"}
      [] type = "ss"           -> ShadowsocksOptions
      [] type = "turn"         -> TurnOptions
      [] type = "dnstt"        -> DnsttOptions
      [] type \in NumberTypes  -> {"number"}
      [] OTHER                 -> {}

\* DNSTT asks one resolver; with none given, the one the context carries.
ResolverChosen(opts, hasResolver) ==
    LET chosen == Cardinality(opts \cap {"doh", "dot", "udp"})
    IN  chosen = 1 \/ (chosen = 0 /\ hasResolver)

OptionsAccepted(part, kind, hasResolver) ==
    /\ Parser(part.type) \in DOMAIN KnownOptions =>
         part.opts \subseteq KnownOptions[Parser(part.type)]
    /\ RequiredOptions(part.type, kind) \subseteq part.opts
    /\ part.type = "dnstt" => ResolverChosen(part.opts, hasResolver)

\* The options of an order that are in S: met[i] are those among the first i.
Met(order, S) ==
    LET met[i \in 0..Len(order)] ==
            IF i = 0 THEN <<>>
            ELSE IF order[i] \in S THEN Append(met[i - 1], order[i]) ELSE met[i - 1]
    IN  met[Len(order)]

(* Variant: each TLS option is applied where it is met. *)
ParseConnectOptionsInMapOrder(opts, order) ==
    [transport |-> Met(order, {"plain"} \cup TlsOptions),
     client    |-> (IF "user" \in opts THEN <<"user">> ELSE <<>>) \o Met(order, {"auth"})]

\* The options of a CONNECT part come in the order of a Go map. Those of the transport
\* are applied in the order they were collected, those of TLS as one after all others;
\* a header replaces what was there, the one of the userinfo was there first.
ParseConnectOptions(opts, order) ==
    [transport |-> Met(order, {"plain"}) \o
                     (IF opts \cap TlsOptions # {} THEN <<"tls">> ELSE <<>>),
     client    |-> (IF "user" \in opts THEN <<"user">> ELSE <<>>) \o Met(order, {"auth"})]

\* The proxy a CONNECT part talks to: in the clear or not, and the header it sends.
Proxy(part, order) ==
    LET parsed == ParseConnectOptions(part.opts, order)
    IN  [plain  |-> /\ part.type # "h3connect"
                    /\ parsed.transport # <<>>
                    /\ Last(parsed.transport) = "plain",
         header |-> IF parsed.client = <<>> THEN "none" ELSE Last(parsed.client)]

(* Building *)

Base(kind) == [ok |-> TRUE, objects |-> {<<kind, 0>>}, sockets |-> 0]

Refusal(sockets) == [ok |-> FALSE, objects |-> {}, sockets |-> sockets]

(* Variant: a leaf is accepted on top of other parts. *)
MayStandAnywhere(part, n) == TRUE

\* TURN and DNSTT are leaves: they refuse to dial through other parts.
MayStandAt(part, n) == part.type \in {"turn", "dnstt"} => n = 1

\* A part has what it needs built below, up to the first refusal, and then has its own
\* options read. What was opened below stays open when the part is refused. objects are
\* the objects a result dials through, each with the place of its part; sockets counts
\* the UDP sockets that h3connect parts opened, below is what the parts below make.
BuildPart(part, n, kind, hasResolver, below) ==
    LET bases  == Bases(part.type, kind)
        Tried(i) == \A j \in 1..(i - 1) : below[bases[j]].ok
        SocketsOf(i) == IF i \in DOMAIN bases /\ Tried(i) THEN below[bases[i]].sockets ELSE 0
        opened == SocketsOf(1) + SocketsOf(2)
    IN  IF part.type \notin Registered[kind] THEN Refusal(0)
        ELSE IF /\ MayStandAt(part, n)
                /\ \A i \in DOMAIN bases : below[bases[i]].ok
                /\ OptionsAccepted(part, kind, hasResolver)
        THEN [ok      |-> TRUE,
              objects |-> {<<kind, n>>} \cup UNION {below[bases[i]].objects : i \in DOMAIN bases},
              sockets |-> opened + (IF part.type = "h3connect" THEN 1 ELSE 0)]
        ELSE Refusal(opened)

\* What the providers return for the first n parts of a config, for each kind.
NewInstance(parts, hasResolver) ==
    LET instance[n \in 0..Len(parts)] ==
            [kind \in ObjectTypes |->
                IF n = 0 THEN Base(kind)
                ELSE BuildPart(parts[n], n, kind, hasResolver, instance[n - 1])]
    IN  instance[Len(parts)]

(* The system: a text is read, then built from *)

ConfigInit == config = <<>> /\ resolver \in BOOLEAN /\ built = {}

\* ParseConfig reads one more part; a part that is no URL ends the call.
ReadPart ==
    /\ built = {} /\ Len(config) < MaxParts
    /\ \/ /\ \E part \in Parts : config' = Append(config, part)
          /\ UNCHANGED built
       \/ /\ built' = {[kind |-> "none", result |-> Refusal(0), proxies |-> {}]}
          /\ UNCHANGED config
    /\ UNCHANGED resolver

\* NewStreamDialer, NewPacketDialer or NewPacketListener; proxies is what the last part
\* may turn out to be, over the orders of the map.
Build ==
    /\ built = {}
    /\ \E kind \in ObjectTypes :
         built' = {[kind   |-> kind,
                    result |-> NewInstance(config, resolver)[kind],
                    proxies |-> IF config # <<>> /\ Last(config).type \in ConnectTypes
                                THEN {Proxy(Last(config), order) :
                                        order \in SetToSeqs(Last(config).opts \ {"user", "server"})}
                                ELSE {}]}
    /\ UNCHANGED <<config, resolver>>

ConfigNext == ReadPart \/ Build

ConfigSpec == ConfigInit /\ [][ConfigNext]_configVars

(* Properties *)

Result == (CHOOSE b \in built : TRUE).result
Kind   == (CHOOSE b \in built : TRUE).kind

\* The parts before the last one that opens its own way out carry nothing.
FirstUsed == LET own == {i \in DOMAIN config : config[i].type \in {"turn", "dnstt", "h3connect"}}
             IN  IF own = {} THEN 0 ELSE CHOOSE i \in own : \A j \in own : j <= i

\* What the parts up to n have to carry, from the top: streams are carried for streams,
\* for the packets of SOCKS5 and for WebSockets; packets for packets, for a resolver
\* that asks by UDP, and for the listeners of SOCKS5 and Shadowsocks.
Carried ==
    LET above[n \in 0..Len(config)] ==
            IF n = Len(config) THEN {Kind}
            ELSE LET over == above[n + 1]
                     type == config[n + 1].type
                 IN  {k \in {"stream", "packet"} :
                        /\ n >= FirstUsed
                        /\ IF k = "stream"
                           THEN "stream" \in over \/ type = "socks5" \/ (type = "ws" /\ over # {})
                           ELSE \/ "stream" \in over /\ type = "do53"
                                \/ "packet" \in over /\ type # "ws"
                                \/ "listener" \in over}
    IN  above

\* Whatever is built dials through every part of the text from the last one that opens
\* its own way out, in every kind the part above it needs, and through nothing else: no
\* part is skipped, and no query or datagram goes around a part (module.go:43, config.go:72).
NothingBypassed == Result.ok =>
    Result.objects = {o \in ObjectTypes \X (FirstUsed..Len(config)) : o[1] \in Carried[o[2]]}

\* A build is refused for a part that cannot carry what the parts above it need or whose
\* options are wrong, or for one that opens its own way out on top of another; and then
\* it is always refused (turn.go:87, dnstt.go:130, config.go:81).
RefusedForCause == Kind # "none" =>
    (Result.ok <=> \A n \in 1..Len(config) : n >= FirstUsed => \A k \in Carried[n] :
        /\ config[n].type \in Registered[k]
        /\ OptionsAccepted(config[n], k, resolver)
        /\ config[n].type \in {"turn", "dnstt"} => n = 1)

\* What a CONNECT part talks to does not depend on the order of a map: in the clear if it
\* is asked to be and no TLS name is given, with the header of auth over the userinfo's
\* (httpconnect.go:66).
ConnectOrderFree == \A b \in built : \A p \in b.proxies :
    LET last == Last(config)
    IN  /\ p.plain <=> /\ last.type # "h3connect" /\ "plain" \in last.opts
                       /\ last.opts \cap TlsOptions = {}
        /\ p.header = IF "auth" \in last.opts THEN "auth"
                      ELSE IF "user" \in last.opts THEN "user" ELSE "none"

\* What is built holds sockets of its own exactly if an h3connect part is in use: none
\* is opened for parts that carry nothing (httpconnect.go:182).
SocketsAreUsed == Result.ok =>
    (Result.sockets > 0 <=> \E n \in 1..Len(config) : /\ <<"stream", n>> \in Result.objects
                                                      /\ config[n].type = "h3connect")

\* All of it, for one call.
BuildSound == built # {} =>
    NothingBypassed /\ RefusedForCause /\ ConnectOrderFree /\ SocketsAreUsed

\* Not so: a part that two parts above need is built twice, so that an h3connect part
\* opens a socket for each, although httpconnect.go:174 calls the socket shared; and a
\* refusal by a part above leaves it open.
SocketIsShared == built # {} /\ Result.ok => Result.sockets <= 1
RefusalLeavesNothing == built # {} /\ ~Result.ok => Result.sockets = 0
===============================================================================
