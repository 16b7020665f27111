------------------------------- MODULE Teardown -------------------------------
(*****************************************************************************)
(* The functions of the SDK that open several resources in a row and must    *)
(* give them back when a later step fails: dialers, packet listeners, DNS    *)
(* queries and the start of a proxy server. Each is a row of steps; a step   *)
(* takes a resource or fails, and the code that fails releases what its undo *)
(* list says. A successful call hands a connection to the caller, whose      *)
(* Close releases the rest.                                                  *)
(*****************************************************************************)
EXTENDS Naturals, Sequences, FiniteSets

CONSTANT Procs    \* the functions to run

ASSUME ProcsAssumption ==
    Procs \subseteq {"socks5", "socks5_packet", "turn", "turn_dtls", "tls", "h2", "shadowsocks",
                    "tlsfrag", "disorder", "dns_udp", "dns_stream", "dns_tls", "run_proxy"}

VARIABLES proc,    \* the function that is called
          at,      \* the step it is at
          held,    \* resources that are open
          phase,   \* "call" | "undo" | "failed" | "open" | "closing" | "closed"
          todo     \* releases that are still to be made

tearVars == <<proc, at, held, phase, todo>>

Takes(r, undo) == [gets |-> {r}, undo |-> undo]
Does(undo) == [gets |-> {}, undo |-> undo]

\* connectAndRequest and DialStream
Socks5Steps == << Takes("proxy", <<>>), Does(<<"proxy">>) >>

\* ListenPacket: the address of the reply is parsed when it is unspecified, then
\* the packet endpoint is dialled; Close closes both connections.
Socks5PacketSteps == << Takes("control", <<>>), Does(<<"control">>),
                        Does(<<>>), Takes("packets", <<"control">>) >>
Socks5PacketClose == <<"control", "packets">>

(* Variant: the permission is refused and the allocation stays. *)
TurnStepsKeep == << Takes("transport", <<>>), Takes("client", <<"transport">>),
                    Does(<<"client", "transport">>), Takes("relay", <<"client", "transport">>),
                    Does(<<"client", "transport">>) >>

\* ListenPacket: socket, NewClient, Listen, Allocate, CreatePermission
TurnSteps == << Takes("transport", <<>>), Takes("client", <<"transport">>),
                Does(<<"client", "transport">>), Takes("relay", <<"client", "transport">>),
                Does(<<"relay", "client", "transport">>) >>

(* Variant: from the socket up. *)
TurnCloseAllUp == <<"transport", "client", "relay">>

\* closeAll
TurnCloseAll == <<"relay", "client", "transport">>

\* cleanupConn.Close: the wrapped connection, then closeAll. The relay of a plain
\* connection is closed by both.
TurnClose(dtls) == (IF dtls THEN <<"dtls">> ELSE <<"relay">>) \o TurnCloseAll

\* dialDTLS, and the failure of its handshake in ListenPacket
TurnDtlsSteps == Append(TurnSteps, Takes("dtls", TurnCloseAll))

\* DialStream and WrapConn
TlsSteps == << Takes("inner", <<>>), Takes("tls", <<"inner">>) >>

\* DialTLSContext of NewH2ProxyTransport
H2Steps == << Takes("inner", <<>>), Takes("tls", <<"inner">>) >>

\* DialStream: LazyWrite of the target's address can fail
ShadowsocksSteps == << Takes("proxy", <<>>), Does(<<"proxy">>) >>

\* NewStreamDialerFunc and NewFixedLenStreamDialer
TlsFragSteps == << Takes("inner", <<>>), Does(<<"inner">>) >>

\* DialStream: the inner connection must be a TCP connection with TCP options
DisorderSteps == << Takes("inner", <<>>), Does(<<>>), Does(<<>>) >>

\* NewUDPResolver: the query ends with the deferred Close, whatever its outcome
DnsUdpSteps == << Takes("socket", <<>>), Does(<<"socket">>) >>

\* streamResolver.Query over NewTCPResolver
DnsStreamSteps == << Takes("inner", <<>>), Does(<<"inner">>) >>

\* streamResolver.Query over NewTLSResolver: WrapConn does not close what it wraps
DnsTlsSteps == << Takes("inner", <<>>), Takes("tls", <<>>), Does(<<"tls", "inner">>) >>

\* RunProxy: the server starts unless the dialer is missing, then the bound
\* address is parsed
RunProxySteps == << Takes("listener", <<>>), Takes("server", <<>>), Does(<<>>) >>

Steps(p) == CASE p = "socks5"        -> Socks5Steps
              [] p = "socks5_packet" -> Socks5PacketSteps
              [] p = "turn"          -> TurnSteps
              [] p = "turn_dtls"     -> TurnDtlsSteps
              [] p = "tls"           -> TlsSteps
              [] p = "h2"            -> H2Steps
              [] p = "shadowsocks"   -> ShadowsocksSteps
              [] p = "tlsfrag"       -> TlsFragSteps
              [] p = "disorder"      -> DisorderSteps
              [] p = "dns_udp"       -> DnsUdpSteps
              [] p = "dns_stream"    -> DnsStreamSteps
              [] p = "dns_tls"       -> DnsTlsSteps
              [] p = "run_proxy"     -> RunProxySteps

\* What Close of the returned connection, the deferred Close of a query and Stop
\* of the proxy release, in their order.
Closes(p) == CASE p \in {"socks5", "shadowsocks"}                -> <<"proxy">>
               [] p = "socks5_packet"                            -> Socks5PacketClose
               [] p \in {"turn", "turn_dtls"}                    -> TurnClose(p = "turn_dtls")
               [] p \in {"tls", "h2", "dns_tls"}                 -> <<"tls", "inner">>
               [] p \in {"tlsfrag", "disorder", "dns_stream"}    -> <<"inner">>
               [] p = "dns_udp"                                  -> <<"socket">>
               [] p = "run_proxy"                                -> <<"server", "listener">>

\* What a resource needs to be open while it is, and when it is closed: a TURN
\* allocation is given back with a request through its client and socket, DTLS and
\* TLS say goodbye through what they run over.
Needs(r) == CASE r = "client" -> {"transport"}
              [] r = "relay"  -> {"client", "transport"}
              [] r = "dtls"   -> {"relay", "client", "transport"}
              [] r = "tls"    -> {"inner"}
              [] r = "server" -> {"listener"}
              [] OTHER        -> {}

-------------------------------------------------------------------------------

TearInit == /\ proc \in Procs
            /\ at = 1 /\ held = {} /\ phase = "call" /\ todo = <<>>

Succeeds == /\ phase = "call"
            /\ held' = held \cup Steps(proc)[at].gets
            /\ IF at = Len(Steps(proc)) THEN phase' = "open" /\ at' = at
                                        ELSE phase' = phase /\ at' = at + 1
            /\ UNCHANGED <<proc, todo>>

Fails == /\ phase = "call"
         /\ phase' = "undo"
         /\ todo' = Steps(proc)[at].undo
         /\ UNCHANGED <<proc, at, held>>

\* Releasing what is no longer open only reports an error.
Releases == /\ phase \in {"undo", "closing"} /\ todo # <<>>
            /\ held' = held \ {Head(todo)}
            /\ todo' = Tail(todo)
            /\ UNCHANGED <<proc, at, phase>>

Returns == /\ phase \in {"undo", "closing"} /\ todo = <<>>
           /\ phase' = IF phase = "undo" THEN "failed" ELSE "closed"
           /\ UNCHANGED <<proc, at, held, todo>>

CallerCloses == /\ phase \in {"open", "closed"}
                /\ phase' = "closing"
                /\ todo' = Closes(proc)
                /\ UNCHANGED <<proc, at, held>>

TearNext == Succeeds \/ Fails \/ Releases \/ Returns \/ CallerCloses

TearSpec == TearInit /\ [][TearNext]_tearVars

-------------------------------------------------------------------------------

\* The failures that keep something open: the SOCKS5 control connection when the
\* bound address cannot be completed, the connection a disorder dialer cannot use,
\* the connection of a DNS query whose TLS handshake fails, the listener of a proxy
\* without a dialer, and a proxy that serves but could not tell its address.
KnownLeaks == CASE proc = "socks5_packet" /\ at = 3 -> {"control"}
                [] proc = "disorder" /\ at > 1      -> {"inner"}
                [] proc = "dns_tls" /\ at = 2       -> {"inner"}
                [] proc = "run_proxy" /\ at = 2     -> {"listener"}
                [] proc = "run_proxy" /\ at = 3     -> {"listener", "server"}
                [] OTHER                            -> {}

\* A call that fails, at whatever step, leaves nothing open but the known leaks,
\* and a connection that was closed nothing at all.
NothingLeaks == /\ phase = "failed" => held = KnownLeaks
                /\ phase = "closed" => held = {}

\* Nothing is closed under something that still needs it: an allocation is given
\* back before its client and socket go, also when a later step has failed.
UsersGoFirst == \A r \in held: Needs(r) \subseteq held

\* What a call has opened is taken down, completely and from the top.
TornDown == NothingLeaks /\ UsersGoFirst
===============================================================================
