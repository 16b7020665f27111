-------------------------------- MODULE Socks5 --------------------------------
(*****************************************************************************)
(* The SOCKS5 client of src/transport/socks5: the request that sends method, *)
(* credentials and command in one packet and then reads the server's answers *)
(* field by field, and the datagrams of a UDP association. Bytes are named   *)
(* by what they say: an IPv4 address is four bytes "x". A datagram that is   *)
(* longer than the client's buffer is cut by the read.                       *)
(*****************************************************************************)
EXTENDS Naturals, Sequences, SequencesExt

CONSTANTS BufSize,     \* clientUDPBufferSize, 16 KiB in the code
          Payloads,    \* payloads of datagrams, sequences of bytes
          ReadSizes    \* sizes of the buffers ReadFrom is called with

ASSUME SocksAssumption == /\ BufSize \in Nat /\ ReadSizes \subseteq Nat
                          /\ \A p \in Payloads: p \in Seq(Range(p))

VARIABLES cred,      \* the client has credentials: "none" | "userpass"
          script,    \* what the server sends until it closes the connection
          granted,   \* length of the part of script that grants the request, 0 if none does
          arrived,   \* bytes of script that have arrived
          closed,    \* the server closes the connection behind them
          pos,       \* bytes the client has read
          expect,    \* the field read next, "done" or "failed"
          datagram,  \* the last datagram read: [addr, payload], and what ReadFrom
          outcome    \* returned for it

socksVars == <<cred, script, granted, arrived, closed, pos, expect, datagram, outcome>>

Bytes(b, n) == [i \in 1..n |-> b]

\* appendSOCKS5Address: ATYP, address, port. A name carries its length.
Addr == [ip4  |-> <<"ip4">> \o Bytes("x", 4) \o Bytes("p", 2),
         ip6  |-> <<"ip6">> \o Bytes("x", 16) \o Bytes("p", 2),
         name |-> <<"name", "len3">> \o Bytes("x", 3) \o Bytes("p", 2),
         unit |-> <<"name", "len1">> \o Bytes("x", 1) \o Bytes("p", 2)]
AddrKinds == DOMAIN Addr

\* What the name's length byte says, and how long the address of each type is.
NameLength == [len1 |-> 1, len3 |-> 3]
IpLength == [ip4 |-> 4, ip6 |-> 16]

-------------------------------------------------------------------------------
\* The server, as RFC 1928 and 1929 have it. It refuses the method or the
\* credentials, or answers the request; the target's bytes follow a grant at once.

Reply(rep, kind) == <<"v5", rep, "rsv">> \o Addr[kind]

Scripts(c) ==
  LET method == IF c = "none" THEN <<"v5", "m0">> ELSE <<"v5", "m2">>
      auth == IF c = "none" THEN {<<>>} ELSE {<<"v1", "ok">>}
  IN {<<"v5", "mFF">>, <<"v4", "m0">>}
     \cup {method \o a \o Reply("refused", "ip4"): a \in auth}
     \cup (IF c = "none" THEN {} ELSE {method \o <<"v1", "bad">>})
     \cup {method \o a \o Reply("rep0", k) \o Bytes("data", 2): a \in auth, k \in AddrKinds}

\* The grant ends where the target's bytes begin.
GrantLength(s) == IF "rep0" \in Range(s) THEN Len(s) - 2 ELSE 0

SocksInit == /\ cred \in {"none", "userpass"}
             /\ script \in Scripts(cred)
             /\ granted = GrantLength(script)
             /\ arrived = 0 /\ closed = FALSE
             /\ pos = 0 /\ expect = "method"
             /\ datagram = [addr |-> "none", payload |-> <<>>] /\ outcome = [ok |-> FALSE, payload |-> <<>>]

Arrive == /\ ~closed /\ arrived < Len(script)
          /\ \E n \in (arrived + 1)..Len(script): arrived' = n
          /\ UNCHANGED <<cred, script, granted, closed, pos, expect, datagram, outcome>>

ServerCloses == /\ ~closed
                /\ closed' = TRUE
                /\ UNCHANGED <<cred, script, granted, arrived, pos, expect, datagram, outcome>>

-------------------------------------------------------------------------------
\* request

\* io.ReadFull of n bytes: the answer may come in pieces. next gives the field that
\* is read after them.
ReadsField(field, n, next(_)) ==
  /\ expect = field
  /\ IF arrived - pos >= n
     THEN /\ pos' = pos + n
          /\ expect' = next(SubSeq(script, pos + 1, pos + n))
     ELSE /\ closed
          /\ pos' = pos /\ expect' = "failed"
  /\ UNCHANGED <<cred, script, granted, arrived, closed, datagram, outcome>>

AfterMethod(b) == CASE b[1] # "v5"               -> "failed"
                    [] b[1] = "v5" /\ b[2] = "m0" -> "reply"
                    [] b[1] = "v5" /\ b[2] = "m2" -> "auth"
                    [] OTHER                      -> "failed"

AfterAuth(b) == IF b[1] = "v1" /\ b[2] = "ok" THEN "reply" ELSE "failed"

AfterReply(b) == IF b[1] = "v5" /\ b[2] = "rep0" THEN "atyp" ELSE "failed"

\* readAddr
AfterType(b) == IF b[1] \in {"ip4", "ip6"} THEN b[1] ELSE IF b[1] = "name" THEN "length" ELSE "failed"

AfterLength(b) == b[1]

ToPort(b) == "port"

AfterPort(b) == "done"

(* Variant: an IPv6 address is read like an IPv4 address. *)
ReadAddressFour == \/ \E k \in {"ip4", "ip6"}: ReadsField(k, 4, ToPort)
                   \/ \E l \in DOMAIN NameLength: ReadsField(l, NameLength[l], ToPort)

ReadAddress == \/ \E k \in {"ip4", "ip6"}: ReadsField(k, IpLength[k], ToPort)
               \/ \E l \in DOMAIN NameLength: ReadsField(l, NameLength[l], ToPort)

Request == \/ ReadsField("method", 2, AfterMethod)
           \/ ReadsField("auth", 2, AfterAuth)
           \/ ReadsField("reply", 3, AfterReply)

BoundAddress == \/ ReadsField("atyp", 1, AfterType)
                \/ ReadsField("length", 1, AfterLength)
                \/ ReadAddress
                \/ ReadsField("port", 2, AfterPort)

-------------------------------------------------------------------------------
\* Datagrams of an association.

\* WriteTo: reserved bytes, fragment number, address, payload. The server's
\* datagrams have the same form.
Pack(kind, payload) == <<"0", "0", "frag0">> \o Addr[kind] \o payload

\* Where the payload of a datagram begins behind its header.
HeaderLength(pkt) == 3 + (IF pkt[4] \in DOMAIN IpLength THEN 1 + IpLength[pkt[4]]
                                                        ELSE 2 + NameLength[pkt[5]]) + 2

Refused == [ok |-> FALSE, payload |-> <<>>]

(* Variant: what does not fit into the caller's buffer is dropped. *)
ReadFromCut(pkt, size) ==
  LET read == SubSeq(pkt, 1, IF Len(pkt) < BufSize THEN Len(pkt) ELSE BufSize) IN
  IF Len(read) < 10 \/ HeaderLength(read) > Len(read) THEN Refused
  ELSE LET payload == SubSeq(read, HeaderLength(read) + 1, Len(read))
       IN [ok |-> TRUE, payload |-> SubSeq(payload, 1, IF Len(payload) < size THEN Len(payload) ELSE size)]

\* ReadFrom with a buffer of size bytes
ReadFrom(pkt, size) ==
  LET read == SubSeq(pkt, 1, IF Len(pkt) < BufSize THEN Len(pkt) ELSE BufSize) IN
  IF Len(read) < 10 \/ HeaderLength(read) > Len(read) THEN Refused
  ELSE LET payload == SubSeq(read, HeaderLength(read) + 1, Len(read))
       IN IF Len(payload) > size THEN Refused ELSE [ok |-> TRUE, payload |-> payload]

Receive == /\ expect = "done"
           /\ \E k \in AddrKinds, p \in Payloads, size \in ReadSizes:
                /\ datagram' = [addr |-> k, payload |-> p]
                /\ outcome' = ReadFrom(Pack(k, p), size)
           /\ UNCHANGED <<cred, script, granted, arrived, closed, pos, expect>>

SocksNext == Arrive \/ ServerCloses \/ Request \/ BoundAddress \/ Receive

SocksSpec == SocksInit /\ [][SocksNext]_socksVars

-------------------------------------------------------------------------------

\* A connection is handed out only when the server has granted the request, and
\* its next byte is the first of the target: the handshake is read to its end and
\* not beyond, whatever kind of address the server is bound to and however its
\* answer is cut into packets.
StreamStartsAtTarget == expect = "done" => granted > 0 /\ pos = granted

\* A datagram that ReadFrom returns is whole; one that fits into the buffers is
\* returned, unless it is shorter than the ten bytes ReadFrom asks for.
DatagramIsWhole ==
  LET length == 3 + Len(Addr[datagram.addr]) + Len(datagram.payload) IN
  datagram.addr # "none" /\ length <= BufSize
    => /\ outcome.ok => outcome.payload = datagram.payload
       /\ (\A s \in ReadSizes: Len(datagram.payload) <= s) /\ length >= 10 => outcome.ok

\* The lengths both sides write and read agree, on the stream and in datagrams.
SocksIsExact == StreamStartsAtTarget /\ DatagramIsWhole
===============================================================================
