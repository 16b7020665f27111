-------------------------- MODULE ShadowsocksPacket --------------------------
(***************************************************************************)
(* transport/shadowsocks packet.go and packet_listener.go under            *)
(* transport.PacketListenerDialer: the packets of one bound connection,    *)
(* with their sizes and the pooled buffer they are packed and unpacked in. *)
(* The network loses, repeats and reorders datagrams, and anybody may send *)
(* one to the local socket.                                                *)
(***************************************************************************)
EXTENDS Integers, FiniteSets, FiniteSetsExt

CONSTANTS
    BufferSize,   \* clientUDPBufferSize
    SaltSize, TagSize,
    AddrSize,     \* bytes of a SOCKS address
    Peers,        \* addresses packets come from
    Remote,       \* the remoteAddr of the connection
    MaxPayload    \* bound: the longest payload and the longest read buffer

ASSUME PacketSizes == /\ Remote \in Peers
                      /\ {BufferSize, SaltSize, TagSize, AddrSize, MaxPayload} \subseteq Nat

VARIABLES
    datagrams,   \* datagrams on the network, to the proxy or from it
    slice,       \* the LazySlice of the call that runs: "none" or "acquired"
    result,      \* what the last call has returned
    foreign      \* Read has met a packet of another sender and goes on

packetVars == <<datagrams, slice, result, foreign>>

Ok(n, from) == [err |-> "nil", n |-> n, from |-> from]
Fails(e) == [err |-> e, n |-> 0, from |-> Remote]

(* Variant: room for the tag is not asked for. *)
PackFitsNoTag(plain) == SaltSize + plain =< BufferSize

\* PackSalt: the salt, the plaintext and the tag fit in the buffer.
PackFits(plain) == SaltSize + plain + TagSize =< BufferSize

\* WriteTo of boundPacketConn.Write: address and payload, encrypted.  A payload
\* that is too long for the buffer makes append move it elsewhere, and PackSalt
\* refuse it.
WritePacket(n) ==
    /\ slice = "none" /\ ~foreign
    /\ IF ~PackFits(AddrSize + n)
       THEN result' = Fails("short buffer") /\ UNCHANGED datagrams
       ELSE \/ /\ datagrams' = datagrams \cup {[from |-> Remote, payload |-> n, genuine |-> TRUE]}
               /\ result' = Ok(n, Remote)
            \/ result' = Fails("write") /\ UNCHANGED datagrams
    /\ UNCHANGED <<slice, foreign>>

\* The proxy relays a packet of some peer, or somebody sends any datagram.
Arrives ==
    /\ \E p \in Peers, n \in 0 .. MaxPayload, g \in BOOLEAN :
          datagrams' = datagrams \cup {[from |-> p, payload |-> n, genuine |-> g]}
    /\ Cardinality(datagrams) < 2
    /\ UNCHANGED <<slice, result, foreign>>

\* packetConn.ReadFrom takes the pooled buffer.
ReadStart ==
    /\ slice = "none"
    /\ slice' = "acquired"
    /\ UNCHANGED <<datagrams, result, foreign>>

\* What a read of the socket leaves of a datagram in a buffer of BufferSize.
FromSocket(d) == Min({BufferSize, SaltSize + AddrSize + d.payload + TagSize})

\* Unpack opens what was packed, unless it was cut short or is not genuine.
Unpacks(d) == d.genuine /\ FromSocket(d) = SaltSize + AddrSize + d.payload + TagSize

(* Variant: a packet that does not fit is cut without an error. *)
CopiedSilently(d, b) == Ok(Min({b, d.payload}), d.from)

\* ReadFrom copies what fits in b bytes and says so when that is not all.
Copied(d, b) == IF b < d.payload THEN [Fails("short buffer") EXCEPT !.n = b]
                ELSE Ok(d.payload, d.from)

\* A datagram is read and unpacked; the buffer goes back to the pool.  Read of
\* boundPacketConn drops a packet of another sender and reads on.
ReadDatagram(b) ==
    /\ slice = "acquired"
    /\ \E d \in datagrams :
          LET r == IF Unpacks(d) THEN Copied(d, b) ELSE Fails("unpack")
          IN IF r.err = "nil" /\ r.from # Remote
             THEN foreign' = TRUE /\ UNCHANGED result
             ELSE foreign' = FALSE /\ result' = r
    /\ slice' = "none"
    /\ UNCHANGED datagrams

\* The read of the socket fails, for instance because it is closed.
ReadFails ==
    /\ slice = "acquired"
    /\ result' = Fails("read") /\ slice' = "none" /\ foreign' = FALSE
    /\ UNCHANGED datagrams

\* The network loses a datagram.
Lose == /\ \E d \in datagrams : datagrams' = datagrams \ {d}
        /\ UNCHANGED <<slice, result, foreign>>

PacketInit == /\ datagrams = {} /\ slice = "none" /\ foreign = FALSE
              /\ result = Fails("none")

PacketNext == \/ \E n \in 0 .. MaxPayload : WritePacket(n) \/ ReadDatagram(n)
              \/ Arrives \/ ReadStart \/ ReadFails \/ Lose

PacketSpec == PacketInit /\ [][PacketNext]_packetVars

(***************************************************************************)
(* Properties.                                                             *)
(***************************************************************************)
\* Every packet a Write reports as sent can be read whole by the peer, which
\* uses the same buffer size (packet_listener.go:28): none is longer than that.
SentCanBeUnpacked == [][\A n \in 0 .. MaxPayload : WritePacket(n) => \A d \in datagrams' \ datagrams : Unpacks(d)]_packetVars

\* A Read that reports no error has the whole payload of a packet the remote
\* address has sent: never the beginning of one, never one of another sender.
ReadsWholePackets ==
    [][slice = "acquired" /\ result' # result /\ result'.err = "nil" =>
          \E d \in datagrams : d.from = Remote /\ d.genuine /\ d.payload = result'.n]_packetVars

\* Packets go through whole, in both directions.
PacketsAreWhole == SentCanBeUnpacked /\ ReadsWholePackets
=============================================================================
