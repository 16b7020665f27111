------------------------------ MODULE MCDnstt -------------------------------
(***************************************************************************)
(* The shared session and the packet conn below one session: two layers    *)
(* that share no variable.  A behaviour exercises one of them, so that the *)
(* interleavings of one are not multiplied by those of the other.          *)
(***************************************************************************)
EXTENDS DnsttSession, DnsttPacket

VARIABLE layer

dnsttVars == <<layer, sessVars, packetVars>>

DnsttInit == /\ layer \in {"session", "packets"}
             /\ SessInit
             /\ PacketInit
             /\ layer = "session" => kind = "udp"

DnsttNext == /\ UNCHANGED layer
             /\ \/ layer = "session" /\ SessNext /\ UNCHANGED packetVars
                \/ layer = "packets" /\ PacketNext /\ UNCHANGED sessVars

DnsttSpec == /\ DnsttInit
             /\ [][DnsttNext]_dnsttVars
             /\ layer = "packets" => PacketFairness

(* A silent tunnel is polled for ever, and a broken DoT connection is      *)
(* noticed through those polls and replaced, unless the dialer is closed.  *)
PacketsKeepPolling == layer = "packets" => TunnelKeepsPolling
=============================================================================
