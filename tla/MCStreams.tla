------------------------------ MODULE MCStreams ------------------------------
(***************************************************************************)
(* The transports that transform what an application sends, side by side:  *)
(* a behavior is one of a Shadowsocks stream, of a connection with a TLS   *)
(* fragmenting writer, of the connections of a split dialer, or of a       *)
(* Shadowsocks packet connection; the other parts keep their first state.  *)
(***************************************************************************)
EXTENDS ShadowsocksStream, TlsFragWriter, SplitWriter, ShadowsocksPacket

VARIABLE layer

MCSplits == <<1, 3>>

allVars == <<ssVars, fragVars, splitVars, packetVars, layer>>

FirstConf == [kind |-> "len", valid |-> TRUE, len |-> 2, split |-> 1]

StreamsInit ==
    /\ layer \in {"shadowsocks", "tlsfrag", "split", "packet"}
    /\ SsInit /\ FragInit /\ SplitInit /\ PacketInit
    /\ layer # "tlsfrag" => conf = FirstConf

StreamsNext ==
    /\ layer' = layer
    /\ \/ layer = "shadowsocks" /\ SsNext /\ UNCHANGED <<fragVars, splitVars, packetVars>>
       \/ layer = "tlsfrag" /\ FragNext /\ UNCHANGED <<ssVars, splitVars, packetVars>>
       \/ layer = "split" /\ SplitNext /\ UNCHANGED <<ssVars, fragVars, packetVars>>
       \/ layer = "packet" /\ PacketNext /\ UNCHANGED <<ssVars, fragVars, splitVars>>

StreamsSpec == StreamsInit /\ [][StreamsNext]_allVars /\ (layer = "shadowsocks" => SsFairness)
=============================================================================
