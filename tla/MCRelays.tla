------------------------------- MODULE MCRelays -------------------------------
(*****************************************************************************)
(* The two packet relays for TLC: a behavior is that of one association of a *)
(* TimeoutPacketRelay or of one PacketListenerRelay behind its proxy. The    *)
(* other one keeps a first state.                                            *)
(*****************************************************************************)
EXTENDS TimeoutRelay, ListenerRelay

CONSTANTS s1, s2, s3, k1, k2

VARIABLE layer

MCCalls   == {s1, s2, s3}
MCSends   == {s1, s2}
MCClosers == {k1, k2}

relaysVars == <<vars, proxyVars, layer>>

MCRelaysInit ==
    /\ layer \in {"timeout", "listener"}
    /\ Init /\ ProxyInit
    /\ layer = "timeout" => relayTimeout = CHOOSE t \in Timeouts: TRUE

MCRelaysNext ==
    /\ layer' = layer
    /\ \/ layer = "timeout" /\ Next /\ UNCHANGED proxyVars
       \/ layer = "listener" /\ ProxyNext /\ UNCHANGED vars

MCRelaysSpec == /\ MCRelaysInit
                /\ [][MCRelaysNext]_relaysVars
                /\ layer = "timeout" => Fairness
                /\ layer = "listener" => ProxyFairness

\* What is expected of a layer is expected of its own behaviors.

(* checkTimeout closes an association that nobody uses, and the goroutine  *)
(* of NewSession closes the response receiver of an idle PacketListener    *)
(* session, in spite of the sends that pushed the timer back.              *)
SessionsEnd ==
    /\ layer = "timeout" => IdleAssociationCloses
    /\ layer = "listener" => RespReceiverCloses

(* Both implement the contract of an association in packetrelay.           *)
Contracts == AssocContract /\ ListenerContract
===============================================================================
