------------------------------- MODULE MCTunnels -------------------------------
(*****************************************************************************)
(* Long-lived tunnels for TLC: a behavior is that of the Psiphon dialer, or  *)
(* of the relay of one stream. The other one keeps a first state, in which   *)
(* none of its fair actions can be taken.                                    *)
(*****************************************************************************)
EXTENDS PsiphonDialer, StreamRelay, Naturals

VARIABLE layer

MCStarts == 1..3

tunnelsVars == <<psiphonVars, relayVars, layer>>

MCTunnelsInit ==
    /\ layer \in {"psiphon", "relay"}
    /\ PsiphonInit /\ StreamRelayInit
    /\ layer = "psiphon" => front = "lwip" /\ back = "tcp"

\* Starts are named in the order in which they get the lock: any other naming of
\* the same calls gives the same behaviors.
StartsInOrder == \A s \in Starts: pc[s] # "idle" => \A t \in 1..(s - 1): pc[t] # "idle"

MCTunnelsNext ==
    /\ layer' = layer
    /\ \/ layer = "psiphon" /\ PsiphonNext /\ StartsInOrder' /\ UNCHANGED relayVars
       \/ layer = "relay" /\ StreamRelayNext /\ UNCHANGED psiphonVars

MCTunnelsSpec == /\ MCTunnelsInit
                 /\ [][MCTunnelsNext]_tunnelsVars
                 /\ PsiphonFairness
                 /\ StreamRelayFairness
===============================================================================
