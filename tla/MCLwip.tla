-------------------------------- MODULE MCLwip --------------------------------
(*****************************************************************************)
(* The lwIP transport for TLC: a behavior is that of the data path of one    *)
(* device, of the devices configured one after the other, or of the UDP      *)
(* handlers over truncating associations. The other parts keep a first       *)
(* state.                                                                    *)
(*****************************************************************************)
EXTENDS LwipDevice, LwipSingleton, LwipUdp

VARIABLE layer

\* A query and a packet to another port.
Header == [qr |-> 0, tc |-> 0, rcode |-> 0, qd |-> 1, an |-> 0]
MCPackets == {[port |-> 53, len |-> 12, hdr |-> Header],
              [port |-> 443, len |-> 12, hdr |-> Header]}

mcLwipVars == <<deviceVars, singletonVars, vars, layer>>

MCLwipInit ==
    /\ layer \in {"device", "singleton", "udp"}
    /\ DeviceInit /\ SingletonInit /\ Init
    /\ layer # "udp" => mode = "proxy"

MCLwipNext ==
    /\ layer' = layer
    /\ \/ layer = "device" /\ DeviceNext /\ UNCHANGED <<singletonVars, vars>>
       \/ layer = "singleton" /\ SingletonNext /\ UNCHANGED <<deviceVars, vars>>
       \/ layer = "udp" /\ Next /\ UNCHANGED <<deviceVars, singletonVars>>

\* In the first state of a part none of its fair actions can be taken, so the
\* fairness of the other parts says nothing of a behavior. Nothing is assumed of the
\* calls that configure and close devices.
MCLwipSpec == MCLwipInit /\ [][MCLwipNext]_mcLwipVars /\ DeviceFairness /\ Fairness

(* The stack is never left blocked in the output function of a device, a   *)
(* WriteTo ends with its device, no UDP handler call and no closeSession   *)
(* hangs, and a receive loop that has ended closes its lwIP connection.    *)
NobodyIsStuck == /\ ForwardersReturn /\ WriteToReturns
                 /\ CallsReturn /\ EndedLoopClosesConn
===============================================================================
