----------------------------- MODULE LwipDevice -----------------------------
(***************************************************************************)
(* The data path of one lwIPDevice: the goroutines of the network stack    *)
(* that hand it outgoing IP packets (forwardOutgoingIPPacket), the one     *)
(* goroutine that reads them with Read or WriteTo, the one that calls      *)
(* Write, and Close.                                                       *)
(*                                                                         *)
(* rdBuf and rdN are unbuffered: a send and a receive happen in one step,  *)
(* taken by the goroutine that arrives second.  A goroutine that finds     *)
(* nobody blocks in its select; close(d.done) takes every goroutine out of *)
(* a select that has the case <-d.done, in the same step, and a goroutine  *)
(* that arrives later never blocks in such a select.  This is why states   *)
(* below say whether a goroutine is already blocked.                       *)
(***************************************************************************)
EXTENDS Integers

CONSTANTS StackPackets,    \* packets of the stack, each with its own goroutine
          Writes,     \* Write calls, one after the other
          MaxCalls    \* bound: Read and WriteTo calls of the reader

ASSUME MaxCallsAssumption == MaxCalls \in Nat

NoPacket == "none"
ASSUME NoPacketAssumption == NoPacket \notin StackPackets

VARIABLES done,     \* d.done: open or closed
          stack,    \* d.stack: open or closed
          fpc,      \* forwardOutgoingIPPacket of each packet
          ack,      \* the packet whose n a forwarder received on rdN
          rd,       \* the reader: its call, where it is, its packet
          calls,    \* Read and WriteTo calls made
          wpc,      \* Write calls
          cpc       \* the Close call

deviceVars == <<done, stack, fpc, ack, rd, calls, wpc, cpc>>

(* offered: blocked in the outer select; handed: past it, not yet in the   *)
(* inner one; waiting: blocked in the inner select.                        *)
ForwarderStates == {"idle", "offered", "handed", "waiting", "acked", "errClosed"}

(* blocked: in the select on rdBuf; busy: has a packet, copies or writes   *)
(* it; sending: blocked on the send to rdN.  NextOne: a WriteTo about to   *)
(* take the next packet.                                                   *)
NoCall  == [call |-> "none", at |-> "none", pkt |-> NoPacket]
NextOne == [call |-> "WriteTo", at |-> "busy", pkt |-> NoPacket]
ReaderStates ==
    {NoCall, NextOne}
    \cup [call : {"Read", "WriteTo"}, at : {"blocked"}, pkt : {NoPacket}]
    \cup [call : {"Read", "WriteTo"}, at : {"busy", "sending"}, pkt : StackPackets]

DeviceTypeOK == /\ done \in {"open", "closed"}
                /\ stack \in {"open", "closed"}
                /\ fpc \in [StackPackets -> ForwarderStates]
                /\ ack \in [StackPackets -> StackPackets \cup {NoPacket}]
                /\ rd \in ReaderStates
                /\ calls \in 0..MaxCalls
                /\ wpc \in [Writes -> {"idle", "passed", "written", "errClosed"}]
                /\ cpc \in {"idle", "doneClosed", "returned"}

DeviceInit == /\ done = "open"
              /\ stack = "open"
              /\ fpc = [p \in StackPackets |-> "idle"]
              /\ ack = [p \in StackPackets |-> NoPacket]
              /\ rd = NoCall
              /\ calls = 0
              /\ wpc = [w \in Writes |-> "idle"]
              /\ cpc = "idle"

-----------------------------------------------------------------------------
(* forwardOutgoingIPPacket: the outer select.                              *)
Forward(p) ==
    /\ fpc[p] = "idle"
    /\ \/ /\ done = "closed"
          /\ fpc' = [fpc EXCEPT ![p] = "errClosed"]
          /\ UNCHANGED rd
       \/ /\ done = "open"
          /\ rd.at = "blocked"
          /\ fpc' = [fpc EXCEPT ![p] = "handed"]
          /\ rd' = [rd EXCEPT !.at = "busy", !.pkt = p]
       \/ /\ done = "open"
          /\ rd.at # "blocked"
          /\ fpc' = [fpc EXCEPT ![p] = "offered"]
          /\ UNCHANGED rd
    /\ UNCHANGED <<done, stack, ack, calls, wpc, cpc>>

(* What the reader does after its send to rdN went through: Read returns,  *)
(* WriteTo takes the next packet or returns the error of the writer.       *)
AfterSend(r) == IF r.call = "Read" THEN {NoCall}
                ELSE {NoCall, NextOne}

(* Variant of the inner select without the case <-d.done.                  *)
AwaitCountOnly(p) ==
    /\ fpc[p] = "handed"
    /\ \/ /\ rd.at = "sending"
          /\ fpc' = [fpc EXCEPT ![p] = "acked"]
          /\ ack' = [ack EXCEPT ![p] = rd.pkt]
          /\ rd' \in AfterSend(rd)
       \/ /\ rd.at # "sending"
          /\ fpc' = [fpc EXCEPT ![p] = "waiting"]
          /\ UNCHANGED <<ack, rd>>
    /\ UNCHANGED <<done, stack, calls, wpc, cpc>>

(* The inner select: take n from a reader that is sending, give up if the  *)
(* device is closed (either, when both can happen), or block.              *)
AwaitCount(p) ==
    /\ fpc[p] = "handed"
    /\ \/ /\ rd.at = "sending"
          /\ fpc' = [fpc EXCEPT ![p] = "acked"]
          /\ ack' = [ack EXCEPT ![p] = rd.pkt]
          /\ rd' \in AfterSend(rd)
       \/ /\ done = "closed"
          /\ fpc' = [fpc EXCEPT ![p] = "errClosed"]
          /\ UNCHANGED <<ack, rd>>
       \/ /\ done = "open"
          /\ rd.at # "sending"
          /\ fpc' = [fpc EXCEPT ![p] = "waiting"]
          /\ UNCHANGED <<ack, rd>>
    /\ UNCHANGED <<done, stack, calls, wpc, cpc>>

-----------------------------------------------------------------------------
(* The select on rdBuf or done, at the start of Read and of each round of  *)
(* WriteTo.                                                                *)
Select(call) ==
    \/ /\ done = "closed"
       /\ rd' = NoCall
       /\ UNCHANGED fpc
    \/ /\ done = "open"
       /\ \E p \in StackPackets :
             /\ fpc[p] = "offered"
             /\ fpc' = [fpc EXCEPT ![p] = "handed"]
             /\ rd' = [call |-> call, at |-> "busy", pkt |-> p]
    \/ /\ done = "open"
       /\ \A p \in StackPackets : fpc[p] # "offered"
       /\ rd' = [call |-> call, at |-> "blocked", pkt |-> NoPacket]
       /\ UNCHANGED fpc

Read == /\ rd.call = "none"
        /\ calls < MaxCalls
        /\ calls' = calls + 1
        /\ Select("Read")
        /\ UNCHANGED <<done, stack, ack, wpc, cpc>>

WriteTo == /\ rd.call = "none"
           /\ calls < MaxCalls
           /\ calls' = calls + 1
           /\ Select("WriteTo")
           /\ UNCHANGED <<done, stack, ack, wpc, cpc>>

(* The next round of WriteTo.                                              *)
WriteToNext == /\ rd = NextOne
               /\ Select("WriteTo")
               /\ UNCHANGED <<done, stack, ack, calls, wpc, cpc>>

(* Variant in which WriteTo returns the error of its writer at once.       *)
SendCountOrFail ==
    /\ rd.at = "busy"
    /\ rd.pkt # NoPacket
    /\ \/ \E p \in StackPackets :
             /\ fpc[p] = "waiting"
             /\ fpc' = [fpc EXCEPT ![p] = "acked"]
             /\ ack' = [ack EXCEPT ![p] = rd.pkt]
             /\ rd' \in AfterSend(rd)
       \/ /\ rd.call = "WriteTo"
          /\ rd' = NoCall
          /\ UNCHANGED <<fpc, ack>>
    /\ UNCHANGED <<done, stack, calls, wpc, cpc>>

(* Variant in which WriteTo does not look at done while it sends n.        *)
SendCountBlocks ==
    /\ rd.at = "busy"
    /\ rd.pkt # NoPacket
    /\ \/ \E p \in StackPackets :
             /\ fpc[p] = "waiting"
             /\ fpc' = [fpc EXCEPT ![p] = "acked"]
             /\ ack' = [ack EXCEPT ![p] = rd.pkt]
             /\ rd' \in AfterSend(rd)
       \/ /\ \A p \in StackPackets : fpc[p] # "waiting"
          /\ rd' = [rd EXCEPT !.at = "sending"]
          /\ UNCHANGED <<fpc, ack>>
    /\ UNCHANGED <<done, stack, calls, wpc, cpc>>

(* The packet has been copied (Read) or written (WriteTo); the send of n   *)
(* on rdN meets a blocked forwarder, or blocks.  WriteTo gives up if the   *)
(* device is closed; Read has no such case.                                *)
SendCount ==
    /\ rd.at = "busy"
    /\ rd.pkt # NoPacket
    /\ \/ \E p \in StackPackets :
             /\ fpc[p] = "waiting"
             /\ fpc' = [fpc EXCEPT ![p] = "acked"]
             /\ ack' = [ack EXCEPT ![p] = rd.pkt]
             /\ rd' \in AfterSend(rd)
       \/ /\ rd.call = "WriteTo"
          /\ done = "closed"
          /\ rd' = NoCall
          /\ UNCHANGED <<fpc, ack>>
       \/ /\ rd.call = "Read" \/ done = "open"
          /\ \A p \in StackPackets : fpc[p] # "waiting"
          /\ rd' = [rd EXCEPT !.at = "sending"]
          /\ UNCHANGED <<fpc, ack>>
    /\ UNCHANGED <<done, stack, calls, wpc, cpc>>

-----------------------------------------------------------------------------
(* Write: the test of done, then stack.Write.                              *)
Write(w) ==
    /\ wpc[w] = "idle"
    /\ \A v \in Writes : wpc[v] # "passed"
    /\ wpc' = [wpc EXCEPT ![w] = IF done = "closed" THEN "errClosed" ELSE "passed"]
    /\ UNCHANGED <<done, stack, fpc, ack, rd, calls, cpc>>

StackWrite(w) ==
    /\ wpc[w] = "passed"
    /\ wpc' = [wpc EXCEPT ![w] = IF stack = "open" THEN "written" ELSE "errClosed"]
    /\ UNCHANGED <<done, stack, fpc, ack, rd, calls, cpc>>

(* close(d.done): everybody blocked in a select with the case <-d.done     *)
(* leaves it.  A Read blocked on rdN stays.                                *)
CloseDone ==
    /\ cpc = "idle"
    /\ cpc' = "doneClosed"
    /\ done' = "closed"
    /\ fpc' = [p \in StackPackets |-> IF fpc[p] \in {"offered", "waiting"} THEN "errClosed"
                                 ELSE fpc[p]]
    /\ rd' = IF rd.at = "blocked" \/ (rd.at = "sending" /\ rd.call = "WriteTo")
             THEN NoCall ELSE rd
    /\ UNCHANGED <<stack, ack, calls, wpc>>

(* d.stack.Close()                                                         *)
CloseStack == /\ cpc = "doneClosed"
              /\ cpc' = "returned"
              /\ stack' = "closed"
              /\ UNCHANGED <<done, fpc, ack, rd, calls, wpc>>

-----------------------------------------------------------------------------
DeviceNext == \/ \E p \in StackPackets : Forward(p) \/ AwaitCount(p)
              \/ Read
              \/ WriteTo
              \/ WriteToNext
              \/ SendCount
              \/ \E w \in Writes : Write(w) \/ StackWrite(w)
              \/ CloseDone
              \/ CloseStack

DeviceSpec == DeviceInit /\ [][DeviceNext]_deviceVars

(* Goroutines that are not blocked go on.  Packets, calls and the Close    *)
(* need not come.                                                          *)
DeviceFairness == /\ \A p \in StackPackets : WF_deviceVars(AwaitCount(p))
                  /\ WF_deviceVars(WriteToNext)
                  /\ WF_deviceVars(SendCount)
                  /\ WF_deviceVars(CloseStack)
                  /\ \A w \in Writes : WF_deviceVars(StackWrite(w))

DeviceFairSpec == DeviceSpec /\ DeviceFairness

-----------------------------------------------------------------------------
(* The n a forwarder reports to the network stack is the n of its own      *)
(* packet, although the reader sends it on a channel all forwarders share: *)
(* at most one forwarder is ever between its hand-over and its answer      *)
(* while the device is open.                                               *)
CountIsForOwnPacket ==
    /\ \A p \in StackPackets : ack[p] \in {NoPacket, p}
    /\ done = "open" => \A p, q \in StackPackets :
          fpc[p] \in {"handed", "waiting"} /\ fpc[q] \in {"handed", "waiting"} => p = q

(* A packet that has been handed over is answered: the network stack is    *)
(* never left blocked in its output function, closed or not.               *)
ForwardersReturn ==
    \A p \in StackPackets : fpc[p] \in {"handed", "waiting"} ~> fpc[p] \in {"acked", "errClosed"}

(* WriteTo returns once the device is closed.                              *)
WriteToReturns == done = "closed" /\ rd.call = "WriteTo" ~> rd.call # "WriteTo"

(* "Read ... blocking until a packet arrives or this device is closed":    *)
(* once the device is closed a Read call returns.  It does not: see        *)
(* CloseDone between the hand-over and the send to rdN.                    *)
ReadReturns == done = "closed" /\ rd.call = "Read" ~> rd.call # "Read"
=============================================================================
