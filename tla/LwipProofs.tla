----------------------------- MODULE LwipProofs -----------------------------
(***************************************************************************)
(* Proofs about LwipDevice, LwipSingleton and LwipUdp, for any number of   *)
(* readers, packets, callers, conns and associations.                      *)
(***************************************************************************)
EXTENDS LwipDevice, LwipSingleton, LwipUdp, FiniteSetTheorems, TLAPS

-----------------------------------------------------------------------------
(***************************************************************************)
(* LwipDevice: what a read counts belongs to the packet it returns.        *)
(***************************************************************************)
(* A reader state is one of five forms; the proofs go by these cases.      *)
ReaderShape(r) ==
    \/ r = NoCall
    \/ r = NextOne
    \/ \E c \in {"Read", "WriteTo"} : r = [call |-> c, at |-> "blocked", pkt |-> NoPacket]
    \/ \E c \in {"Read", "WriteTo"}, a \in {"busy", "sending"}, p \in StackPackets :
          r = [call |-> c, at |-> a, pkt |-> p]

(* The forms are the members of ReaderStates.                              *)
LEMMA ShapeIsState == ASSUME NEW r PROVE r \in ReaderStates <=> ReaderShape(r)
<1>1. r \in [call : {"Read", "WriteTo"}, at : {"blocked"}, pkt : {NoPacket}]
        <=> \E c \in {"Read", "WriteTo"} : r = [call |-> c, at |-> "blocked", pkt |-> NoPacket]
  OBVIOUS
<1>2. r \in [call : {"Read", "WriteTo"}, at : {"busy", "sending"}, pkt : StackPackets]
        <=> \E c \in {"Read", "WriteTo"}, a \in {"busy", "sending"}, p \in StackPackets :
               r = [call |-> c, at |-> a, pkt |-> p]
  OBVIOUS
<1> QED
  BY <1>1, <1>2 DEF ReaderStates, ReaderShape

(* Where a select leaves the reader.                                       *)
LEMMA SelectShape ==
  ASSUME NEW c \in {"Read", "WriteTo"}, Select(c)
  PROVE  ReaderShape(rd')
BY DEF Select, ReaderShape

(* Where the send of n leaves it.                                          *)
LEMMA AfterSendShape ==
  ASSUME NEW r, rd' \in AfterSend(r)
  PROVE  rd' = NoCall \/ rd' = NextOne
BY DEF AfterSend

-----------------------------------------------------------------------------
(* A packet that was handed over is the packet of the reader; only a       *)
(* reader that has seen the device closed may have dropped it, and then it *)
(* takes no other.  A forwarder waits for n only on an open device, and    *)
(* every n that was answered is the n of the packet it answered.           *)
PairInv == /\ \A p \in StackPackets : fpc[p] \in {"handed", "waiting"} =>
                 \/ rd.pkt = p
                 \/ done = "closed" /\ rd.pkt = NoPacket
           /\ \A p \in StackPackets : fpc[p] = "waiting" => done = "open"
           /\ \A p \in StackPackets : ack[p] \in {NoPacket, p}

(* The fields of the reader that the steps test.                           *)
LEMMA ShapeFields ==
  ASSUME ReaderShape(rd)
  PROVE  /\ rd.at = "blocked" => rd = [call |-> rd.call, at |-> "blocked", pkt |-> NoPacket]
                                 /\ rd.call \in {"Read", "WriteTo"}
         /\ rd.call = "none" => rd.pkt = NoPacket
         /\ rd.pkt # NoPacket => /\ rd.call \in {"Read", "WriteTo"}
                                 /\ rd.at \in {"busy", "sending"}
                                 /\ rd.pkt \in StackPackets
                                 /\ rd = [call |-> rd.call, at |-> rd.at, pkt |-> rd.pkt]
         /\ rd.at = "sending" => rd.pkt # NoPacket
BY NoPacketAssumption DEF ReaderShape, NoCall, NextOne

-----------------------------------------------------------------------------
(* The type invariant, one case per action.                                *)
THEOREM TypeCorrect == DeviceSpec => []DeviceTypeOK
<1>1. DeviceInit => DeviceTypeOK
  BY MaxCallsAssumption, ShapeIsState DEF DeviceInit, DeviceTypeOK, ForwarderStates, ReaderShape
<1>2. DeviceTypeOK /\ [DeviceNext]_deviceVars => DeviceTypeOK'
  <2> SUFFICES ASSUME DeviceTypeOK, [DeviceNext]_deviceVars PROVE DeviceTypeOK'
    OBVIOUS
  <2>0. ReaderShape(rd)
    BY ShapeIsState DEF DeviceTypeOK
  <2> USE MaxCallsAssumption DEF DeviceTypeOK, ForwarderStates
  <2>1. ASSUME NEW p \in StackPackets, Forward(p) PROVE DeviceTypeOK'
    <3>1. ReaderShape(rd')
      BY <2>0, <2>1, ShapeFields DEF Forward, ReaderShape
    <3> QED
      BY <2>1, <3>1, ShapeIsState DEF Forward
  <2>2. ASSUME NEW p \in StackPackets, AwaitCount(p) PROVE DeviceTypeOK'
    <3>1. ReaderShape(rd')
      BY <2>0, <2>2, AfterSendShape DEF AwaitCount, ReaderShape
    <3>2. ack' \in [StackPackets -> StackPackets \cup {NoPacket}]
      BY <2>0, <2>2, ShapeFields DEF AwaitCount
    <3> QED
      BY <2>2, <3>1, <3>2, ShapeIsState DEF AwaitCount
  <2>3. CASE Read \/ WriteTo \/ WriteToNext
    <3>1. ReaderShape(rd')
      BY <2>3, SelectShape DEF Read, WriteTo, WriteToNext
    <3>2. fpc' \in [StackPackets -> ForwarderStates]
      BY <2>3 DEF Read, WriteTo, WriteToNext, Select
    <3> QED
      BY <2>3, <3>1, <3>2, ShapeIsState DEF Read, WriteTo, WriteToNext
  <2>4. CASE SendCount
    <3>1. rd.pkt \in StackPackets
      BY <2>0, <2>4, ShapeFields DEF SendCount
    <3>2. ReaderShape(rd')
      <4>1. CASE rd' = [rd EXCEPT !.at = "sending"]
        BY <2>0, <2>4, <3>1, <4>1, ShapeFields DEF SendCount, ReaderShape
      <4>2. CASE rd' # [rd EXCEPT !.at = "sending"]
        BY <2>4, <4>2, AfterSendShape DEF SendCount, ReaderShape
      <4> QED
        BY <4>1, <4>2
    <3> QED
      BY <2>4, <3>1, <3>2, ShapeIsState DEF SendCount
  <2>5. ASSUME NEW w \in Writes, Write(w) \/ StackWrite(w) PROVE DeviceTypeOK'
    BY <2>5 DEF Write, StackWrite
  <2>6. CASE CloseDone
    <3>1. ReaderShape(rd')
      BY <2>0, <2>6 DEF CloseDone, ReaderShape
    <3> QED
      BY <2>6, <3>1, ShapeIsState DEF CloseDone
  <2>7. CASE CloseStack
    BY <2>7 DEF CloseStack
  <2>8. CASE UNCHANGED deviceVars
    BY <2>8 DEF deviceVars
  <2> QED
    BY <2>1, <2>2, <2>3, <2>4, <2>5, <2>6, <2>7, <2>8 DEF DeviceNext
<1> QED
  BY <1>1, <1>2, PTL DEF DeviceSpec

-----------------------------------------------------------------------------
(* The pairing survives every step.                                        *)
LEMMA PairInductive == DeviceTypeOK /\ PairInv /\ [DeviceNext]_deviceVars => PairInv'
<1> SUFFICES ASSUME DeviceTypeOK, PairInv, [DeviceNext]_deviceVars PROVE PairInv'
  OBVIOUS
<1>0. /\ ReaderShape(rd)
      /\ fpc \in [StackPackets -> ForwarderStates]
      /\ ack \in [StackPackets -> StackPackets \cup {NoPacket}]
      /\ done \in {"open", "closed"}
  BY ShapeIsState DEF DeviceTypeOK
<1> USE NoPacketAssumption DEF PairInv
<1>1. ASSUME NEW p \in StackPackets, Forward(p) PROVE PairInv'
  <2>1. CASE rd.at # "blocked" \/ done = "closed"
    BY <1>0, <1>1, <2>1 DEF Forward, ForwarderStates
  <2>2. CASE rd.at = "blocked" /\ done = "open"
    <3>1. rd.pkt = NoPacket /\ rd'.pkt = p
      BY <1>0, <1>1, <2>2, ShapeFields DEF Forward
    <3>2. \A q \in StackPackets : fpc'[q] \in {"handed", "waiting"} => q = p /\ fpc'[q] # "waiting"
      BY <1>0, <1>1, <2>2, <3>1 DEF Forward, ForwarderStates
    <3> QED
      BY <1>1, <3>1, <3>2 DEF Forward
  <2> QED
    BY <1>0, <2>1, <2>2
<1>2. ASSUME NEW p \in StackPackets, AwaitCount(p) PROVE PairInv'
  <2>1. CASE rd.at = "sending" /\ ack' = [ack EXCEPT ![p] = rd.pkt]
    <3>1. rd.pkt = p
      BY <1>0, <1>2, <2>1, ShapeFields DEF AwaitCount
    <3>2. \A q \in StackPackets : fpc'[q] \in {"handed", "waiting"} => q # p /\ fpc[q] = fpc'[q]
      BY <1>0, <1>2, <2>1 DEF AwaitCount, ForwarderStates
    <3> QED
      BY <1>0, <1>2, <2>1, <3>1, <3>2 DEF AwaitCount
  <2>2. CASE ack' # [ack EXCEPT ![p] = rd.pkt] \/ rd.at # "sending"
    BY <1>0, <1>2, <2>2 DEF AwaitCount, ForwarderStates
  <2> QED
    BY <2>1, <2>2
<1>3. CASE Read \/ WriteTo \/ WriteToNext
  <2>1. rd.pkt = NoPacket
    BY <1>0, <1>3, ShapeFields DEF Read, WriteTo, WriteToNext, NextOne
  <2>2. \A p \in StackPackets : fpc[p] \in {"handed", "waiting"} => done = "closed"
    BY <2>1
  <2>3. UNCHANGED <<done, ack>>
    BY <1>3 DEF Read, WriteTo, WriteToNext
  <2>4. PICK c \in {"Read", "WriteTo"} : Select(c)
    BY <1>3 DEF Read, WriteTo, WriteToNext
  <2>5. CASE done = "closed"
    BY <1>0, <2>1, <2>3, <2>4, <2>5 DEF Select, NoCall
  <2>6. CASE done = "open"
    BY <1>0, <2>2, <2>3, <2>4, <2>6 DEF Select, ForwarderStates
  <2> QED
    BY <1>0, <2>5, <2>6
<1>4. CASE SendCount
  <2>1. rd.pkt \in StackPackets
    BY <1>0, <1>4, ShapeFields DEF SendCount
  <2>2. ASSUME NEW p \in StackPackets, fpc[p] = "waiting",
               fpc' = [fpc EXCEPT ![p] = "acked"], ack' = [ack EXCEPT ![p] = rd.pkt]
        PROVE  PairInv'
    <3>1. rd.pkt = p /\ done = "open"
      BY <2>1, <2>2
    <3>2. \A q \in StackPackets : fpc'[q] \notin {"handed", "waiting"}
      BY <1>0, <2>2, <3>1 DEF ForwarderStates
    <3> QED
      BY <1>0, <1>4, <2>2, <3>1, <3>2 DEF SendCount
  <2>3. ASSUME done = "closed", rd' = NoCall, UNCHANGED <<fpc, ack, done>> PROVE PairInv'
    BY <2>3 DEF NoCall
  <2>4. ASSUME rd' = [rd EXCEPT !.at = "sending"], UNCHANGED <<fpc, ack, done>> PROVE PairInv'
    <3>1. rd'.pkt = rd.pkt
      BY <1>0, <2>1, <2>4, ShapeFields
    <3> QED
      BY <2>4, <3>1
  <2> QED
    BY <1>4, <2>2, <2>3, <2>4 DEF SendCount
<1>5. CASE CloseDone
  <2>1. rd'.pkt = rd.pkt \/ rd'.pkt = NoPacket
    BY <1>5 DEF CloseDone, NoCall
  <2> QED
    BY <1>0, <1>5, <2>1 DEF CloseDone, ForwarderStates
<1>6. CASE CloseStack \/ UNCHANGED deviceVars \/ \E w \in Writes : Write(w) \/ StackWrite(w)
  BY <1>6 DEF CloseStack, deviceVars, Write, StackWrite
<1> QED
  BY <1>1, <1>2, <1>3, <1>4, <1>5, <1>6 DEF DeviceNext

(* Over the shared channel rdN each forwarder gets the n of its own        *)
(* packet, for any number of goroutines of the stack.                      *)
THEOREM CountsArePaired == DeviceSpec => []CountIsForOwnPacket
<1>1. DeviceInit => PairInv
  BY DEF DeviceInit, PairInv
<1>2. PairInv => CountIsForOwnPacket
  BY DEF PairInv, CountIsForOwnPacket
<1> QED
  BY <1>1, <1>2, PairInductive, TypeCorrect, PTL DEF DeviceSpec

-----------------------------------------------------------------------------
(***************************************************************************)
(* LwipSingleton: one device at a time, each closed before the next is     *)
(* made.                                                                   *)
(***************************************************************************)
(* A call inside Close has a device that exists; past close(d.done) it is  *)
(* a closed one.                                                           *)
IsClosing == {"test", "closeDone", "closeStack"}
CloseInv == \A g \in Calls :
              /\ pc[g] \in IsClosing => dev[g] \in Configs /\ doneOf[dev[g]] # "none"
              /\ pc[g] = "closeStack" => doneOf[dev[g]] = "closed"

(* The holder of instMu is the one call between Configure and the          *)
(* registration; it closes the singleton, makes a device, then owns it.    *)
MutexInv == /\ \A c \in Configs : c = instMu <=> pc[c] \notin {"idle", "returned"}
            /\ \A c \in Configs : pc[c] \in IsClosing => dev[c] = inst
            /\ \A c \in Configs : doneOf[c] = "none" <=> pc[c] \notin {"register", "returned"}
            /\ \A c \in Configs : pc[c] = "register" => inst = c
            /\ \A k \in Users : pc[k] \notin {"create", "register"}
            /\ inst \in Configs => doneOf[inst] # "none"

(* Only the singleton is ever open, and none is while one is being made.   *)
OpenInv == /\ \A c \in Configs : doneOf[c] = "open" => c = inst
           /\ \A c \in Configs : pc[c] = "create" => \A d \in Configs : doneOf[d] # "open"
           /\ instMu = NoDevice => outputFn = inst
           /\ \A c \in Configs : stackOf[c] = "closed" => doneOf[c] = "closed"

(* While the program runs, one goroutine at most closes a stack.           *)
OneCloser == program = "running" =>
               \A g, h \in Calls : /\ pc[g] = "closeStack"
                                   /\ pc[h] = "closeStack"
                                   /\ dev[g] = dev[h]
                                   => g = h

IInv == SingletonTypeOK /\ CloseInv /\ MutexInv /\ OpenInv /\ OneCloser

-----------------------------------------------------------------------------
(* The steps of ConfigureDevice other than the Close of the old device.    *)
LEMMA ConfigureKeeps ==
  ASSUME IInv, NEW c \in Configs, Configure(c) \/ Create(c) \/ RegisterHandlers(c)
  PROVE  IInv'
<1> USE NoDeviceAssumption, DistinctCalls
    DEF IInv, SingletonTypeOK, CloseInv, MutexInv, OpenInv, OneCloser, IsClosing, Calls, States, GoOn
<1>1. CASE Configure(c)
  BY <1>1 DEF Configure
<1>2. CASE Create(c)
  BY <1>2 DEF Create
<1>3. CASE RegisterHandlers(c)
  BY <1>3 DEF RegisterHandlers
<1> QED
  BY <1>1, <1>2, <1>3

(* A user calls Close on a device it was given.                            *)
LEMMA CallCloseKeeps ==
  ASSUME IInv, NEW k \in Users, CallClose(k)
  PROVE  IInv'
BY NoDeviceAssumption, DistinctCalls
   DEF IInv, SingletonTypeOK, CloseInv, MutexInv, OpenInv, OneCloser, IsClosing, Calls, States,
       GoOn, CallClose

(* The three steps of Close, by a user or by ConfigureDevice.              *)
LEMMA CloseKeeps ==
  ASSUME IInv, program = "running", NEW g \in Calls, CloseStep(g)
  PROVE  IInv'
<1> USE NoDeviceAssumption, DistinctCalls
    DEF IInv, SingletonTypeOK, CloseInv, MutexInv, OpenInv, OneCloser, IsClosing, Calls, States,
        GoOn, AfterClose
<1>1. CASE CloseTest(g)
  BY <1>1 DEF CloseTest
<1>2. CASE CloseDoneOf(g)
  BY <1>2 DEF CloseDoneOf
<1>3. CASE CloseStackOf(g)
  BY <1>3 DEF CloseStackOf
<1> QED
  BY <1>1, <1>2, <1>3 DEF CloseStep

-----------------------------------------------------------------------------
(* The inductive invariant holds for every interleaving.                   *)
THEOREM Invariance == SingletonSpec => []IInv
<1>1. SingletonInit => IInv
  BY NoDeviceAssumption, DistinctCalls
     DEF SingletonInit, IInv, SingletonTypeOK, CloseInv, MutexInv, OpenInv, OneCloser, IsClosing,
         Calls, States
<1>2. IInv /\ [SingletonNext]_singletonVars => IInv'
  <2>1. ASSUME IInv, UNCHANGED singletonVars PROVE IInv'
    BY <2>1 DEF IInv, SingletonTypeOK, CloseInv, MutexInv, OpenInv, OneCloser, singletonVars
  <2> QED
    BY <2>1, ConfigureKeeps, CallCloseKeeps, CloseKeeps DEF SingletonNext
<1> QED
  BY <1>1, <1>2, PTL DEF SingletonSpec

(* The types: a device has its done channel exactly when it has its stack. *)
THEOREM SingletonTypeCorrect == SingletonSpec => []SingletonTypeOK
<1>1. IInv => SingletonTypeOK
  BY DEF IInv
<1> QED
  BY <1>1, Invariance, PTL

(* A device configured before the singleton is closed, and the output of   *)
(* the stack goes to the singleton.                                        *)
THEOREM OnlySingletonOpen == SingletonSpec => []OnlyInstUsable
<1>1. IInv => OnlyInstUsable
  BY DEF IInv, OpenInv, OnlyInstUsable
<1> QED
  BY <1>1, Invariance, PTL

(* A stack is closed after its done channel, by one goroutine.             *)
THEOREM StackLast == SingletonSpec => []StackClosedAfterDone
<1>1. IInv => StackClosedAfterDone
  <2> SUFFICES ASSUME IInv, program = "running", NEW c \in Configs
               PROVE  Cardinality({g \in Calls : dev[g] = c /\ pc[g] = "closeStack"}) <= 1
    BY DEF IInv, OpenInv, StackClosedAfterDone
  <2> DEFINE closers == {g \in Calls : dev[g] = c /\ pc[g] = "closeStack"}
  <2>1. CASE closers = {}
    BY <2>1, FS_EmptySet
  <2>2. CASE closers # {}
    <3>1. PICK g \in Calls : g \in closers
      BY <2>2
    <3>2. closers = {g}
      BY <3>1 DEF IInv, OneCloser
    <3> QED
      BY <3>2, FS_Singleton
  <2> QED
    BY <2>1, <2>2
<1> QED
  BY <1>1, Invariance, PTL

(* Over any number of reconfigurations the devices follow one another.     *)
THEOREM DevicesFollow == SingletonSpec => []DevicesDoNotOverlap
  BY OnlySingletonOpen, StackLast, PTL DEF DevicesDoNotOverlap

-----------------------------------------------------------------------------
(***************************************************************************)
(* LwipUdp: the sessions of the relay handler.                             *)
(***************************************************************************)
(* Where a thread of the handlers is.                                      *)
ThreadPcs == {"idle", "connect", "store", "connected", "drain", "lookup", "new", "register",
              "send", "push"}
ConnStates == {"unused", "connecting", "connected", "closed"}
LoopStates == {"unmade", "made", "waiting", "handling", "ended", "unlinked", "senderClosed",
               "done"}

ConnRecs == [addr : Addrs \cup {Nil}, state : ConnStates, pending : Nat]
ThreadRecs == [pc : ThreadPcs, conn : Conns \cup {Nil}, assoc : Assocs \cup {Nil},
               pkt : Packets \cup {Nil}]
CloserRecs == [pc : {"idle", "close", "wait", "returned"}, assoc : Assocs \cup {Nil}]

(* A thread in a handler works for a conn of some client.                  *)
UdpTypeOK ==
    /\ mode \in {"proxy", "relay"}
    /\ recv \in [Assocs -> LoopStates]
    /\ closed \in [Assocs -> {"open", "closed"}]
    /\ owner \in [Assocs -> Conns \cup {Nil}]
    /\ resp \in [Assocs -> {"open", "closed"}]
    /\ senders \in [Addrs -> Assocs \cup {Nil}]
    /\ sessions \in [Conns -> Assocs \cup {Nil}]
    /\ conn \in [Conns -> ConnRecs]
    /\ thr \in [Threads -> ThreadRecs]
    /\ closer \in [Closers -> CloserRecs]
    /\ \A t \in Threads : ~ At(t, "idle") =>
         /\ thr[t].conn \in Conns
         /\ conn[thr[t].conn].addr \in Addrs /\ conn[thr[t].conn].state # "unused"
         /\ t # "input" => thr[t].conn = t

(* An association belongs to the conn it was made for, and a conn makes    *)
(* one at most: it connects once.                                          *)
OwnerInv ==
    /\ \A i \in Assocs : recv[i] # "unmade" => owner[i] \in Conns
    /\ \A i \in Assocs : recv[i] = "unmade" => owner[i] = Nil
    /\ \A c \in Conns : conn[c].state = "unused" => At(c, "idle")
    /\ \A c \in Conns : conn[c].state = "unused" \/ At(c, "connect")
                          => \A i \in Assocs : owner[i] # c
    /\ \A i, j \in Assocs : owner[i] = owner[j] /\ owner[i] # Nil => i = j

(* The table has an association from the time its receive loop starts to   *)
(* the time the loop is over, and what comes after that is done in order.  *)
TableInv ==
    /\ \A t \in Threads : thr[t].pc \notin {"new", "register"}
    /\ thr["input"].pc \notin {"connect", "store"}
    /\ \A c \in Conns : At(c, "store") =>
         /\ thr[c].assoc \in Assocs /\ recv[thr[c].assoc] = "made"
         /\ owner[thr[c].assoc] = c
    /\ \A i \in Assocs : recv[i] = "made" => At(owner[i], "store") /\ thr[owner[i]].assoc = i
    /\ \A i \in Assocs : recv[i] \in {"waiting", "handling", "ended"} => sessions[owner[i]] = i
    /\ \A c \in Conns : sessions[c] # Nil =>
         owner[sessions[c]] = c /\ recv[sessions[c]] \in {"waiting", "handling", "ended"}

(* After the loop: the sender is closed, then the conn.                    *)
EndInv ==
    /\ \A i \in Assocs : recv[i] \in {"senderClosed", "done"} => closed[i] = "closed"
    /\ \A i \in Assocs : recv[i] = "done" => conn[owner[i]].state = "closed"
    /\ \A k \in Closers : closer[k].pc = "returned" /\ closer[k].assoc # Nil
                            => recv[closer[k].assoc] = "done"

UdpInv == UdpTypeOK /\ (mode = "relay" => OwnerInv /\ TableInv /\ EndInv)
-----------------------------------------------------------------------------
(* What the steps of a thread, a conn and a closeSession call assign.       *)
LEMMA ThreadSteps ==
  ASSUME thr \in [Threads -> ThreadRecs], NEW t \in Threads, NEW to \in ThreadPcs
  PROVE  /\ \A i \in Assocs \cup {Nil} : Goto(t, to, i) =>
              /\ thr' \in [Threads -> ThreadRecs]
              /\ thr'[t].pc = to /\ thr'[t].conn = thr[t].conn /\ thr'[t].assoc = i
              /\ \A u \in Threads \ {t} : thr'[u] = thr[u]
         /\ Step(t, to) =>
              /\ thr' \in [Threads -> ThreadRecs]
              /\ thr'[t].pc = to /\ thr'[t].conn = thr[t].conn /\ thr'[t].assoc = thr[t].assoc
              /\ \A u \in Threads \ {t} : thr'[u] = thr[u]
         /\ \A c \in Conns : Enter(t, to, c) =>
              /\ thr' \in [Threads -> ThreadRecs]
              /\ thr'[t].pc = to /\ thr'[t].conn = c /\ thr'[t].assoc = Nil
              /\ \A u \in Threads \ {t} : thr'[u] = thr[u]
         /\ Leave(t) =>
              /\ thr' \in [Threads -> ThreadRecs]
              /\ thr'[t].pc = "idle" /\ thr'[t].assoc = Nil
              /\ \A u \in Threads \ {t} : thr'[u] = thr[u]
         /\ \A p \in Packets : Carry(t, p) =>
              /\ thr' \in [Threads -> ThreadRecs]
              /\ thr'[t].pc = "push" /\ thr'[t].conn = thr[t].conn /\ thr'[t].assoc = thr[t].assoc
              /\ \A u \in Threads \ {t} : thr'[u] = thr[u]
<1>1. ASSUME NEW i \in Assocs \cup {Nil}, Goto(t, to, i)
      PROVE  /\ thr' \in [Threads -> ThreadRecs]
             /\ thr'[t].pc = to /\ thr'[t].conn = thr[t].conn /\ thr'[t].assoc = i
             /\ \A u \in Threads \ {t} : thr'[u] = thr[u]
  BY <1>1 DEF Goto, ThreadRecs
<1>2. ASSUME Step(t, to)
      PROVE  /\ thr' \in [Threads -> ThreadRecs]
             /\ thr'[t].pc = to /\ thr'[t].conn = thr[t].conn /\ thr'[t].assoc = thr[t].assoc
             /\ \A u \in Threads \ {t} : thr'[u] = thr[u]
  BY <1>2 DEF Step, ThreadRecs
<1>3. ASSUME NEW c \in Conns, Enter(t, to, c)
      PROVE  /\ thr' \in [Threads -> ThreadRecs]
             /\ thr'[t].pc = to /\ thr'[t].conn = c /\ thr'[t].assoc = Nil
             /\ \A u \in Threads \ {t} : thr'[u] = thr[u]
  BY <1>3 DEF Enter, ThreadRecs
<1>4. ASSUME Leave(t)
      PROVE  /\ thr' \in [Threads -> ThreadRecs]
             /\ thr'[t].pc = "idle" /\ thr'[t].assoc = Nil
             /\ \A u \in Threads \ {t} : thr'[u] = thr[u]
  BY <1>4 DEF Leave, Idle, ThreadRecs, ThreadPcs
<1>5. ASSUME NEW p \in Packets, Carry(t, p)
      PROVE  /\ thr' \in [Threads -> ThreadRecs]
             /\ thr'[t].pc = "push" /\ thr'[t].conn = thr[t].conn /\ thr'[t].assoc = thr[t].assoc
             /\ \A u \in Threads \ {t} : thr'[u] = thr[u]
  <2> DEFINE r == [thr[t] EXCEPT !.pc = "push", !.pkt = p]
  <2>1. r \in ThreadRecs /\ r.pc = "push" /\ r.conn = thr[t].conn /\ r.assoc = thr[t].assoc
    BY DEF ThreadRecs, ThreadPcs
  <2>2. thr' = [thr EXCEPT ![t] = r]
    BY <1>5 DEF Carry
  <2> HIDE DEF r
  <2> QED
    BY <2>1, <2>2
<1> QED
  BY <1>1, <1>2, <1>3, <1>4, <1>5

(* What a conn of the stack becomes.                                       *)
LEMMA ConnSteps ==
  ASSUME conn \in [Conns -> ConnRecs], NEW c
  PROVE  /\ \A s \in ConnStates : Become(c, s) =>
              /\ conn' \in [Conns -> ConnRecs]
              /\ c \in Conns => conn'[c].state = s /\ conn'[c].addr = conn[c].addr
              /\ \A d \in Conns : d # c => conn'[d] = conn[d]
         /\ \A a \in Addrs : c \in Conns /\ Arrive(c, a) =>
              /\ conn' \in [Conns -> ConnRecs]
              /\ conn'[c].state = "connecting" /\ conn'[c].addr = a
              /\ \A d \in Conns : d # c => conn'[d] = conn[d]
         /\ \A n \in Nat : Hold(c, n) =>
              /\ conn' \in [Conns -> ConnRecs]
              /\ \A d \in Conns : conn'[d].state = conn[d].state /\ conn'[d].addr = conn[d].addr
<1>1. ASSUME NEW s \in ConnStates, Become(c, s)
      PROVE  /\ conn' \in [Conns -> ConnRecs]
             /\ c \in Conns => conn'[c].state = s /\ conn'[c].addr = conn[c].addr
             /\ \A d \in Conns : d # c => conn'[d] = conn[d]
  BY <1>1 DEF Become, ConnRecs
<1>3. ASSUME NEW a \in Addrs, c \in Conns, Arrive(c, a)
      PROVE  /\ conn' \in [Conns -> ConnRecs]
             /\ conn'[c].state = "connecting" /\ conn'[c].addr = a
             /\ \A d \in Conns : d # c => conn'[d] = conn[d]
  BY <1>3 DEF Arrive, ConnRecs, ConnStates
<1>2. ASSUME NEW n \in Nat, Hold(c, n)
      PROVE  /\ conn' \in [Conns -> ConnRecs]
             /\ \A d \in Conns : conn'[d].state = conn[d].state /\ conn'[d].addr = conn[d].addr
  BY <1>2 DEF Hold, ConnRecs
<1> QED
  BY <1>1, <1>2, <1>3

(* A thread that returns from its handler.                                 *)
LEMMA ReturnSteps ==
  ASSUME thr \in [Threads -> ThreadRecs], NEW t \in Threads, Return(t)
  PROVE  /\ thr' \in [Threads -> ThreadRecs]
         /\ thr'[t].pc \in {"idle", "drain"} /\ thr'[t].assoc = Nil
         /\ thr'[t].pc = "drain" => t \in Conns /\ thr'[t].conn = t
         /\ \A u \in Threads \ {t} : thr'[u] = thr[u]
BY ThreadSteps DEF Return, ThreadPcs, Threads

(* Where a closeSession call goes next.                                    *)
LEMMA CloserSteps ==
  ASSUME closer \in [Closers -> CloserRecs], NEW k \in Closers,
         NEW to \in {"idle", "close", "wait", "returned"}, NEW i \in Assocs \cup {Nil},
         CloserAt(k, to, i)
  PROVE  /\ closer' \in [Closers -> CloserRecs]
         /\ closer'[k].pc = to /\ closer'[k].assoc = i
         /\ \A l \in Closers \ {k} : closer'[l] = closer[l]
BY DEF CloserAt, CloserRecs

(* The records of the threads, the conns and the calls.                    *)
LEMMA Fields ==
  ASSUME UdpTypeOK
  PROVE  /\ \A t \in Threads : /\ thr[t].pc \in ThreadPcs /\ thr[t].conn \in Conns \cup {Nil}
                               /\ thr[t].assoc \in Assocs \cup {Nil}
         /\ \A c \in Conns : /\ conn[c].addr \in Addrs \cup {Nil} /\ conn[c].state \in ConnStates
                             /\ conn[c].pending \in Nat
         /\ \A k \in Closers : /\ closer[k].assoc \in Assocs \cup {Nil}
                               /\ closer[k].pc \in {"idle", "close", "wait", "returned"}
         /\ Conns \subseteq Threads
BY DEF UdpTypeOK, ThreadRecs, ConnRecs, CloserRecs, Threads

(* The types and the relay handler's part, over the steps of each actor.   *)
SessionInv == mode = "relay" => OwnerInv /\ TableInv /\ EndInv

(* The stack delivers a packet: to a conn, or to the input thread.         *)
LEMMA DeliverKeeps ==
  ASSUME UdpInv, NEW a \in Addrs, Deliver(a)
  PROVE  UdpInv'
<1>0. /\ conn \in [Conns -> ConnRecs] /\ thr \in [Threads -> ThreadRecs]
      /\ Conns \subseteq Threads /\ "input" \in Threads
  BY DEF UdpInv, UdpTypeOK, Threads
<1>1. ASSUME NEW c \in Conns, Hold(c, conn[c].pending + 1), UNCHANGED thr PROVE UdpInv'
  <2>1. conn[c].pending + 1 \in Nat
    BY Fields DEF UdpInv
  <2>2. /\ conn' \in [Conns -> ConnRecs]
        /\ \A d \in Conns : conn'[d].state = conn[d].state /\ conn'[d].addr = conn[d].addr
    BY <1>0, <1>1, <2>1, ConnSteps
  <2>3. UdpTypeOK'
    BY <1>1, <2>2 DEF UdpInv, UdpTypeOK, Deliver, truncVars, At
  <2>4. SessionInv'
    BY <1>1, <2>2 DEF UdpInv, UdpTypeOK, SessionInv, OwnerInv, TableInv, EndInv, Deliver, truncVars, At
  <2> QED
    BY <2>3, <2>4 DEF UdpInv, SessionInv
<1>2. ASSUME NEW c \in Conns, conn[c].state = "unused", Arrive(c, a), Enter(c, "connect", c)
      PROVE  UdpInv'
  <2>1. /\ conn' \in [Conns -> ConnRecs]
        /\ conn'[c].state = "connecting" /\ conn'[c].addr = a
        /\ \A d \in Conns : d # c => conn'[d] = conn[d]
    BY <1>0, <1>2, ConnSteps
  <2>2. /\ thr' \in [Threads -> ThreadRecs]
        /\ thr'[c].pc = "connect" /\ thr'[c].conn = c /\ thr'[c].assoc = Nil
        /\ \A u \in Threads \ {c} : thr'[u] = thr[u]
    BY <1>0, <1>2, ThreadSteps DEF ThreadPcs
  <2>3. UdpTypeOK'
    BY <1>2, <2>1, <2>2 DEF UdpInv, UdpTypeOK, Deliver, truncVars, At
  <2>4. mode = "relay" => OwnerInv'
    <3> SUFFICES ASSUME mode = "relay" PROVE OwnerInv'
      OBVIOUS
    <3>1. OwnerInv /\ UNCHANGED <<recv, owner>>
      BY <1>2 DEF Deliver, UdpInv, truncVars
    <3> QED
      BY <1>0, <1>2, <2>1, <2>2, <3>1, NamesAssumption DEF OwnerInv, At
  <2>5. mode = "relay" => TableInv'
    <3> SUFFICES ASSUME mode = "relay" PROVE TableInv'
      OBVIOUS
    <3>1. \A d \in Conns : ~ At(d, "idle") => d # c
      BY <1>2 DEF UdpInv, OwnerInv, At
    <3>2. OwnerInv /\ TableInv /\ UNCHANGED <<recv, owner, sessions>>
      BY <1>2 DEF Deliver, UdpInv, truncVars
    <3> QED
      BY <1>0, <2>2, <3>1, <3>2, NamesAssumption DEF OwnerInv, TableInv, At
  <2>6. mode = "relay" => EndInv'
    BY <1>0, <1>2, <2>1, <2>2, NamesAssumption
       DEF UdpInv, UdpTypeOK, OwnerInv, EndInv, Deliver, truncVars, At
  <2> QED
    BY <1>2, <2>3, <2>4, <2>5, <2>6 DEF UdpInv, Deliver
<1>3. ASSUME NEW c \in Conns, conn[c].addr = a, conn[c].state = "connected", UNCHANGED conn,
             At("input", "idle"), Enter("input", "lookup", c)
      PROVE  UdpInv'
  <2>0. "input" \in Threads
    BY DEF Threads
  <2>2. /\ thr' \in [Threads -> ThreadRecs]
        /\ thr'["input"].pc = "lookup" /\ thr'["input"].conn = c
        /\ \A u \in Threads \ {"input"} : thr'[u] = thr[u]
    BY <1>0, <1>3, <2>0, ThreadSteps DEF ThreadPcs
  <2>3. UdpTypeOK'
    BY <1>3, <2>2, <2>0 DEF UdpInv, UdpTypeOK, Deliver, truncVars, At
  <2>4. SessionInv'
    BY <1>0, <1>3, <2>0, <2>2, NamesAssumption
       DEF UdpInv, SessionInv, OwnerInv, TableInv, EndInv, Deliver, truncVars, At
  <2> QED
    BY <2>3, <2>4 DEF UdpInv, SessionInv
<1> QED
  BY <1>1, <1>2, <1>3 DEF Deliver

(* ReceiveTo and WriteTo of either handler.                                *)
LEMMA HandlerKeeps ==
  ASSUME UdpInv, NEW t \in Threads, Handler(t)
  PROVE  UdpInv'
<1>0. /\ conn \in [Conns -> ConnRecs] /\ thr \in [Threads -> ThreadRecs] /\ Conns \subseteq Threads
      /\ thr[t].conn \in Conns \cup {Nil} /\ thr[t].assoc \in Assocs \cup {Nil}
      /\ "input" \in Threads
  BY Fields DEF UdpInv, UdpTypeOK, Threads
<1>1. CASE RelayLookup(t)
  <2>1. /\ thr' \in [Threads -> ThreadRecs]
        /\ thr'[t].pc \in {"idle", "drain", "send"}
        /\ thr'[t].pc = "drain" => t \in Conns /\ thr'[t].conn = t
        /\ thr'[t].pc = "send" => thr'[t].conn = thr[t].conn
        /\ \A u \in Threads \ {t} : thr'[u] = thr[u]
    <3>1. CASE Return(t)
      BY <1>0, <3>1, ReturnSteps
    <3>2. CASE sessions[thr[t].conn] # Nil
      <4>1. sessions[thr[t].conn] \in Assocs \cup {Nil}
        BY <1>1 DEF UdpInv, UdpTypeOK, RelayLookup, At
      <4> QED
        BY <1>0, <1>1, <3>2, <4>1, ThreadSteps DEF RelayLookup, ThreadPcs
    <3> QED
      BY <1>1, <3>1, <3>2 DEF RelayLookup
  <2>3. UdpTypeOK'
    BY <1>0, <1>1, <2>1, NamesAssumption DEF UdpInv, UdpTypeOK, RelayLookup, truncVars, At
  <2>4. SessionInv'
    BY <1>0, <1>1, <2>1, NamesAssumption
       DEF UdpInv, SessionInv, OwnerInv, TableInv, EndInv, RelayLookup, truncVars, At
  <2> QED
    BY <2>3, <2>4 DEF UdpInv, SessionInv
<1>2. CASE ProxyLookup(t)
  <2>1. senders[conn[thr[t].conn].addr] \in Assocs \cup {Nil}
    BY <1>2 DEF UdpInv, UdpTypeOK, ProxyLookup, At
  <2>2. /\ thr' \in [Threads -> ThreadRecs]
        /\ thr'[t].pc \in {"new", "send"} /\ thr'[t].conn = thr[t].conn
        /\ \A u \in Threads \ {t} : thr'[u] = thr[u]
    BY <1>0, <1>2, <2>1, ThreadSteps DEF ProxyLookup, ThreadPcs
  <2> QED
    BY <1>0, <1>2, <2>2 DEF UdpInv, UdpTypeOK, ProxyLookup, truncVars, At
<1>3. CASE NewSession(t)
  <2>0. thr[t].conn \in Conns /\ mode = "proxy"
    BY <1>3 DEF NewSession, UdpInv, UdpTypeOK, TableInv, At
  <2>1. ASSUME NEW i \in Assocs, recv' = [recv EXCEPT ![i] = "waiting"],
               owner' = [owner EXCEPT ![i] = thr[t].conn], Goto(t, "register", i),
               UNCHANGED <<conn, closed, senders>>
        PROVE  UdpInv'
    <3>1. /\ thr' \in [Threads -> ThreadRecs]
          /\ thr'[t].pc = "register" /\ thr'[t].conn = thr[t].conn
          /\ \A u \in Threads \ {t} : thr'[u] = thr[u]
      BY <1>0, <2>1, ThreadSteps DEF ThreadPcs
    <3>2. recv' \in [Assocs -> LoopStates] /\ owner' \in [Assocs -> Conns \cup {Nil}]
      BY <2>0, <2>1 DEF UdpInv, UdpTypeOK, LoopStates
    <3> QED
      BY <1>0, <1>3, <2>0, <2>1, <3>1, <3>2 DEF UdpInv, UdpTypeOK, NewSession, At
  <2>2. ASSUME CloseSession(thr[t].conn), Return(t), UNCHANGED <<recv, owner>> PROVE UdpInv'
    <3>1. /\ thr' \in [Threads -> ThreadRecs]
          /\ thr'[t].pc \in {"idle", "drain"}
          /\ thr'[t].pc = "drain" => t \in Conns /\ thr'[t].conn = t
          /\ \A u \in Threads \ {t} : thr'[u] = thr[u]
      BY <1>0, <2>2, ReturnSteps
    <3>2. /\ conn' \in [Conns -> ConnRecs]
          /\ conn'[thr[t].conn].state = "closed" /\ conn'[thr[t].conn].addr = conn[thr[t].conn].addr
          /\ \A d \in Conns : d # thr[t].conn => conn'[d] = conn[d]
      BY <1>0, <2>0, <2>2, ConnSteps DEF CloseSession, Shut, ConnStates
    <3>3. closed' \in [Assocs -> {"open", "closed"}] /\ senders' \in [Addrs -> Assocs \cup {Nil}]
      BY <2>2 DEF CloseSession, UdpInv, UdpTypeOK
    <3>4. thr[t].conn = t \/ t = "input"
      BY <1>3 DEF NewSession, UdpInv, UdpTypeOK, At
    <3> QED
      BY <1>0, <1>3, <2>0, <2>2, <3>1, <3>2, <3>3, <3>4, NamesAssumption
         DEF UdpInv, UdpTypeOK, NewSession, At
  <2> QED
    BY <1>3, <2>1, <2>2 DEF NewSession
<1>4. CASE Register(t)
  <2>1. /\ thr' \in [Threads -> ThreadRecs]
        /\ thr'[t].pc = "send" /\ thr'[t].conn = thr[t].conn
        /\ \A u \in Threads \ {t} : thr'[u] = thr[u]
    BY <1>0, <1>4, ThreadSteps DEF Register, ThreadPcs
  <2>2. senders' \in [Addrs -> Assocs \cup {Nil}] /\ mode = "proxy"
    BY <1>0, <1>4 DEF Register, UdpInv, UdpTypeOK, TableInv, At
  <2> QED
    BY <1>0, <1>4, <2>1, <2>2 DEF UdpInv, UdpTypeOK, Register, truncVars, At
<1>5. CASE ToSend(t)
  <2>1. /\ thr' \in [Threads -> ThreadRecs]
        /\ thr'[t].pc = "push" /\ thr'[t].conn = thr[t].conn /\ thr'[t].assoc = thr[t].assoc
        /\ \A u \in Threads \ {t} : thr'[u] = thr[u]
    BY <1>0, <1>5, ThreadSteps DEF ToSend, ThreadPcs
  <2>2. UdpTypeOK'
    BY <1>5, <2>1 DEF UdpInv, UdpTypeOK, ToSend, SendLock, At
  <2>3. SessionInv'
    BY <1>0, <1>5, <2>1, NamesAssumption
       DEF UdpInv, SessionInv, OwnerInv, TableInv, EndInv, ToSend, SendLock, At
  <2> QED
    BY <2>2, <2>3 DEF UdpInv, SessionInv
<1>6. CASE FinishSend(t)
  <2>1. /\ thr' \in [Threads -> ThreadRecs]
        /\ thr'[t].pc \in {"idle", "drain"}
        /\ thr'[t].pc = "drain" => t \in Conns /\ thr'[t].conn = t
        /\ \A u \in Threads \ {t} : thr'[u] = thr[u]
    BY <1>0, <1>6, ReturnSteps DEF FinishSend
  <2>2. UdpTypeOK'
    BY <1>0, <1>6, <2>1, NamesAssumption DEF UdpInv, UdpTypeOK, FinishSend, SendPacket, At
  <2>3. SessionInv'
    BY <1>0, <1>6, <2>1, NamesAssumption
       DEF UdpInv, SessionInv, OwnerInv, TableInv, EndInv, FinishSend, SendPacket, At
  <2> QED
    BY <2>2, <2>3 DEF UdpInv, SessionInv
<1> QED
  BY <1>1, <1>2, <1>3, <1>4, <1>5, <1>6 DEF Handler

(* The connecting goroutine.                                               *)
LEMMA ConnectingKeeps ==
  ASSUME UdpInv, NEW c \in Conns, Connecting(c)
  PROVE  UdpInv'
<1>0. /\ conn \in [Conns -> ConnRecs] /\ thr \in [Threads -> ThreadRecs] /\ Conns \subseteq Threads
      /\ "input" \in Threads /\ c \in Threads /\ c # "input" /\ c # Nil
      /\ thr[c].assoc \in Assocs \cup {Nil}
  BY Fields, NamesAssumption DEF UdpInv, UdpTypeOK, Threads
<1>1. CASE RelayConnect(c)
  <2>1. ASSUME NEW i \in Assocs, recv[i] = "unmade", NewAssociation(i),
               owner' = [owner EXCEPT ![i] = c], Goto(c, "store", i), UNCHANGED conn
        PROVE  UdpInv'
    <3>1. /\ thr' \in [Threads -> ThreadRecs]
          /\ thr'[c].pc = "store" /\ thr'[c].conn = thr[c].conn /\ thr'[c].assoc = i
          /\ \A u \in Threads \ {c} : thr'[u] = thr[u]
      BY <1>0, <2>1, ThreadSteps DEF ThreadPcs
    <3>2. /\ recv' \in [Assocs -> LoopStates] /\ owner' \in [Assocs -> Conns \cup {Nil}]
          /\ recv'[i] = "made" /\ owner'[i] = c
          /\ \A j \in Assocs \ {i} : recv'[j] = recv[j] /\ owner'[j] = owner[j]
      BY <2>1 DEF UdpInv, UdpTypeOK, LoopStates, NewAssociation
    <3>3. UdpTypeOK'
      BY <1>0, <1>1, <2>1, <3>1, <3>2 DEF UdpInv, UdpTypeOK, RelayConnect, NewAssociation, At
    <3>4. /\ OwnerInv /\ TableInv /\ EndInv /\ mode' = "relay"
          /\ UNCHANGED <<sessions, closed, closer, conn>>
          /\ At(c, "connect")
      BY <1>1, <2>1 DEF UdpInv, RelayConnect, NewAssociation
    <3>5. OwnerInv'
      BY <1>0, <2>1, <3>1, <3>2, <3>4 DEF OwnerInv, At
    <3>6. TableInv'
      <4>1. \A d \in Conns : sessions[d] \in Assocs \cup {Nil}
        BY DEF UdpInv, UdpTypeOK
      <4> QED
        BY <1>0, <2>1, <3>1, <3>2, <3>4, <4>1 DEF OwnerInv, TableInv, At
    <3>7. EndInv'
      <4>1. \A k \in Closers : closer[k].assoc \in Assocs \cup {Nil}
        BY Fields DEF UdpInv
      <4> QED
        BY <2>1, <3>2, <3>4, <4>1 DEF EndInv
    <3> QED
      BY <3>3, <3>5, <3>6, <3>7 DEF UdpInv
  <2>2. ASSUME Leave(c), Shut(c), UNCHANGED <<truncVars, owner>> PROVE UdpInv'
    <3>1. /\ thr' \in [Threads -> ThreadRecs]
          /\ thr'[c].pc = "idle"
          /\ \A u \in Threads \ {c} : thr'[u] = thr[u]
      BY <1>0, <2>2, ThreadSteps DEF ThreadPcs
    <3>2. /\ conn' \in [Conns -> ConnRecs]
          /\ conn'[c].state = "closed" /\ conn'[c].addr = conn[c].addr
          /\ \A d \in Conns : d # c => conn'[d] = conn[d]
      BY <1>0, <2>2, ConnSteps DEF Shut, ConnStates
    <3>3. UdpTypeOK'
      BY <1>0, <1>1, <2>2, <3>1, <3>2 DEF UdpInv, UdpTypeOK, RelayConnect, truncVars, At
    <3>4. /\ OwnerInv /\ TableInv /\ EndInv /\ mode' = "relay"
          /\ UNCHANGED <<sessions, closed, closer, recv, owner>>
          /\ At(c, "connect")
      BY <1>1, <2>2 DEF UdpInv, RelayConnect, truncVars
    <3>5. OwnerInv'
      BY <1>0, <3>1, <3>2, <3>4 DEF OwnerInv, At
    <3>6. TableInv'
      BY <1>0, <3>1, <3>2, <3>4 DEF OwnerInv, TableInv, At
    <3>7. EndInv'
      BY <3>2, <3>4 DEF EndInv, OwnerInv
    <3> QED
      BY <3>3, <3>5, <3>6, <3>7 DEF UdpInv
  <2> QED
    BY <1>1, <2>1, <2>2 DEF RelayConnect
<1>2. CASE StoreSession(c)
  <2>1. /\ thr' \in [Threads -> ThreadRecs]
        /\ thr'[c].pc = "connected" /\ thr'[c].conn = thr[c].conn
        /\ \A u \in Threads \ {c} : thr'[u] = thr[u]
    BY <1>0, <1>2, ThreadSteps DEF StoreSession, ThreadPcs
  <2>2. /\ recv' \in [Assocs -> LoopStates] /\ sessions' \in [Conns -> Assocs \cup {Nil}]
        /\ sessions'[c] = thr[c].assoc
        /\ thr[c].assoc \in Assocs => recv'[thr[c].assoc] = "waiting"
        /\ \A d \in Conns \ {c} : sessions'[d] = sessions[d]
        /\ \A j \in Assocs \ {thr[c].assoc} : recv'[j] = recv[j]
    BY <1>0, <1>2 DEF UdpInv, UdpTypeOK, LoopStates, StoreSession
  <2>3. UdpTypeOK'
    BY <1>0, <1>2, <2>1, <2>2 DEF UdpInv, UdpTypeOK, StoreSession, At
  <2>4. ASSUME mode = "relay" PROVE OwnerInv' /\ TableInv' /\ EndInv'
    <3>1. /\ OwnerInv /\ TableInv /\ EndInv /\ At(c, "store")
          /\ UNCHANGED <<closed, closer, owner, conn>>
      BY <1>2, <2>4 DEF UdpInv, StoreSession
    <3>2. OwnerInv'
      BY <1>0, <2>1, <2>2, <3>1 DEF OwnerInv, TableInv, At
    <3>3. TableInv'
      <4>1. \A d \in Conns : sessions[d] \in Assocs \cup {Nil}
        BY DEF UdpInv, UdpTypeOK
      <4> QED
        BY <1>0, <2>1, <2>2, <3>1, <4>1, SMTT(30) DEF OwnerInv, TableInv, At
    <3>4. EndInv'
      <4>1. \A k \in Closers : closer[k].assoc \in Assocs \cup {Nil}
        BY Fields DEF UdpInv
      <4> QED
        BY <2>2, <3>1, <4>1 DEF EndInv, TableInv
    <3> QED
      BY <3>2, <3>3, <3>4
  <2> QED
    BY <1>2, <2>3, <2>4 DEF UdpInv, StoreSession
<1>3. CASE ProxyConnect(c)
  <2>1. /\ thr' \in [Threads -> ThreadRecs]
        /\ thr'[c].pc = "connected" /\ thr'[c].conn = thr[c].conn
        /\ \A u \in Threads \ {c} : thr'[u] = thr[u]
    BY <1>0, <1>3, ThreadSteps DEF ProxyConnect, ThreadPcs
  <2> QED
    BY <1>0, <1>3, <2>1 DEF UdpInv, UdpTypeOK, ProxyConnect, truncVars, At
<1>4. CASE Connected(c)
  <2>1. /\ thr' \in [Threads -> ThreadRecs]
        /\ thr'[c].pc = "drain" /\ thr'[c].conn = thr[c].conn
        /\ \A u \in Threads \ {c} : thr'[u] = thr[u]
    BY <1>0, <1>4, ThreadSteps DEF Connected, ThreadPcs
  <2>2. /\ conn' \in [Conns -> ConnRecs]
        /\ \A d \in Conns : conn'[d].addr = conn[d].addr
        /\ \A d \in Conns : conn[d].state \in {"unused", "closed"} => conn'[d].state = conn[d].state
        /\ \A d \in Conns : conn'[d].state = "unused" => conn[d].state = "unused"
    BY <1>0, <1>4, ConnSteps DEF Connected, ConnStates, Live
  <2>3. UdpTypeOK'
    BY <1>0, <1>4, <2>1, <2>2 DEF UdpInv, UdpTypeOK, Connected, truncVars, At
  <2>4. ASSUME mode = "relay" PROVE OwnerInv' /\ TableInv' /\ EndInv'
    <3>1. /\ OwnerInv /\ TableInv /\ EndInv /\ At(c, "connected")
          /\ UNCHANGED <<recv, sessions, closed, closer, owner>>
      BY <1>4, <2>4 DEF UdpInv, Connected, truncVars
    <3>2. OwnerInv'
      BY <1>0, <2>1, <2>2, <3>1 DEF OwnerInv, At
    <3>3. TableInv'
      BY <1>0, <2>1, <2>2, <3>1 DEF OwnerInv, TableInv, At
    <3>4. EndInv'
      BY <2>2, <3>1 DEF EndInv, OwnerInv
    <3> QED
      BY <3>2, <3>3, <3>4
  <2> QED
    BY <1>4, <2>3, <2>4 DEF UdpInv, Connected
<1>5. CASE Drain(c)
  <2>1. /\ thr' \in [Threads -> ThreadRecs]
        /\ thr'[c].pc \in {"lookup", "idle"}
        /\ thr'[c].pc = "lookup" => thr'[c].conn = thr[c].conn
        /\ \A u \in Threads \ {c} : thr'[u] = thr[u]
    BY <1>0, <1>5, ThreadSteps DEF Drain, ThreadPcs
  <2>2. /\ conn' \in [Conns -> ConnRecs]
        /\ \A d \in Conns : conn'[d].addr = conn[d].addr /\ conn'[d].state = conn[d].state
    <3>1. conn[c].pending > 0 => conn[c].pending - 1 \in Nat
      BY Fields DEF UdpInv
    <3> QED
      BY <1>0, <1>5, <3>1, ConnSteps DEF Drain
  <2>3. UdpTypeOK'
    BY <1>0, <1>5, <2>1, <2>2 DEF UdpInv, UdpTypeOK, Drain, truncVars, At
  <2>4. ASSUME mode = "relay" PROVE OwnerInv' /\ TableInv' /\ EndInv'
    <3>1. /\ OwnerInv /\ TableInv /\ EndInv /\ At(c, "drain")
          /\ UNCHANGED <<recv, sessions, closed, closer, owner>>
      BY <1>5, <2>4 DEF UdpInv, Drain, truncVars
    <3>2. OwnerInv'
      BY <1>0, <2>1, <2>2, <3>1 DEF OwnerInv, At
    <3>3. TableInv'
      BY <1>0, <2>1, <2>2, <3>1 DEF OwnerInv, TableInv, At
    <3>4. EndInv'
      BY <2>2, <3>1 DEF EndInv, OwnerInv
    <3> QED
      BY <3>2, <3>3, <3>4
  <2> QED
    BY <1>5, <2>3, <2>4 DEF UdpInv, Drain
<1> QED
  BY <1>1, <1>2, <1>3, <1>4, <1>5 DEF Connecting

(* The receive loop and what follows it.                                   *)
LEMMA LoopKeeps ==
  ASSUME UdpInv, NEW i \in Assocs, Loop(i)
  PROVE  UdpInv'
<1>0. /\ conn \in [Conns -> ConnRecs] /\ \A c \in Conns : sessions[c] \in Assocs \cup {Nil}
      /\ \A k \in Closers : closer[k].assoc \in Assocs \cup {Nil}
      /\ owner[i] \in Conns \cup {Nil} /\ Nil \notin Assocs /\ Nil \notin Conns
  BY Fields, NamesAssumption DEF UdpInv, UdpTypeOK
<1>1. CASE Receive(i) \/ WriteToConn(i)
  <2>1. /\ recv' \in [Assocs -> LoopStates]
        /\ recv[i] \in {"waiting", "handling"} /\ recv'[i] \in {"waiting", "handling", "ended"}
        /\ \A j \in Assocs \ {i} : recv'[j] = recv[j]
        /\ UNCHANGED <<closed, lwipVars>>
    BY <1>1 DEF UdpInv, UdpTypeOK, LoopStates, Receive, TakeAnswer, RangeEnds, WriteToConn, Handled
  <2>2. UdpTypeOK'
    BY <2>1 DEF UdpInv, UdpTypeOK, lwipVars, At
  <2>3. ASSUME mode = "relay" PROVE OwnerInv' /\ TableInv' /\ EndInv'
    <3>1. OwnerInv /\ TableInv /\ EndInv
      BY <2>3 DEF UdpInv
    <3> QED
      BY <1>0, <2>1, <3>1 DEF OwnerInv, TableInv, EndInv, lwipVars, At
  <2> QED
    BY <2>1, <2>2, <2>3 DEF UdpInv, lwipVars
<1>2. CASE Unlink(i)
  <2>1. /\ recv' \in [Assocs -> LoopStates] /\ sessions' \in [Conns -> Assocs \cup {Nil}]
        /\ recv[i] = "ended" /\ recv'[i] = "unlinked"
        /\ \A j \in Assocs \ {i} : recv'[j] = recv[j]
        /\ owner[i] \in Conns => sessions'[owner[i]] = Nil
        /\ \A c \in Conns : c # owner[i] => sessions'[c] = sessions[c]
    BY <1>2 DEF UdpInv, UdpTypeOK, LoopStates, Unlink
  <2>2. UdpTypeOK'
    BY <1>2, <2>1 DEF UdpInv, UdpTypeOK, Unlink, At
  <2>3. /\ OwnerInv /\ TableInv /\ EndInv /\ mode' = "relay"
        /\ UNCHANGED <<closed, conn, thr, owner, closer>>
    BY <1>2 DEF UdpInv, Unlink
  <2>4. OwnerInv'
    BY <2>1, <2>3 DEF OwnerInv, At
  <2>5. TableInv'
    BY <1>0, <2>1, <2>3 DEF OwnerInv, TableInv, At
  <2>6. EndInv'
    BY <1>0, <2>1, <2>3 DEF EndInv
  <2> QED
    BY <2>2, <2>4, <2>5, <2>6 DEF UdpInv
<1>3. CASE CloseOwnSender(i)
  <2>1. /\ recv' \in [Assocs -> LoopStates] /\ closed' \in [Assocs -> {"open", "closed"}]
        /\ recv[i] = "unlinked" /\ recv'[i] = "senderClosed" /\ closed'[i] = "closed"
        /\ \A j \in Assocs \ {i} : recv'[j] = recv[j] /\ closed'[j] = closed[j]
        /\ UNCHANGED lwipVars
    BY <1>3 DEF UdpInv, UdpTypeOK, LoopStates, CloseOwnSender
  <2>2. UdpTypeOK'
    BY <2>1 DEF UdpInv, UdpTypeOK, lwipVars, At
  <2>3. ASSUME mode = "relay" PROVE OwnerInv' /\ TableInv' /\ EndInv'
    <3>1. OwnerInv /\ TableInv /\ EndInv
      BY <2>3 DEF UdpInv
    <3> QED
      BY <1>0, <2>1, <3>1 DEF OwnerInv, TableInv, EndInv, lwipVars, At
  <2> QED
    BY <2>1, <2>2, <2>3 DEF UdpInv, lwipVars
<1>4. CASE CloseOwnConn(i)
  <2>1. /\ recv' \in [Assocs -> LoopStates]
        /\ recv[i] = "senderClosed" /\ recv'[i] = "done"
        /\ \A j \in Assocs \ {i} : recv'[j] = recv[j]
    BY <1>4 DEF UdpInv, UdpTypeOK, LoopStates, CloseOwnConn
  <2>2. /\ conn' \in [Conns -> ConnRecs]
        /\ owner[i] \in Conns => conn'[owner[i]].state = "closed"
        /\ owner[i] \in Conns => conn'[owner[i]].addr = conn[owner[i]].addr
        /\ \A d \in Conns : d # owner[i] => conn'[d] = conn[d]
    BY <1>0, <1>4, ConnSteps DEF CloseOwnConn, Shut, ConnStates
  <2>3. UdpTypeOK'
    BY <1>4, <2>1, <2>2 DEF UdpInv, UdpTypeOK, CloseOwnConn, At
  <2>4. ASSUME mode = "relay" PROVE OwnerInv' /\ TableInv' /\ EndInv'
    <3>1. /\ OwnerInv /\ TableInv /\ EndInv
          /\ UNCHANGED <<closed, thr, owner, closer, sessions>>
      BY <1>4, <2>4 DEF UdpInv, CloseOwnConn
    <3>2. OwnerInv'
      BY <2>1, <2>2, <3>1 DEF OwnerInv, At
    <3>3. TableInv'
      BY <1>0, <2>1, <3>1 DEF OwnerInv, TableInv, At
    <3>4. EndInv'
      BY <1>0, <2>1, <2>2, <3>1 DEF OwnerInv, EndInv
    <3> QED
      BY <3>2, <3>3, <3>4
  <2> QED
    BY <1>4, <2>3, <2>4 DEF UdpInv, CloseOwnConn
<1>5. CASE CloseResponseWriter(i)
  <2>1. /\ recv' \in [Assocs -> LoopStates] /\ resp' \in [Assocs -> {"open", "closed"}]
        /\ closed' \in [Assocs -> {"open", "closed"}] /\ senders' \in [Addrs -> Assocs \cup {Nil}]
    BY <1>5 DEF UdpInv, UdpTypeOK, LoopStates, CloseResponseWriter, CloseSession
  <2>2. /\ conn' \in [Conns -> ConnRecs]
        /\ owner[i] \in Conns => conn'[owner[i]].state = "closed"
        /\ owner[i] \in Conns => conn'[owner[i]].addr = conn[owner[i]].addr
        /\ \A d \in Conns : d # owner[i] => conn'[d] = conn[d]
    BY <1>0, <1>5, ConnSteps DEF CloseResponseWriter, CloseSession, Shut, ConnStates
  <2> QED
    BY <1>5, <2>1, <2>2 DEF UdpInv, UdpTypeOK, CloseResponseWriter, At
<1> QED
  BY <1>1, <1>2, <1>3, <1>4, <1>5 DEF Loop

(* closeSession of the relay handler.                                      *)
LEMMA CloserKeeps ==
  ASSUME UdpInv, NEW k \in Closers,
         Closing(k) \/ \E c \in Conns : CallCloseSession(k, c)
  PROVE  UdpInv'
<1>0. /\ closer \in [Closers -> CloserRecs] /\ closer[k].assoc \in Assocs \cup {Nil}
      /\ \A c \in Conns : sessions[c] \in Assocs \cup {Nil}
  BY Fields DEF UdpInv, UdpTypeOK
<1>1. /\ closer' \in [Closers -> CloserRecs]
      /\ closer'[k].pc = "returned" /\ closer'[k].assoc # Nil => recv[closer'[k].assoc] = "done"
      /\ \A l \in Closers \ {k} : closer'[l] = closer[l]
      /\ UNCHANGED <<mode, base, conn, senders, sessions, thr, owner, resp, recv>>
      /\ closed' \in [Assocs -> {"open", "closed"}]
      /\ \A i \in Assocs : closed[i] = "closed" => closed'[i] = "closed"
  <2>1. CASE CloserClosesSender(k)
    <3>1. closer[k].assoc \in Assocs \cup {Nil} /\ CloserAt(k, "wait", closer[k].assoc)
      BY <1>0, <2>1 DEF CloserClosesSender
    <3>2. /\ closer' \in [Closers -> CloserRecs] /\ closer'[k].pc = "wait"
          /\ \A l \in Closers \ {k} : closer'[l] = closer[l]
      BY <1>0, <3>1, CloserSteps
    <3>3. /\ closed' \in [Assocs -> {"open", "closed"}]
          /\ \A i \in Assocs : closed[i] = "closed" => closed'[i] = "closed"
          /\ UNCHANGED <<mode, base, conn, senders, sessions, thr, owner, resp, recv>>
      BY <2>1 DEF CloserClosesSender, CloseAssoc, UdpInv, UdpTypeOK
    <3> QED
      BY <3>2, <3>3
  <2>2. CASE CloserReturns(k)
    BY <1>0, <2>2, CloserSteps DEF CloserReturns, UdpInv, UdpTypeOK, truncVars
  <2>3. ASSUME NEW c \in Conns, CallCloseSession(k, c) PROVE <1>1!:
    BY <1>0, <2>3, CloserSteps DEF CallCloseSession, UdpInv, UdpTypeOK, truncVars
  <2> QED
    BY <2>1, <2>2, <2>3 DEF Closing
<1>2. UdpTypeOK'
  BY <1>1 DEF UdpInv, UdpTypeOK, At
<1>3. ASSUME mode = "relay" PROVE OwnerInv' /\ TableInv' /\ EndInv'
  BY <1>1, <1>3 DEF UdpInv, OwnerInv, TableInv, EndInv, At
<1> QED
  BY <1>1, <1>2, <1>3 DEF UdpInv

-----------------------------------------------------------------------------
(* The inductive invariant of the UDP handlers.                            *)
THEOREM UdpInvariance == Spec => []UdpInv
<1>1. Init => UdpInv
  <2> SUFFICES ASSUME Init PROVE UdpInv
    OBVIOUS
  <2>1. UdpTypeOK
    BY NamesAssumption DEF Init, TruncInit, UdpTypeOK, ConnRecs, ThreadRecs, CloserRecs, Idle, At,
       LoopStates, ThreadPcs, ConnStates, Threads
  <2> QED
    BY <2>1, NamesAssumption
       DEF Init, TruncInit, UdpInv, OwnerInv, TableInv, EndInv, Idle, At, Threads
<1>2. UdpInv /\ [Next]_vars => UdpInv'
  <2> SUFFICES ASSUME UdpInv, [Next]_vars PROVE UdpInv'
    OBVIOUS
  <2>1. CASE UNCHANGED vars
    BY <2>1 DEF vars, truncVars, lwipVars, UdpInv, UdpTypeOK, OwnerInv, TableInv, EndInv, At
  <2>2. ASSUME NEW b \in {"base", Nil}, SetRelay(b) \/ SetProxy(b) PROVE UdpInv'
    BY <2>2 DEF SetRelay, SetProxy, truncVars, UdpInv, UdpTypeOK, OwnerInv, TableInv, EndInv, At
  <2> QED
    BY <2>1, <2>2, DeliverKeeps, HandlerKeeps, ConnectingKeeps, LoopKeeps, CloserKeeps DEF Next
<1> QED
  BY <1>1, <1>2, PTL DEF Spec

(* The relay handler owns its sessions to the end, for any number of       *)
(* conns, associations and closeSession calls.                             *)
THEOREM SessionsOwned == Spec => []RelaySessionsOwned
<1>1. UdpInv => RelaySessionsOwned
  <2> SUFFICES ASSUME UdpInv, mode = "relay" PROVE RelaySessionsOwned
    BY DEF RelaySessionsOwned
  <2>1. OwnerInv /\ TableInv /\ EndInv /\ UdpTypeOK
    BY DEF UdpInv
  <2>2. \A c \in Conns : sessions[c] \in Assocs \cup {Nil}
    BY <2>1 DEF UdpTypeOK
  <2> QED
    BY <2>1, <2>2, NamesAssumption DEF OwnerInv, TableInv, EndInv, RelaySessionsOwned
<1> QED
  BY <1>1, UdpInvariance, PTL
=============================================================================
