---------------------------- MODULE RelaysProofs ----------------------------
(***************************************************************************)
(* Proofs about TimeoutRelay and ListenerRelay, for every timeout and      *)
(* every set of callers.                                                   *)
(***************************************************************************)
EXTENDS TimeoutRelay, ListenerRelay, FiniteSetTheorems, TLAPS

-----------------------------------------------------------------------------
(***************************************************************************)
(* TimeoutRelay: the idle timer is never lost, the inner association is    *)
(* closed exactly once, an idle close is never overtaken by a send, and    *)
(* the decorated association implements the safety part of the association *)
(* contract.                                                               *)
(***************************************************************************)
(* Every variable keeps its type: in particular the timer is never armed   *)
(* for more than the configured timeout, whatever checkTimeout re-arms.    *)
THEOREM TypeCorrect == Spec => []TypeOK
<1>1. Init => TypeOK
  <2>1. Init => closed \in BOOLEAN
    BY Zenon DEF Init
  <2> QED
    BY <2>1, TimeoutAssumption DEF Init, TypeOK, Stopped, SendStates, CloseStates
<1>2. TypeOK /\ [Next]_vars => TypeOK'
  <2> SUFFICES ASSUME TypeOK, [Next]_vars PROVE TypeOK'
    OBVIOUS
  <2> USE TimeoutAssumption DEF TypeOK, Stopped, SendStates, CloseStates
  <2>1. CASE Tick
    BY <2>1 DEF Tick
  <2>2. CASE Fire
    BY <2>2 DEF Fire
  <2>3. CASE CheckTimeout
    <3>1. closed' \in BOOLEAN
      BY <2>3, Zenon DEF CheckTimeout, CheckTimeoutWith
    <3> QED
      BY <2>3, <3>1 DEF CheckTimeout, CheckTimeoutWith
  <2>4. CASE CallbackClosesInner
    BY <2>4 DEF CallbackClosesInner
  <2>5. ASSUME NEW c \in Calls, SendPacket(c) PROVE TypeOK'
    BY <2>5 DEF SendPacket
  <2>6. ASSUME NEW c \in Calls, InnerSend(c) PROVE TypeOK'
    BY <2>6 DEF InnerSend
  <2>7. ASSUME NEW k \in Closers, Close(k) PROVE TypeOK'
    <3>1. closed' \in BOOLEAN
      BY <2>7, Zenon DEF Close
    <3> QED
      BY <2>7, <3>1 DEF Close
  <2>8. ASSUME NEW k \in Closers, CloserClosesInner(k) PROVE TypeOK'
    BY <2>8 DEF CloserClosesInner
  <2>9. CASE StartReceive \/ ReceiveEnds \/ ReceiveFails
    BY <2>9 DEF StartReceive, ReceiveEnds, ReceiveFails
  <2>10. CASE UNCHANGED vars
    BY <2>10 DEF vars
  <2> QED
    BY <2>1, <2>2, <2>3, <2>4, <2>5, <2>6, <2>7, <2>8, <2>9, <2>10 DEF Next
<1> QED
  BY <1>1, <1>2, PTL DEF Spec

-----------------------------------------------------------------------------
(* The idle timer is never lost while the association is open: it is armed *)
(* for at most the time that is left, or its callback is about to run.     *)
THEOREM TimerNeverLost == Spec => []TimerCoversIdle
<1>1. Init => TimerCoversIdle
  BY TimeoutAssumption DEF Init, TimerCoversIdle
<1>2. TypeOK /\ TimerCoversIdle /\ [Next]_vars => TimerCoversIdle'
  <2> SUFFICES ASSUME TypeOK, TimerCoversIdle, [Next]_vars PROVE TimerCoversIdle'
    OBVIOUS
  <2> USE TimeoutAssumption DEF TypeOK, TimerCoversIdle, Stopped
  <2>1. CASE Tick
    BY <2>1 DEF Tick
  <2>2. CASE Fire
    BY <2>2 DEF Fire
  <2>3. CASE CheckTimeout
    BY <2>3 DEF CheckTimeout, CheckTimeoutWith
  <2>4. CASE CallbackClosesInner
    BY <2>4 DEF CallbackClosesInner
  <2>5. ASSUME NEW c \in Calls, SendPacket(c) \/ InnerSend(c) PROVE TimerCoversIdle'
    BY <2>5 DEF SendPacket, InnerSend
  <2>6. ASSUME NEW k \in Closers, Close(k) \/ CloserClosesInner(k)
        PROVE  TimerCoversIdle'
    BY <2>6 DEF Close, CloserClosesInner
  <2>7. CASE StartReceive \/ ReceiveEnds \/ ReceiveFails \/ UNCHANGED vars
    BY <2>7 DEF StartReceive, ReceiveEnds, ReceiveFails, vars
  <2> QED
    BY <2>1, <2>2, <2>3, <2>4, <2>5, <2>6, <2>7 DEF Next
<1> QED
  BY <1>1, <1>2, TypeCorrect, PTL DEF Spec

-----------------------------------------------------------------------------
(* What makes NoSendBeforeIdleClose inductive: checkTimeout sets s.closed  *)
(* in the critical section that decides to close.                          *)
IdleInv == cb = "closing" => closed /\ elapsed = Timeout

(* No SendPacket gets between the decision of checkTimeout to close an     *)
(* idle association and the inner Close it then makes.                     *)
THEOREM IdleCloseNotOvertaken == Spec => []NoSendBeforeIdleClose
<1>1. Init => IdleInv
  BY DEF Init, IdleInv
<1>2. TypeOK /\ IdleInv /\ [Next]_vars => IdleInv'
  BY TimeoutAssumption
     DEF TypeOK, IdleInv, Next, vars, Tick, Fire, CheckTimeout, CheckTimeoutWith,
         CallbackClosesInner, SendPacket, InnerSend, Close, CloserClosesInner,
         StartReceive, ReceiveEnds, ReceiveFails
<1>3. IdleInv => NoSendBeforeIdleClose
  BY DEF IdleInv, NoSendBeforeIdleClose
<1> QED
  BY <1>1, <1>2, <1>3, TypeCorrect, PTL DEF Spec

-----------------------------------------------------------------------------
(* A Close call that joins the goroutines owing the inner Close raises     *)
(* their number by one, one that makes the call lowers it by one.          *)
LEMMA OwingJoins ==
  ASSUME NEW k \in Closers, IsFiniteSet(Owing), TypeOK,
         ccall[k] = "idle", ccall' = [ccall EXCEPT ![k] = "closing"]
  PROVE  IsFiniteSet(Owing') /\ Cardinality(Owing') = Cardinality(Owing) + 1
<1>1. Owing' = Owing \cup {k} /\ k \notin Owing
  BY DEF Owing, TypeOK
<1> QED
  BY <1>1, FS_AddElement

(* A closer that has closed the inner sender owes nothing any more.        *)
LEMMA OwingLeaves ==
  ASSUME NEW k \in Closers, IsFiniteSet(Owing), TypeOK,
         ccall[k] = "closing", ccall' = [ccall EXCEPT ![k] = "done"]
  PROVE  IsFiniteSet(Owing') /\ Cardinality(Owing') = Cardinality(Owing) - 1
<1>1. Owing' = Owing \ {k} /\ k \in Owing
  BY DEF Owing, TypeOK
<1> QED
  BY <1>1, FS_RemoveElement

(* The inner Close is made exactly once by a closed association and never  *)
(* by an open one, for any number of concurrent Close calls.               *)
THEOREM ClosedExactlyOnce == Spec => []InnerClosedOnce
<1> DEFINE OwedInv == IsFiniteSet(Owing) /\ InnerClosedOnce
<1>1. Init => OwedInv
  <2> SUFFICES ASSUME Init PROVE OwedInv
    OBVIOUS
  <2>1. Owing = {}
    BY DEF Init, Owing
  <2> QED
    BY <2>1, FS_EmptySet DEF Init, InnerClosedOnce
<1>2. TypeOK /\ OwedInv /\ [Next]_vars => OwedInv'
  <2> SUFFICES ASSUME TypeOK, OwedInv, [Next]_vars PROVE OwedInv'
    OBVIOUS
  <2>0. Cardinality(Owing) \in Nat
    BY FS_CardinalityType
  <2>1. CASE UNCHANGED <<closed, cb, ccall, closes>>
    BY <2>1 DEF InnerClosedOnce, Owing
  <2>2. CASE Fire
    BY <2>2 DEF Fire, InnerClosedOnce, Owing
  <2>3. CASE CheckTimeout
    BY <2>3, <2>0 DEF CheckTimeout, CheckTimeoutWith, InnerClosedOnce, Owing, TypeOK
  <2>4. CASE CallbackClosesInner
    BY <2>4, <2>0 DEF CallbackClosesInner, InnerClosedOnce, Owing, TypeOK
  <2>5. ASSUME NEW k \in Closers, Close(k) PROVE OwedInv'
    <3>1. CASE closed
      <4>1. Owing' = Owing
        BY <2>5, <3>1 DEF Close, Owing, TypeOK
      <4> QED
        BY <2>5, <3>1, <4>1 DEF Close, InnerClosedOnce
    <3>2. CASE ~closed
      <4>1. IsFiniteSet(Owing') /\ Cardinality(Owing') = Cardinality(Owing) + 1
        BY <2>5, <3>2, OwingJoins DEF Close
      <4> QED
        BY <2>5, <3>2, <4>1, <2>0 DEF Close, InnerClosedOnce, TypeOK
    <3> QED
      BY <3>1, <3>2
  <2>6. ASSUME NEW k \in Closers, CloserClosesInner(k) PROVE OwedInv'
    <3>1. IsFiniteSet(Owing') /\ Cardinality(Owing') = Cardinality(Owing) - 1
      BY <2>6, OwingLeaves DEF CloserClosesInner
    <3> QED
      BY <2>6, <3>1, <2>0 DEF CloserClosesInner, InnerClosedOnce, TypeOK
  <2>7. CASE Tick \/ (\E c \in Calls : SendPacket(c) \/ InnerSend(c))
             \/ StartReceive \/ ReceiveEnds \/ ReceiveFails \/ UNCHANGED vars
    BY <2>7, <2>1 DEF Tick, SendPacket, InnerSend, StartReceive, ReceiveEnds,
                      ReceiveFails, vars
  <2> QED
    BY <2>2, <2>3, <2>4, <2>5, <2>6, <2>7 DEF Next
<1>3. OwedInv => InnerClosedOnce
  OBVIOUS
<1> QED
  BY <1>1, <1>2, <1>3, TypeCorrect, PTL DEF Spec

-----------------------------------------------------------------------------
(* The decorated association implements the safety part of the contract:   *)
(* nothing is taken after it ended, it ends once, and ReceivePackets runs  *)
(* once.  (AssocContract also has the liveness part, which the run checks.)*)
THEOREM ImplementsAssoc == Spec => Assoc!Safety
<1> USE DEF Assoc!Init, Assoc!Next, Assoc!vars, Assoc!Accept, Assoc!End,
            Assoc!StartReceive, Assoc!ReturnReceive, Assoc!RefuseReceive
<1>1. Init => Assoc!Init
  BY DEF Init
<1>2. TypeOK /\ [Next]_vars => [Assoc!Next]_(Assoc!vars)
  <2> SUFFICES ASSUME TypeOK, [Next]_vars PROVE [Assoc!Next]_(Assoc!vars)
    OBVIOUS
  <2>1. CASE Tick \/ Fire \/ CallbackClosesInner \/ UNCHANGED vars
    BY <2>1 DEF Tick, Fire, CallbackClosesInner, vars
  <2>2. CASE CheckTimeout
    BY <2>2 DEF CheckTimeout, CheckTimeoutWith, TypeOK
  <2>3. ASSUME NEW c \in Calls, SendPacket(c) PROVE [Assoc!Next]_(Assoc!vars)
    BY <2>3 DEF SendPacket, TypeOK
  <2>4. ASSUME NEW c \in Calls, InnerSend(c) PROVE UNCHANGED Assoc!vars
    BY <2>4 DEF InnerSend, TypeOK
  <2>5. ASSUME NEW k \in Closers, Close(k) PROVE [Assoc!Next]_(Assoc!vars)
    BY <2>5 DEF Close
  <2>6. ASSUME NEW k \in Closers, CloserClosesInner(k) PROVE UNCHANGED Assoc!vars
    BY <2>6 DEF CloserClosesInner
  <2>7. CASE StartReceive \/ ReceiveEnds \/ ReceiveFails
    BY <2>7 DEF StartReceive, ReceiveEnds, ReceiveFails
  <2> QED
    BY <2>1, <2>2, <2>3, <2>4, <2>5, <2>6, <2>7 DEF Next
<1> QED
  BY <1>1, <1>2, TypeCorrect, PTL DEF Spec, Assoc!Safety

(* The parts together: in every interleaving of the sends, the timer, the  *)
(* callback and the closes, no timer is lost, no idle close overtakes a    *)
(* send, and the inner association is closed once.                         *)
THEOREM TimeoutIsSafe == Spec => []TimeoutSafety
  BY TimerNeverLost, ClosedExactlyOnce, IdleCloseNotOvertaken, PTL DEF TimeoutSafety

-----------------------------------------------------------------------------
(***************************************************************************)
(* ListenerRelay: the packet connection is made, used and closed by one    *)
(* hand at a time, and the relay implements the safety part of the         *)
(* association contract.                                                   *)
(***************************************************************************)
(* What is true of a stage of NewAssociation: nobody uses an association   *)
(* before it is returned, only a configured one has a limit, and one that  *)
(* is being closed by NewAssociation, or failed, has no connection.        *)
StageInv == /\ na \in {"configured", "listened", "closing", "ready"} => limit \in Timeouts
            /\ na \in {"idle", "configured", "listened"} => ~assocClosed /\ left = 0
            /\ na = "failed" => assocClosed \/ limit = 0
            /\ na = "closing" => assocClosed
            /\ na # "ready" => /\ \A c \in Sends : sender[c] = "idle"
                               /\ \A k \in Owners : owner[k] = "idle"
                               /\ reader = "idle"

(* What the calls rely on: no sender holds nil, and a reader that returns  *)
(* a read error has closed, or found closed, the association.              *)
UseInv == /\ NoNilConn
          /\ cause = "read" \/ reader = "closing" => assocClosed

SInv == ListenerTypeOK /\ StageInv /\ UseInv

(* The goroutines other than NewAssociation and the reader that have       *)
(* marked the association closed and owe the Close of the connection.      *)
CallOwing == {k \in Owners : owner[k] = "closing"}

(* The count of ConnClosedOnce is inductive once the set is finite.        *)
OwedInv == IsFiniteSet(CallOwing) /\ ConnClosedOnce

-----------------------------------------------------------------------------
(* The steps of NewAssociation and the reconfiguration keep the types and  *)
(* the stages.                                                             *)
LEMMA NewAssociationStep ==
  ASSUME SInv, NewAssociation \/ \E t \in Timeouts : SetWriteIdleTimeout(t)
  PROVE  SInv'
<1> USE TimeoutsAssumption DEF SInv, ListenerTypeOK, StageInv, UseInv, NoNilConn
<1>1. CASE ReadConfig
  BY <1>1 DEF ReadConfig
<1>2. CASE ListenPacket
  BY <1>2 DEF ListenPacket
<1>3. CASE FirstDeadline
  <2>1. assocClosed' \in BOOLEAN
    BY <1>3, Zenon DEF FirstDeadline
  <2> QED
    BY <1>3, <2>1 DEF FirstDeadline
<1>4. CASE NewAssociationCloses
  BY <1>4 DEF NewAssociationCloses
<1>5. ASSUME NEW t \in Timeouts, SetWriteIdleTimeout(t) PROVE SInv'
  BY <1>5 DEF SetWriteIdleTimeout, assocVars
<1> QED
  BY <1>1, <1>2, <1>3, <1>4, <1>5 DEF NewAssociation

(* The calls of the senders, the owners and the clock keep them.           *)
LEMMA CallerStep ==
  ASSUME SInv,
         \/ \E c \in Sends : SendToListener(c)
         \/ \E k \in Owners : CloseListener(k) \/ CloserClosesConn(k)
         \/ DeadlineTick
  PROVE  SInv'
<1> USE TimeoutsAssumption DEF SInv, ListenerTypeOK, StageInv, UseInv, NoNilConn
<1>1. ASSUME NEW c \in Sends, RefreshDeadline(c) PROVE SInv'
  BY <1>1 DEF RefreshDeadline, SGoto
<1>2. ASSUME NEW c \in Sends, GetPacketConn(c) PROVE SInv'
  BY <1>2 DEF GetPacketConn, SGoto, assocVars
<1>3. ASSUME NEW c \in Sends, WriteTo(c) PROVE SInv'
  BY <1>3 DEF WriteTo, SGoto, assocVars
<1>4. ASSUME NEW k \in Owners, CloseListener(k) PROVE SInv'
  <2>1. assocClosed' \in BOOLEAN
    BY <1>4, Zenon DEF CloseListener
  <2> QED
    BY <1>4, <2>1 DEF CloseListener
<1>5. ASSUME NEW k \in Owners, CloserClosesConn(k) PROVE SInv'
  BY <1>5 DEF CloserClosesConn
<1>6. CASE DeadlineTick
  BY <1>6 DEF DeadlineTick
<1> QED
  BY <1>1, <1>2, <1>3, <1>4, <1>5, <1>6 DEF SendToListener

(* So does the read loop, which closes the association on a read error.    *)
LEMMA ReaderKeeps ==
  ASSUME SInv, StartReading \/ ReaderStep \/ ReadPacket \/ ReadShort \/ ReadBadSource \/ ReadFails
  PROVE  SInv'
<1> USE TimeoutsAssumption DEF SInv, ListenerTypeOK, StageInv, UseInv, NoNilConn, OutsideReader
<1>1. CASE StartReading
  BY <1>1 DEF StartReading, assocVars
<1>2. CASE ReadEnds \/ ReadPacket \/ ReadFails
  BY <1>2 DEF ReadEnds, ReadPacket, ReadFails, assocVars
<1>3. CASE ReadShort
  BY <1>3 DEF ReadShort, listenerVars
<1>4. CASE ReadBadSource \/ HandlePacket
  BY <1>4 DEF ReadBadSource, HandlePacket, assocVars
<1>5. CASE ReaderCloses
  <2>1. assocClosed' \in BOOLEAN
    BY <1>5, Zenon DEF ReaderCloses
  <2> QED
    BY <1>5, <2>1 DEF ReaderCloses
<1>6. CASE ReaderClosesConn
  BY <1>6 DEF ReaderClosesConn
<1> QED
  BY <1>1, <1>2, <1>3, <1>4, <1>5, <1>6 DEF ReaderStep

(* Together, for every step of the relay.                                  *)
THEOREM StepsKeepTheStages == ListenerSpec => []SInv
<1>1. ListenerInit => SInv
  <2>1. ListenerInit => assocClosed \in BOOLEAN
    BY Zenon DEF ListenerInit
  <2> QED
    BY <2>1, TimeoutsAssumption
       DEF ListenerInit, SInv, ListenerTypeOK, StageInv, UseInv, NoNilConn
<1>2. SInv /\ [ListenerNext]_listenerVars => SInv'
  <2>1. ASSUME SInv, UNCHANGED listenerVars PROVE SInv'
    BY <2>1 DEF SInv, ListenerTypeOK, StageInv, UseInv, NoNilConn, listenerVars
  <2> QED
    BY <2>1, NewAssociationStep, CallerStep, ReaderKeeps DEF ListenerNext
<1> QED
  BY <1>1, <1>2, PTL DEF ListenerSpec

(* Every variable keeps its type, and an association has a connection      *)
(* exactly from ListenPacket to the first close.                           *)
THEOREM ListenerTypeCorrect == ListenerSpec => []ListenerTypeOK
<1>1. SInv => ListenerTypeOK
  BY DEF SInv
<1> QED
  BY <1>1, StepsKeepTheStages, PTL

(* No sender gets hold of the nil that close() leaves in packetConn.       *)
THEOREM NoSenderHoldsNil == ListenerSpec => []NoNilConn
<1>1. SInv => NoNilConn
  BY DEF SInv, UseInv
<1> QED
  BY <1>1, StepsKeepTheStages, PTL

(* Neither a failing NewAssociation nor a read error leaves a connection.  *)
THEOREM NoConnLeaks == ListenerSpec => []NoConnLeak
<1>1. SInv => NoConnLeak
  BY TimeoutsAssumption DEF SInv, ListenerTypeOK, StageInv, UseInv, NoConnLeak
<1> QED
  BY <1>1, StepsKeepTheStages, PTL

-----------------------------------------------------------------------------
(* A Close call that marks the association closed joins those that owe the *)
(* Close of the connection ...                                             *)
LEMMA CallOwingJoins ==
  ASSUME NEW k \in Owners, IsFiniteSet(CallOwing), ListenerTypeOK,
         owner[k] = "idle", owner' = [owner EXCEPT ![k] = "closing"]
  PROVE  IsFiniteSet(CallOwing') /\ Cardinality(CallOwing') = Cardinality(CallOwing) + 1
<1>1. CallOwing' = CallOwing \cup {k} /\ k \notin CallOwing
  BY DEF CallOwing, ListenerTypeOK
<1> QED
  BY <1>1, FS_AddElement

(* ... and leaves them when it has closed it.                              *)
LEMMA CallOwingLeaves ==
  ASSUME NEW k \in Owners, IsFiniteSet(CallOwing), ListenerTypeOK,
         owner[k] = "closing", owner' = [owner EXCEPT ![k] = "done"]
  PROVE  IsFiniteSet(CallOwing') /\ Cardinality(CallOwing') = Cardinality(CallOwing) - 1
<1>1. CallOwing' = CallOwing \ {k} /\ k \in CallOwing
  BY DEF CallOwing, ListenerTypeOK
<1> QED
  BY <1>1, FS_RemoveElement

(* The connection is closed once by a closed association and never by an   *)
(* open one, for any number of Close calls racing with the read loop.      *)
THEOREM ListenerClosesOnce == ListenerSpec => []ConnClosedOnce
<1>1. ListenerInit => OwedInv
  <2> SUFFICES ASSUME ListenerInit PROVE OwedInv
    OBVIOUS
  <2>1. CallOwing = {}
    BY DEF ListenerInit, CallOwing
  <2> QED
    BY <2>1, FS_EmptySet DEF ListenerInit, OwedInv, ConnClosedOnce, CallOwing
<1>2. SInv /\ OwedInv /\ [ListenerNext]_listenerVars => OwedInv'
  <2> SUFFICES ASSUME SInv, OwedInv, [ListenerNext]_listenerVars PROVE OwedInv'
    OBVIOUS
  <2>1. Cardinality(CallOwing) \in Nat /\ connCloses \in Nat
    BY FS_CardinalityType DEF OwedInv, SInv, ListenerTypeOK
  <2> USE DEF OwedInv
  <2>2. ConnClosedOnce <=> connCloses + (Cardinality(CallOwing)
            + (IF reader = "closing" THEN 1 ELSE 0) + (IF na = "closing" THEN 1 ELSE 0))
            = IF assocClosed THEN 1 ELSE 0
    BY DEF ConnClosedOnce, CallOwing
  <2>3. ConnClosedOnce' <=> connCloses' + (Cardinality(CallOwing')
            + (IF reader' = "closing" THEN 1 ELSE 0) + (IF na' = "closing" THEN 1 ELSE 0))
            = IF assocClosed' THEN 1 ELSE 0
    BY DEF ConnClosedOnce, CallOwing
  <2>4. UNCHANGED owner => CallOwing' = CallOwing
    BY DEF CallOwing
  <2>5. ASSUME UNCHANGED <<na, owner, assocClosed, connCloses>>, (reader = "closing") <=> (reader' = "closing")
        PROVE OwedInv'
    BY <2>2, <2>3, <2>4, <2>5
  <2>6. ASSUME NEW t \in Timeouts, SetWriteIdleTimeout(t) PROVE OwedInv'
    BY <2>5, <2>6 DEF SetWriteIdleTimeout, assocVars
  <2>7. CASE ReadConfig \/ ListenPacket
    BY <2>2, <2>3, <2>4, <2>7 DEF ReadConfig, ListenPacket
  <2>8. CASE FirstDeadline \/ NewAssociationCloses
    <3>1. Cardinality(CallOwing) = 0
      <4>1. CallOwing = {}
        BY <2>8 DEF FirstDeadline, NewAssociationCloses, SInv, StageInv, CallOwing
      <4> QED
        BY <4>1, FS_EmptySet
    <3>2. CallOwing' = CallOwing /\ reader' = reader
      BY <2>4, <2>8 DEF FirstDeadline, NewAssociationCloses
    <3> QED
      BY <2>1, <2>2, <2>3, <2>8, <3>1, <3>2
         DEF FirstDeadline, NewAssociationCloses, SInv, StageInv
  <2>9. ASSUME NEW c \in Sends, SendToListener(c) PROVE OwedInv'
    BY <2>5, <2>9 DEF SendToListener, RefreshDeadline, GetPacketConn, WriteTo, assocVars
  <2>10. ASSUME NEW k \in Owners, CloseListener(k) PROVE OwedInv'
    <3>1. CASE assocClosed
      <4>1. CallOwing' = CallOwing
        BY <2>10, <3>1 DEF CloseListener, CallOwing, SInv, ListenerTypeOK
      <4> QED
        BY <2>2, <2>3, <2>10, <3>1, <4>1 DEF CloseListener
    <3>2. CASE ~assocClosed
      <4>1. owner[k] = "idle" /\ owner' = [owner EXCEPT ![k] = "closing"]
        BY <2>10, <3>2 DEF CloseListener
      <4>2. IsFiniteSet(CallOwing') /\ Cardinality(CallOwing') = Cardinality(CallOwing) + 1
        BY <4>1, CallOwingJoins DEF SInv
      <4> QED
        BY <2>1, <2>2, <2>3, <2>10, <3>2, <4>2 DEF CloseListener
    <3> QED
      BY <3>1, <3>2
  <2>11. ASSUME NEW k \in Owners, CloserClosesConn(k) PROVE OwedInv'
    <3>1. IsFiniteSet(CallOwing') /\ Cardinality(CallOwing') = Cardinality(CallOwing) - 1
      BY <2>11, CallOwingLeaves DEF CloserClosesConn, SInv
    <3> QED
      BY <2>1, <2>2, <2>3, <2>11, <3>1 DEF CloserClosesConn
  <2>12. CASE StartReading \/ ReadEnds \/ HandlePacket \/ ReadPacket \/ ReadShort
               \/ ReadBadSource \/ ReadFails
    BY <2>5, <2>12 DEF StartReading, ReadEnds, HandlePacket, ReadPacket, ReadShort,
                       ReadBadSource, ReadFails, OutsideReader, assocVars, listenerVars
  <2>13. CASE ReaderCloses \/ ReaderClosesConn
    BY <2>1, <2>2, <2>3, <2>4, <2>13 DEF ReaderCloses, ReaderClosesConn, OutsideReader
  <2>14. CASE DeadlineTick \/ UNCHANGED listenerVars
    BY <2>5, <2>14 DEF DeadlineTick, listenerVars
  <2> QED
    BY <2>6, <2>7, <2>8, <2>9, <2>10, <2>11, <2>12, <2>13, <2>14
       DEF ListenerNext, NewAssociation, ReaderStep
<1>3. OwedInv => ConnClosedOnce
  BY DEF OwedInv
<1> QED
  BY <1>1, <1>2, <1>3, StepsKeepTheStages, PTL DEF ListenerSpec

(* The three together: the connection is in exactly one hand.              *)
THEOREM InOneHand == ListenerSpec => []ConnInOneHand
  BY ListenerClosesOnce, NoSenderHoldsNil, NoConnLeaks, PTL DEF ConnInOneHand

-----------------------------------------------------------------------------
(* The association implements the safety part of the contract.             *)
THEOREM ListenerImplementsAssoc == ListenerSpec => ListenerAssoc!Safety
<1> USE DEF ListenerAssoc!Init, ListenerAssoc!Next, ListenerAssoc!vars, ListenerAssoc!Accept,
            ListenerAssoc!End, ListenerAssoc!StartReceive, ListenerAssoc!ReturnReceive,
            ListenerAssoc!RefuseReceive
<1>1. ListenerInit => ListenerAssoc!Init
  BY DEF ListenerInit
<1>2. SInv /\ [ListenerNext]_listenerVars => [ListenerAssoc!Next]_(ListenerAssoc!vars)
  <2> SUFFICES ASSUME SInv, [ListenerNext]_listenerVars
               PROVE  [ListenerAssoc!Next]_(ListenerAssoc!vars)
    OBVIOUS
  <2> DEFINE took == {c \in Sends : sender[c] \in {"gotConn", "sent", "writeFailed"}}
  <2>1. ASSUME NEW t \in Timeouts, SetWriteIdleTimeout(t) PROVE UNCHANGED ListenerAssoc!vars
    BY <2>1 DEF SetWriteIdleTimeout, assocVars
  <2>2. CASE ReadConfig \/ ListenPacket \/ NewAssociationCloses \/ DeadlineTick
    BY <2>2 DEF ReadConfig, ListenPacket, NewAssociationCloses, DeadlineTick
  <2>3. CASE FirstDeadline
    BY <2>3 DEF FirstDeadline, SInv, StageInv
  <2>4. ASSUME NEW c \in Sends, RefreshDeadline(c) PROVE UNCHANGED ListenerAssoc!vars
    <3>1. took' = took
      BY <2>4 DEF RefreshDeadline, SGoto, SInv, ListenerTypeOK
    <3> QED
      BY <2>4, <3>1 DEF RefreshDeadline
  <2>5. ASSUME NEW c \in Sends, GetPacketConn(c)
        PROVE  [ListenerAssoc!Next]_(ListenerAssoc!vars)
    <3>1. CASE assocClosed
      <4>1. took' = took
        BY <2>5, <3>1 DEF GetPacketConn, SGoto, SInv, ListenerTypeOK
      <4> QED
        BY <2>5, <3>1, <4>1 DEF GetPacketConn, assocVars
    <3>2. CASE ~assocClosed
      <4>1. packetConn # "nil"
        BY <2>5, <3>2, TimeoutsAssumption
           DEF GetPacketConn, SInv, StageInv, ListenerTypeOK
      <4>2. took' = took \cup {c} /\ c \notin took
        BY <2>5, <3>2, <4>1 DEF GetPacketConn, SGoto, SInv, ListenerTypeOK
      <4> QED
        BY <2>5, <3>2, <4>2 DEF GetPacketConn, assocVars
    <3> QED
      BY <3>1, <3>2
  <2>6. ASSUME NEW c \in Sends, WriteTo(c) PROVE UNCHANGED ListenerAssoc!vars
    <3>1. took' = took
      BY <2>6 DEF WriteTo, SGoto, SInv, ListenerTypeOK
    <3> QED
      BY <2>6, <3>1 DEF WriteTo, assocVars
  <2>7. ASSUME NEW k \in Owners, CloseListener(k) \/ CloserClosesConn(k)
        PROVE  [ListenerAssoc!Next]_(ListenerAssoc!vars)
    BY <2>7 DEF CloseListener, CloserClosesConn
  <2>8. CASE StartReading \/ ReadEnds \/ HandlePacket \/ ReadPacket \/ ReadShort
              \/ ReadBadSource \/ ReadFails
    BY <2>8 DEF StartReading, ReadEnds, HandlePacket, ReadPacket, ReadShort,
                ReadBadSource, ReadFails, OutsideReader, assocVars, listenerVars
  <2>9. CASE ReaderCloses
    BY <2>9 DEF ReaderCloses, OutsideReader
  <2>10. CASE ReaderClosesConn
    BY <2>10 DEF ReaderClosesConn, OutsideReader
  <2>11. CASE UNCHANGED listenerVars
    BY <2>11 DEF listenerVars
  <2> QED
    BY <2>1, <2>2, <2>3, <2>4, <2>5, <2>6, <2>7, <2>8, <2>9, <2>10, <2>11
       DEF ListenerNext, NewAssociation, ReaderStep, SendToListener
<1> QED
  BY <1>1, <1>2, StepsKeepTheStages, PTL DEF ListenerSpec, ListenerAssoc!Safety
=============================================================================
