------------------------- MODULE DnsInterceptProofs -------------------------
(***************************************************************************)
(* Proofs about DnsIntercept for every number of queries, senders,         *)
(* receivers and closers.                                                  *)
(***************************************************************************)
EXTENDS DnsIntercept, FiniteSetTheorems, TLAPS

-----------------------------------------------------------------------------
(* The steps of a query that touch nothing but the query: all of them      *)
(* except the first section and the release of its reference.              *)
QuietQuery(q) == \/ NewDNSAssociation(q) \/ Register(q) \/ SendQuery(q) \/ Response(q)
                 \/ SelectHandler(q) \/ SelectClosed(q) \/ Deliver(q) \/ CloseAnswered(q)
                 \/ DNSReceiveEnds(q) \/ DNSReceiveFails(q) \/ RemoveDNSSender(q)
                 \/ CloseSub(q) \/ DNSExpires(q)

(* Such a step leaves the parent, the default association and the receiver *)
(* alone.                                                                  *)
LEMMA QuietQueryFrame ==
    ASSUME NEW q \in Queries, QuietQuery(q)
    PROVE  OutsideQuery
BY DEF QuietQuery, NewDNSAssociation, Register, SendQuery, Response, SelectHandler,
       SelectClosed, Deliver, CloseAnswered, DNSReceiveEnds, DNSReceiveFails,
       RemoveDNSSender, CloseSub, DNSExpires

(* The steps of ReceivePackets except the release.                         *)
QuietReceiver(r) == \/ ReceivePackets(r) \/ TakeDefaultReceiver(r) \/ DefaultReceiveEnds(r)
                    \/ DefaultReceiveFails(r) \/ SeeClosed(r)

-----------------------------------------------------------------------------
(* Every variable keeps its type.                                          *)
THEOREM TypeCorrect == Spec => []TypeOK
<1> USE DEF TypeOK, QueryStates, DefaultStates, ReceiverStates
<1>1. Init => TypeOK
  BY NoneAssumption, MaxArrivalsAssumption DEF Init
<1>2. TypeOK /\ [Next]_vars => TypeOK'
  <2> SUFFICES ASSUME TypeOK, [Next]_vars PROVE TypeOK'
    OBVIOUS
  <2> USE DEF OutsideQuery, OutsideDefault, OutsideReceive, parentVars, defaultVars,
              queryVars, Goto, DGoto, RGoto
  <2>0. Woken \in [Defaults -> DefaultStates]
    BY DEF Woken
  <2>1. ASSUME NEW q \in Queries, Acquire(q) PROVE TypeOK'
    BY <2>1 DEF Acquire
  <2>2. ASSUME NEW q \in Queries, QuietQuery(q) PROVE TypeOK'
    BY <2>2, MaxArrivalsAssumption
       DEF QuietQuery, NewDNSAssociation, Register, SendQuery, Response, SelectHandler,
           SelectClosed, Deliver, CloseAnswered, DNSReceiveEnds, DNSReceiveFails,
           RemoveDNSSender, CloseSub, DNSExpires
  <2>3. ASSUME NEW q \in Queries, ReleaseQuery(q) PROVE TypeOK'
    BY <2>3 DEF ReleaseQuery, Release, CloseLocked, Woken
  <2>4. ASSUME NEW d \in Defaults,
               GetDefaultSender(d) \/ WakeUp(d) \/ NewDefaultAssociation(d) \/ SendDefault(d)
        PROVE  TypeOK'
    BY <2>4 DEF GetDefaultSender, WakeUp, Proceed, NewDefaultAssociation, SendDefault
  <2>5. ASSUME NEW d \in Defaults, InstallDefault(d) PROVE TypeOK'
    BY <2>5, <2>0 DEF InstallDefault, InstallWith
  <2>6. CASE DefaultExpires \/ UNCHANGED vars
    BY <2>6 DEF DefaultExpires, vars
  <2>7. ASSUME NEW r \in Receivers, QuietReceiver(r) PROVE TypeOK'
    BY <2>7 DEF QuietReceiver, ReceivePackets, TakeDefaultReceiver, DefaultReceiveEnds,
                DefaultReceiveFails, SeeClosed
  <2>8. ASSUME NEW r \in Receivers, ReleaseDefault(r) PROVE TypeOK'
    BY <2>8 DEF ReleaseDefault, Release, CloseLocked, Woken
  <2>9. ASSUME NEW k \in Closers, Close(k) PROVE TypeOK'
    BY <2>9 DEF Close, CloseLocked, Woken
  <2> QED
    BY <2>1, <2>2, <2>3, <2>4, <2>5, <2>6, <2>7, <2>8, <2>9
       DEF Next, QueryStep, DefaultStep, ReceiverStep, QuietQuery, QuietReceiver
<1> QED
  BY <1>1, <1>2, PTL DEF Spec

-----------------------------------------------------------------------------
(* The calls inside the unlocked part of getOrCreateDefaultSender.         *)
Dialling == {"dialing", "dialed", "dialFailed"}

(* One call at a time initialises the default association, and it is the   *)
(* first.                                                                  *)
DialInv == /\ \A d, e \in Defaults : dpc[d] \in Dialling /\ dpc[e] \in Dialling => d = e
           /\ \A d \in Defaults : dpc[d] \in Dialling => defState = "initializing"
           /\ defState # "initialized" => defResult = "none" /\ defChan = "empty"
           /\ defState = "idle" => defDials = 0
           /\ \A d \in Defaults : dpc[d] \in {"dialing", "dialFailed"} => defDials = 0
           /\ defDials <= 1

(* Only the call whose handler is installed gets past the lock, and only   *)
(* after taking the default receiver from the channel does it receive.     *)
ReceiverInv ==
    \A r \in Receivers :
        /\ rpc[r] \notin {"idle", "refused"} => handler = r
        /\ rpc[r] \in {"receiving", "releasing"} => defChan = "taken"

(* A broadcast does not touch a call that is dialling.                     *)
LEMMA WokenKeepsDialling ==
    ASSUME TypeOK
    PROVE  \A d \in Defaults : /\ Woken[d] \in Dialling <=> dpc[d] \in Dialling
                               /\ dpc[d] \in Dialling => Woken[d] = dpc[d]
BY DEF Woken, Dialling, TypeOK

(* DialInv is kept by every step.                                          *)
LEMMA DialInductive == TypeOK /\ DialInv /\ [Next]_vars => DialInv'
<1> SUFFICES ASSUME TypeOK, DialInv, [Next]_vars PROVE DialInv'
  OBVIOUS
<1> USE DEF DialInv, OutsideQuery, OutsideDefault, OutsideReceive, parentVars,
            defaultVars, queryVars, Dialling, TypeOK
<1>1. ASSUME NEW q \in Queries, Acquire(q) \/ QuietQuery(q) PROVE UNCHANGED defaultVars
  BY <1>1, QuietQueryFrame DEF Acquire
<1>2. CASE UNCHANGED defaultVars
  BY <1>2
<1>3. CASE UNCHANGED <<defState, defResult, defChan, defDials>> /\ dpc' = Woken
  BY <1>3, WokenKeepsDialling
<1>4. ASSUME NEW q \in Queries, ReleaseQuery(q) PROVE DialInv'
  BY <1>4, <1>2, <1>3 DEF ReleaseQuery, Release, CloseLocked
<1>5. ASSUME NEW r \in Receivers, ReleaseDefault(r) PROVE DialInv'
  BY <1>5, <1>2, <1>3 DEF ReleaseDefault, Release, CloseLocked
<1>6. ASSUME NEW k \in Closers, Close(k) PROVE DialInv'
  BY <1>6, <1>2, <1>3 DEF Close, CloseLocked
<1>7. ASSUME NEW d \in Defaults, GetDefaultSender(d) \/ WakeUp(d) PROVE DialInv'
  BY <1>7 DEF GetDefaultSender, WakeUp, Proceed, DGoto
<1>8. ASSUME NEW d \in Defaults, NewDefaultAssociation(d) \/ SendDefault(d) PROVE DialInv'
  BY <1>8 DEF NewDefaultAssociation, SendDefault, DGoto
<1>9. ASSUME NEW d \in Defaults, InstallDefault(d) PROVE DialInv'
  <2>1. Woken \in [Defaults -> DefaultStates]
    BY DEF Woken, DefaultStates
  <2>2. \A e \in Defaults : dpc'[e] \notin Dialling
    BY <1>9, <2>1, WokenKeepsDialling DEF InstallDefault, InstallWith
  <2> QED
    BY <1>9, <2>2 DEF InstallDefault, InstallWith
<1>10. CASE DefaultExpires
  BY <1>10 DEF DefaultExpires
<1>11. ASSUME NEW r \in Receivers, QuietReceiver(r) PROVE DialInv'
  BY <1>11 DEF QuietReceiver, ReceivePackets, TakeDefaultReceiver, DefaultReceiveEnds,
               DefaultReceiveFails, SeeClosed
<1>12. CASE UNCHANGED vars
  BY <1>12 DEF vars
<1> QED
  BY <1>1, <1>2, <1>4, <1>5, <1>6, <1>7, <1>8, <1>9, <1>10, <1>11, <1>12
     DEF Next, QueryStep, DefaultStep, ReceiverStep, QuietQuery, QuietReceiver

(* ReceiverInv is kept by every step.                                      *)
LEMMA ReceiverInductive == TypeOK /\ DialInv /\ ReceiverInv /\ [Next]_vars => ReceiverInv'
<1> SUFFICES ASSUME TypeOK, DialInv, ReceiverInv, [Next]_vars PROVE ReceiverInv'
  OBVIOUS
<1> USE DEF ReceiverInv, TypeOK, OutsideQuery, OutsideDefault, OutsideReceive,
            parentVars, defaultVars, queryVars
<1>1. CASE UNCHANGED <<handler, rpc, defChan>>
  BY <1>1
<1>2. ASSUME NEW q \in Queries, Acquire(q) \/ QuietQuery(q) \/ ReleaseQuery(q)
      PROVE  ReceiverInv'
  BY <1>2, <1>1, QuietQueryFrame DEF Acquire, ReleaseQuery
<1>3. ASSUME NEW d \in Defaults,
             GetDefaultSender(d) \/ WakeUp(d) \/ NewDefaultAssociation(d) \/ SendDefault(d)
      PROVE  ReceiverInv'
  BY <1>3, <1>1 DEF GetDefaultSender, WakeUp, NewDefaultAssociation, SendDefault
<1>4. ASSUME NEW d \in Defaults, InstallDefault(d) PROVE ReceiverInv'
  <2>1. defChan = "empty"
    BY <1>4 DEF InstallDefault, InstallWith, DialInv, Dialling
  <2> QED
    BY <1>4, <2>1 DEF InstallDefault, InstallWith
<1>5. ASSUME NEW r \in Receivers, QuietReceiver(r) PROVE ReceiverInv'
  BY <1>5, NoneAssumption DEF QuietReceiver, ReceivePackets, TakeDefaultReceiver,
              DefaultReceiveEnds, DefaultReceiveFails, SeeClosed, RGoto, ReceiverStates
<1>6. ASSUME NEW r \in Receivers, ReleaseDefault(r) PROVE ReceiverInv'
  BY <1>6 DEF ReleaseDefault, RGoto
<1>7. ASSUME NEW k \in Closers, Close(k) PROVE ReceiverInv'
  BY <1>7, <1>1 DEF Close
<1>8. CASE DefaultExpires \/ UNCHANGED vars
  BY <1>8, <1>1 DEF DefaultExpires, vars
<1> QED
  BY <1>2, <1>3, <1>4, <1>5, <1>6, <1>7, <1>8
     DEF Next, QueryStep, DefaultStep, ReceiverStep, QuietQuery, QuietReceiver

-----------------------------------------------------------------------------
(* close(a.closeChan) is only reached by a section that saw isClosed unset.*)
LEMMA ClosedOnceInductive == TypeOK /\ ClosedOnce /\ [Next]_vars => ClosedOnce'
<1> SUFFICES ASSUME TypeOK, ClosedOnce, [Next]_vars PROVE ClosedOnce'
  OBVIOUS
<1> USE DEF ClosedOnce, TypeOK, OutsideQuery, OutsideDefault, OutsideReceive, parentVars
<1>1. CASE UNCHANGED <<status, closings>>
  BY <1>1
<1>2. ASSUME NEW q \in Queries, Acquire(q) \/ QuietQuery(q) PROVE ClosedOnce'
  BY <1>1, <1>2, QuietQueryFrame DEF Acquire
<1>3. ASSUME NEW q \in Queries, ReleaseQuery(q) PROVE ClosedOnce'
  BY <1>3 DEF ReleaseQuery, Release, CloseLocked
<1>4. ASSUME NEW d \in Defaults, GetDefaultSender(d) \/ DefaultStep(d) PROVE ClosedOnce'
  BY <1>1, <1>4 DEF GetDefaultSender, DefaultStep, WakeUp, NewDefaultAssociation,
                    InstallDefault, InstallWith, SendDefault
<1>5. ASSUME NEW r \in Receivers, QuietReceiver(r) PROVE ClosedOnce'
  BY <1>1, <1>5 DEF QuietReceiver, ReceivePackets, TakeDefaultReceiver,
                    DefaultReceiveEnds, DefaultReceiveFails, SeeClosed
<1>6. ASSUME NEW r \in Receivers, ReleaseDefault(r) PROVE ClosedOnce'
  BY <1>6 DEF ReleaseDefault, Release, CloseLocked
<1>7. ASSUME NEW k \in Closers, Close(k) PROVE ClosedOnce'
  BY <1>7 DEF Close, CloseLocked
<1>8. CASE DefaultExpires \/ UNCHANGED vars
  BY <1>1, <1>8 DEF DefaultExpires, vars
<1> QED
  BY <1>2, <1>3, <1>4, <1>5, <1>6, <1>7, <1>8
     DEF Next, QueryStep, ReceiverStep, QuietQuery, QuietReceiver

-----------------------------------------------------------------------------
(* A query has no sub-association before it creates one, and is registered *)
(* only between its second section and removeDNSSender.                    *)
QueryInv ==
    \A q \in Queries :
        /\ pc[q] \in {"idle", "refused", "acquired"} => sub[q] = "none"
        /\ q \in dnsSenders => pc[q] \in {"registered", "waiting", "handling", "chosen",
                                          "answered", "unregister"}

(* QueryInv is kept by every step.                                         *)
LEMMA QueryInductive == TypeOK /\ QueryInv /\ [Next]_vars => QueryInv'
<1> SUFFICES ASSUME TypeOK, QueryInv, [Next]_vars PROVE QueryInv'
  OBVIOUS
<1> USE DEF QueryInv, TypeOK, OutsideDefault, OutsideReceive, queryVars, Goto
<1>1. CASE UNCHANGED <<pc, sub, dnsSenders>>
  BY <1>1
<1>2. CASE CloseLocked /\ UNCHANGED <<pc, dnsSenders>>
  BY <1>2 DEF CloseLocked
<1>3. ASSUME NEW q \in Queries, Acquire(q) PROVE QueryInv'
  BY <1>3 DEF Acquire
<1>4. ASSUME NEW q \in Queries, NewDNSAssociation(q) \/ Register(q) \/ SendQuery(q)
      PROVE  QueryInv'
  BY <1>4 DEF NewDNSAssociation, Register, SendQuery
<1>5. ASSUME NEW q \in Queries,
             \/ Response(q) \/ SelectHandler(q) \/ SelectClosed(q) \/ Deliver(q)
             \/ CloseAnswered(q) \/ DNSReceiveEnds(q) \/ DNSReceiveFails(q)
      PROVE  QueryInv'
  BY <1>5 DEF Response, SelectHandler, SelectClosed, Deliver, CloseAnswered,
              DNSReceiveEnds, DNSReceiveFails
<1>6. ASSUME NEW q \in Queries, RemoveDNSSender(q) \/ CloseSub(q) \/ DNSExpires(q)
      PROVE  QueryInv'
  BY <1>6 DEF RemoveDNSSender, CloseSub, DNSExpires
<1>7. ASSUME NEW q \in Queries, ReleaseQuery(q) PROVE QueryInv'
  BY <1>7 DEF ReleaseQuery, Release, CloseLocked
<1>8. ASSUME NEW d \in Defaults, GetDefaultSender(d) \/ DefaultStep(d) PROVE QueryInv'
  BY <1>1, <1>8 DEF GetDefaultSender, DefaultStep, WakeUp, NewDefaultAssociation,
                    InstallDefault, InstallWith, SendDefault
<1>9. ASSUME NEW r \in Receivers, QuietReceiver(r) PROVE QueryInv'
  BY <1>1, <1>9 DEF QuietReceiver, ReceivePackets, TakeDefaultReceiver,
                    DefaultReceiveEnds, DefaultReceiveFails, SeeClosed
<1>10. ASSUME NEW r \in Receivers, ReleaseDefault(r) PROVE QueryInv'
  BY <1>1, <1>2, <1>10 DEF ReleaseDefault, Release
<1>11. ASSUME NEW k \in Closers, Close(k) PROVE QueryInv'
  BY <1>1, <1>2, <1>11 DEF Close
<1>12. CASE DefaultExpires \/ UNCHANGED vars
  BY <1>1, <1>12 DEF DefaultExpires, vars
<1> QED
  BY <1>3, <1>4, <1>5, <1>6, <1>7, <1>8, <1>9, <1>10, <1>11, <1>12
     DEF Next, QueryStep, ReceiverStep, QuietReceiver

-----------------------------------------------------------------------------
(* No sub-association is left open: every close of the parent reaches all  *)
(* that are registered, and those that are not belong to a goroutine that  *)
(* looks at isClosed again.                                                *)
LEMMA NoLeakInductive ==
    TypeOK /\ DialInv /\ QueryInv /\ NoLeak /\ [Next]_vars => NoLeak'
<1> SUFFICES ASSUME TypeOK, DialInv, QueryInv, NoLeak, [Next]_vars PROVE NoLeak'
  OBVIOUS
<1> USE DEF NoLeak, TypeOK, OutsideQuery, OutsideDefault, OutsideReceive, parentVars,
            defaultVars, queryVars, Goto, DGoto
<1>1. CASE UNCHANGED <<status, dnsSenders, sub, defResult, defSub, pc, dpc>>
  BY <1>1
<1>2. \A d \in Defaults : dpc[d] = "dialed" => Woken[d] = "dialed"
  BY DEF Woken
<1>3. CASE CloseLocked /\ UNCHANGED <<dnsSenders, defResult, pc>>
  BY <1>2, <1>3 DEF CloseLocked
<1>4. ASSUME NEW q \in Queries, Acquire(q) PROVE NoLeak'
  BY <1>4 DEF Acquire
<1>5. ASSUME NEW q \in Queries, NewDNSAssociation(q) \/ Register(q) \/ SendQuery(q)
      PROVE  NoLeak'
  BY <1>5 DEF NewDNSAssociation, Register, SendQuery, QueryInv
<1>6. ASSUME NEW q \in Queries,
             \/ Response(q) \/ SelectHandler(q) \/ SelectClosed(q) \/ Deliver(q)
             \/ CloseAnswered(q) \/ DNSReceiveEnds(q) \/ DNSReceiveFails(q)
      PROVE  NoLeak'
  BY <1>6 DEF Response, SelectHandler, SelectClosed, Deliver, CloseAnswered,
              DNSReceiveEnds, DNSReceiveFails
<1>7. ASSUME NEW q \in Queries, RemoveDNSSender(q) \/ CloseSub(q) \/ DNSExpires(q)
      PROVE  NoLeak'
  BY <1>7 DEF RemoveDNSSender, CloseSub, DNSExpires, QueryInv
<1>8. ASSUME NEW q \in Queries, ReleaseQuery(q) PROVE NoLeak'
  BY <1>2, <1>8 DEF ReleaseQuery, Release, CloseLocked
<1>9. ASSUME NEW d \in Defaults,
             GetDefaultSender(d) \/ WakeUp(d) \/ NewDefaultAssociation(d) \/ SendDefault(d)
      PROVE  NoLeak'
  BY <1>9 DEF GetDefaultSender, WakeUp, Proceed, NewDefaultAssociation, SendDefault,
              DialInv, Dialling
<1>10. ASSUME NEW d \in Defaults, InstallDefault(d) PROVE NoLeak'
  BY <1>10 DEF InstallDefault, InstallWith, DialInv, Dialling
<1>11. ASSUME NEW r \in Receivers, QuietReceiver(r) PROVE NoLeak'
  BY <1>1, <1>11 DEF QuietReceiver, ReceivePackets, TakeDefaultReceiver,
                     DefaultReceiveEnds, DefaultReceiveFails, SeeClosed
<1>12. ASSUME NEW r \in Receivers, ReleaseDefault(r) PROVE NoLeak'
  BY <1>1, <1>3, <1>12 DEF ReleaseDefault, Release
<1>13. ASSUME NEW k \in Closers, Close(k) PROVE NoLeak'
  BY <1>1, <1>3, <1>13 DEF Close
<1>14. CASE DefaultExpires \/ UNCHANGED vars
  BY <1>14 DEF DefaultExpires, vars
<1> QED
  BY <1>4, <1>5, <1>6, <1>7, <1>8, <1>9, <1>10, <1>11, <1>12, <1>13, <1>14
     DEF Next, QueryStep, DefaultStep, ReceiverStep, QuietReceiver

-----------------------------------------------------------------------------
(* singlePacketHandler.handled is set before the only delivery.            *)
AnswerInv ==
    \A q \in Queries :
        /\ pc[q] \in {"handling", "chosen"} => q \in handled /\ delivered[q] = 0
        /\ q \notin handled => delivered[q] = 0
        /\ delivered[q] <= 1

(* AnswerInv is kept by every step.                                        *)
LEMMA AnswerInductive == TypeOK /\ AnswerInv /\ [Next]_vars => AnswerInv'
<1> SUFFICES ASSUME TypeOK, AnswerInv, [Next]_vars PROVE AnswerInv'
  OBVIOUS
<1> USE DEF AnswerInv, TypeOK, OutsideDefault, OutsideReceive, queryVars, Goto
<1>1. CASE UNCHANGED <<pc, handled, delivered>>
  BY <1>1
<1>2. ASSUME NEW q \in Queries, QuietQuery(q) PROVE AnswerInv'
  BY <1>2 DEF QuietQuery, NewDNSAssociation, Register, SendQuery, Response, SelectHandler,
              SelectClosed, Deliver, CloseAnswered, DNSReceiveEnds, DNSReceiveFails,
              RemoveDNSSender, CloseSub, DNSExpires
<1>3. ASSUME NEW q \in Queries, Acquire(q) \/ ReleaseQuery(q) PROVE AnswerInv'
  BY <1>3 DEF Acquire, ReleaseQuery
<1>4. ASSUME NEW d \in Defaults, GetDefaultSender(d) \/ DefaultStep(d) PROVE AnswerInv'
  BY <1>1, <1>4 DEF GetDefaultSender, DefaultStep, WakeUp, NewDefaultAssociation,
                    InstallDefault, InstallWith, SendDefault
<1>5. ASSUME NEW r \in Receivers, QuietReceiver(r) \/ ReleaseDefault(r) PROVE AnswerInv'
  BY <1>1, <1>5 DEF QuietReceiver, ReceivePackets, TakeDefaultReceiver, ReleaseDefault,
                    DefaultReceiveEnds, DefaultReceiveFails, SeeClosed
<1>6. ASSUME NEW k \in Closers, Close(k) PROVE AnswerInv'
  BY <1>1, <1>6 DEF Close
<1>7. CASE DefaultExpires \/ UNCHANGED vars
  BY <1>1, <1>7 DEF DefaultExpires, vars
<1> QED
  BY <1>2, <1>3, <1>4, <1>5, <1>6, <1>7
     DEF Next, QueryStep, ReceiverStep, QuietQuery, QuietReceiver

-----------------------------------------------------------------------------
(* The number of references as the goroutines see it.                      *)
Held == Cardinality(Holders) + (IF DefaultHolds THEN 1 ELSE 0)

(* There are finitely many holders.                                        *)
LEMMA HoldersFinite ==
    IsFiniteSet(Holders) /\ Cardinality(Holders) \in Nat /\ Held \in Nat
<1>1. IsFiniteSet(Holders)
  BY FinitelyManyQueries, FS_Subset DEF Holders
<1>2. Cardinality(Holders) \in Nat
  BY <1>1, FS_CardinalityType
<1> QED
  BY <1>1, <1>2 DEF Held

(* The set of holders only changes when a query takes or drops its         *)
(* reference.                                                              *)
LEMMA HoldersJoin ==
    ASSUME TypeOK, NEW q \in Queries, pc[q] = "idle", pc' = [pc EXCEPT ![q] = "acquired"]
    PROVE  Cardinality(Holders') = Cardinality(Holders) + 1
<1>1. Holders' = Holders \cup {q} /\ q \notin Holders
  BY DEF Holders, Holding, TypeOK
<1> QED
  BY <1>1, HoldersFinite, FS_AddElement

(* A release takes one holder away.                                        *)
LEMMA HoldersLeave ==
    ASSUME TypeOK, NEW q \in Queries, pc[q] = "releasing", pc' = [pc EXCEPT ![q] = "done"]
    PROVE  Cardinality(Holders') = Cardinality(Holders) - 1
<1>1. Holders' = Holders \ {q} /\ q \in Holders
  BY DEF Holders, Holding, TypeOK
<1> QED
  BY <1>1, HoldersFinite, FS_RemoveElement

(* Every other step of a query keeps it a holder, or not one.              *)
LEMMA HoldersStay ==
    ASSUME TypeOK, NEW q \in Queries, QuietQuery(q)
    PROVE  Holders' = Holders
BY DEF QuietQuery, NewDNSAssociation, Register, SendQuery, Response, SelectHandler,
       SelectClosed, Deliver, CloseAnswered, DNSReceiveEnds, DNSReceiveFails,
       RemoveDNSSender, CloseSub, DNSExpires, Goto, Holders, Holding, TypeOK

(* The count follows the references through every step.                    *)
LEMMA RefCountInductive ==
    TypeOK /\ DialInv /\ ReceiverInv /\ RefCountExact /\ [Next]_vars => RefCountExact'
<1> SUFFICES ASSUME TypeOK, DialInv, ReceiverInv, RefCountExact, [Next]_vars
             PROVE  RefCountExact'
  OBVIOUS
<1> USE DEF RefCountExact, OutsideQuery, OutsideDefault, OutsideReceive, parentVars,
            defaultVars, queryVars
<1>1. pc' = pc => Holders' = Holders
  BY DEF Holders
<1>2. UNCHANGED <<defChan, rpc>> => DefaultHolds' = DefaultHolds
  BY DEF DefaultHolds
<1>3. ASSUME NEW q \in Queries, Acquire(q) PROVE RefCountExact'
  <2>1. DefaultHolds' = DefaultHolds
    BY <1>2, <1>3 DEF Acquire
  <2>2. CASE status = "open"
    BY <1>3, <2>1, <2>2, HoldersJoin, HoldersFinite DEF Acquire, Goto
  <2>3. CASE status = "closed"
    <3>1. Holders' = Holders
      BY <1>3, <2>3 DEF Acquire, Goto, Holders, Holding, TypeOK
    <3> QED
      BY <1>3, <2>1, <2>3, <3>1 DEF Acquire
  <2> QED
    BY <2>2, <2>3 DEF TypeOK
<1>4. ASSUME NEW q \in Queries, QuietQuery(q) PROVE RefCountExact'
  BY <1>2, <1>4, QuietQueryFrame, HoldersStay
<1>5. ASSUME NEW q \in Queries, ReleaseQuery(q) PROVE RefCountExact'
  <2>1. DefaultHolds' = DefaultHolds
    BY <1>2, <1>5 DEF ReleaseQuery
  <2>2. Cardinality(Holders') = Cardinality(Holders) - 1
    BY <1>5, HoldersLeave DEF ReleaseQuery, Goto
  <2>3. activeCount' = activeCount - 1
    BY <1>5 DEF ReleaseQuery, Release
  <2> QED
    BY <2>1, <2>2, <2>3, HoldersFinite
<1>6. ASSUME NEW d \in Defaults,
             GetDefaultSender(d) \/ WakeUp(d) \/ NewDefaultAssociation(d) \/ SendDefault(d)
      PROVE  RefCountExact'
  BY <1>1, <1>2, <1>6 DEF GetDefaultSender, WakeUp, NewDefaultAssociation, SendDefault
<1>7. ASSUME NEW d \in Defaults, InstallDefault(d) PROVE RefCountExact'
  <2>1. Holders' = Holders
    BY <1>1, <1>7 DEF InstallDefault, InstallWith
  <2>2. defChan = "empty" /\ ~DefaultHolds
    BY <1>7 DEF InstallDefault, InstallWith, DialInv, Dialling, ReceiverInv, DefaultHolds
  <2>3. CASE activeCount' = activeCount + 1 /\ defChan' = "full"
    <3>1. DefaultHolds'
      BY <2>3 DEF DefaultHolds
    <3> QED
      BY <2>1, <2>2, <2>3, <3>1, HoldersFinite
  <2>4. CASE UNCHANGED <<activeCount, defChan>>
    BY <1>2, <1>7, <2>1, <2>4 DEF InstallDefault, InstallWith
  <2> QED
    BY <1>7, <2>3, <2>4 DEF InstallDefault, InstallWith
<1>8. ASSUME NEW r \in Receivers,
             ReceivePackets(r) \/ DefaultReceiveEnds(r) \/ DefaultReceiveFails(r) \/ SeeClosed(r)
      PROVE  RefCountExact'
  <2>1. Holders' = Holders
    BY <1>1, <1>8 DEF ReceivePackets, DefaultReceiveEnds, DefaultReceiveFails, SeeClosed
  <2>2. DefaultHolds' <=> DefaultHolds
    BY <1>8 DEF ReceivePackets, DefaultReceiveEnds, DefaultReceiveFails, SeeClosed, RGoto,
                DefaultHolds, TypeOK
  <2> QED
    BY <1>8, <2>1, <2>2 DEF ReceivePackets, DefaultReceiveEnds, DefaultReceiveFails, SeeClosed
<1>9. ASSUME NEW r \in Receivers, TakeDefaultReceiver(r) PROVE RefCountExact'
  <2>1. DefaultHolds /\ DefaultHolds'
    BY <1>9 DEF TakeDefaultReceiver, RGoto, DefaultHolds, TypeOK
  <2> QED
    BY <1>1, <1>9, <2>1 DEF TakeDefaultReceiver
<1>10. ASSUME NEW r \in Receivers, ReleaseDefault(r) PROVE RefCountExact'
  <2>1. DefaultHolds
    BY <1>10 DEF ReleaseDefault, DefaultHolds
  <2>2. ~DefaultHolds'
    BY <1>10 DEF ReleaseDefault, RGoto, DefaultHolds, ReceiverInv, TypeOK
  <2> QED
    BY <1>1, <1>10, <2>1, <2>2, HoldersFinite DEF ReleaseDefault, Release
<1>11. ASSUME NEW k \in Closers, Close(k) PROVE RefCountExact'
  BY <1>1, <1>2, <1>11 DEF Close
<1>12. CASE DefaultExpires \/ UNCHANGED vars
  BY <1>1, <1>2, <1>12 DEF DefaultExpires, vars
<1> QED
  BY <1>3, <1>4, <1>5, <1>6, <1>7, <1>8, <1>9, <1>10, <1>11, <1>12
     DEF Next, QueryStep, DefaultStep, ReceiverStep, QuietQuery

-----------------------------------------------------------------------------
(* What a release does to the status, seen from the count it leaves.       *)
LEMMA ReleaseStatus ==
    ASSUME TypeOK, Release
    PROVE  /\ activeCount' = 0 => status' = "closed"
           /\ status' # status => status' = "closed" /\ activeCount' = 0
BY DEF Release, CloseLocked, TypeOK

(* The parent closes with its last reference; it takes the exact count to  *)
(* know that a fresh reference makes the count positive.                   *)
LEMMA AutoTerminationInductive ==
    TypeOK /\ RefCountExact /\ AutoTermination /\ [Next]_vars => AutoTermination'
<1> SUFFICES ASSUME TypeOK, RefCountExact, AutoTermination, [Next]_vars
             PROVE  AutoTermination'
  OBVIOUS
<1> USE DEF AutoTermination, OutsideQuery, OutsideDefault, OutsideReceive, parentVars,
            defaultVars, queryVars
<1>0. activeCount \in Nat
  BY HoldersFinite DEF RefCountExact
<1>1. CASE UNCHANGED <<status, activeCount, pc, defChan>>
  BY <1>1
<1>2. ASSUME NEW q \in Queries, Acquire(q) PROVE AutoTermination'
  <2>1. CASE status = "closed"
    BY <1>2, <2>1 DEF Acquire
  <2>2. CASE status = "open"
    BY <1>0, <1>2, <2>2 DEF Acquire
  <2> QED
    BY <2>1, <2>2 DEF TypeOK
<1>3. ASSUME NEW q \in Queries, QuietQuery(q) PROVE AutoTermination'
  <2>1. UNCHANGED <<status, activeCount, defChan>>
    BY <1>3, QuietQueryFrame
  <2>2. \A p \in Queries : pc'[p] = "done" => pc[p] = "done"
    BY <1>3 DEF QuietQuery, NewDNSAssociation, Register, SendQuery, Response,
                SelectHandler, SelectClosed, Deliver, CloseAnswered, DNSReceiveEnds,
                DNSReceiveFails, RemoveDNSSender, CloseSub, DNSExpires, Goto, TypeOK
  <2> QED
    BY <2>1, <2>2
<1>4. ASSUME NEW q \in Queries, ReleaseQuery(q) PROVE AutoTermination'
  BY <1>4, ReleaseStatus DEF ReleaseQuery
<1>5. ASSUME NEW d \in Defaults,
             GetDefaultSender(d) \/ WakeUp(d) \/ NewDefaultAssociation(d) \/ SendDefault(d)
      PROVE  AutoTermination'
  BY <1>1, <1>5 DEF GetDefaultSender, WakeUp, NewDefaultAssociation, SendDefault
<1>6. ASSUME NEW d \in Defaults, InstallDefault(d) PROVE AutoTermination'
  BY <1>0, <1>6 DEF InstallDefault, InstallWith
<1>7. ASSUME NEW r \in Receivers,
             ReceivePackets(r) \/ DefaultReceiveEnds(r) \/ DefaultReceiveFails(r) \/ SeeClosed(r)
      PROVE  AutoTermination'
  BY <1>1, <1>7 DEF ReceivePackets, DefaultReceiveEnds, DefaultReceiveFails, SeeClosed
<1>8. ASSUME NEW r \in Receivers, TakeDefaultReceiver(r) PROVE AutoTermination'
  <2>1. DefaultHolds
    BY <1>8 DEF TakeDefaultReceiver, DefaultHolds
  <2>2. activeCount # 0
    BY <2>1, HoldersFinite DEF RefCountExact
  <2> QED
    BY <1>8, <2>2 DEF TakeDefaultReceiver
<1>9. ASSUME NEW r \in Receivers, ReleaseDefault(r) PROVE AutoTermination'
  BY <1>9, ReleaseStatus DEF ReleaseDefault
<1>10. ASSUME NEW k \in Closers, Close(k) PROVE AutoTermination'
  BY <1>10 DEF Close, CloseLocked
<1>11. CASE DefaultExpires \/ UNCHANGED vars
  BY <1>1, <1>11 DEF DefaultExpires, vars
<1> QED
  BY <1>2, <1>3, <1>4, <1>5, <1>6, <1>7, <1>8, <1>9, <1>10, <1>11
     DEF Next, QueryStep, DefaultStep, ReceiverStep, QuietQuery

-----------------------------------------------------------------------------
(* The inductive invariant of the association.                             *)
IInv == /\ TypeOK
        /\ DialInv
        /\ ReceiverInv
        /\ ClosedOnce
        /\ QueryInv
        /\ NoLeak
        /\ AnswerInv
        /\ RefCountExact
        /\ AutoTermination

(* It holds of a fresh association.                                        *)
LEMMA IInvInitially == Init => IInv
<1> SUFFICES ASSUME Init PROVE IInv
  OBVIOUS
<1>1. TypeOK /\ DialInv /\ ReceiverInv
  BY NoneAssumption, MaxArrivalsAssumption
     DEF Init, TypeOK, QueryStates, DefaultStates, ReceiverStates, DialInv, Dialling,
         ReceiverInv
<1>2. ClosedOnce /\ QueryInv /\ NoLeak /\ AnswerInv /\ AutoTermination
  BY DEF Init, ClosedOnce, QueryInv, NoLeak, AnswerInv, AutoTermination
<1>3. Holders = {} /\ ~DefaultHolds
  BY DEF Init, Holders, Holding, DefaultHolds
<1>4. RefCountExact
  BY <1>3, FS_EmptySet DEF Init, RefCountExact
<1> QED
  BY <1>1, <1>2, <1>4 DEF IInv

(* It holds for ever: each part is kept by every step, given the others.   *)
THEOREM Invariance == Spec => []IInv
<1>1. TypeOK' /\ IInv /\ [Next]_vars => IInv'
  BY DialInductive, ReceiverInductive, ClosedOnceInductive, QueryInductive,
     NoLeakInductive, AnswerInductive, RefCountInductive, AutoTerminationInductive
     DEF IInv
<1> QED
  BY <1>1, IInvInitially, TypeCorrect, PTL DEF Spec

(* activeCount is exact on every path through handleDNSQuery,              *)
(* runDNSReceiver, getOrCreateDefaultSender and ReceivePackets.            *)
THEOREM CountIsExact == Spec => []RefCountExact
BY Invariance, PTL DEF IInv

(* close(a.closeChan) runs at most once.                                   *)
THEOREM ChannelClosedOnce == Spec => []ClosedOnce
BY Invariance, PTL DEF IInv

(* No sub-association outlives its owner or a closed parent.               *)
THEOREM NothingLeaks == Spec => []NoLeak
BY Invariance, PTL DEF IInv

(* The parent never stays open after the last of its references.           *)
THEOREM Terminates == Spec => []AutoTermination
BY Invariance, PTL DEF IInv

(* A query is answered at most once.                                       *)
THEOREM AnsweredOnce == Spec => []OneAnswer
<1>1. IInv => OneAnswer
  BY DEF IInv, TypeOK, AnswerInv, OneAnswer
<1> QED
  BY <1>1, Invariance, PTL

(* The default association is dialled at most once and its receiver finds  *)
(* the channel empty.                                                      *)
THEOREM DialledOnce == Spec => []OneDefault
<1>1. IInv => OneDefault
  BY DEF IInv, TypeOK, DialInv, Dialling, OneDefault
<1> QED
  BY <1>1, Invariance, PTL

(* The parent closes itself only when nothing refers to it.                *)
THEOREM ClosesOnlyWhenIdle == Spec => AutoCloseOnlyWhenIdle
<1> DEFINE Idle == status = "open" /\ status' = "closed" /\ kpc' = kpc
                     => Holders' = {} /\ ~DefaultHolds'
<1>1. IInv /\ IInv' /\ [Next]_vars => [Idle]_vars
  <2> SUFFICES ASSUME IInv, IInv', [Next]_vars, status = "open", status' = "closed",
                      kpc' = kpc
               PROVE  Holders' = {} /\ ~DefaultHolds'
    OBVIOUS
  <2> USE DEF OutsideQuery, OutsideDefault, OutsideReceive, parentVars, defaultVars,
              queryVars
  <2>1. ASSUME NEW q \in Queries PROVE ~Acquire(q) /\ ~QuietQuery(q)
    BY QuietQueryFrame DEF Acquire
  <2>2. ASSUME NEW d \in Defaults PROVE ~GetDefaultSender(d) /\ ~DefaultStep(d)
    BY DEF GetDefaultSender, DefaultStep, WakeUp, NewDefaultAssociation, InstallDefault,
           InstallWith, SendDefault
  <2>3. ASSUME NEW r \in Receivers PROVE ~QuietReceiver(r)
    BY DEF QuietReceiver, ReceivePackets, TakeDefaultReceiver, DefaultReceiveEnds,
           DefaultReceiveFails, SeeClosed
  <2>4. ASSUME NEW k \in Closers PROVE ~Close(k)
    BY DEF Close, IInv, TypeOK
  <2>5. ~DefaultExpires /\ ~UNCHANGED vars
    BY DEF DefaultExpires, vars
  <2>6. (\E q \in Queries : ReleaseQuery(q)) \/ (\E r \in Receivers : ReleaseDefault(r))
    BY <2>1, <2>2, <2>3, <2>4, <2>5
       DEF Next, QueryStep, DefaultStep, ReceiverStep, QuietQuery, QuietReceiver
  <2>7. activeCount' = 0
    BY <2>6, ReleaseStatus DEF IInv, ReleaseQuery, ReleaseDefault
  <2>8. IsFiniteSet(Holders') /\ Cardinality(Holders') \in Nat
    <3>1. Holders' \subseteq Queries
      BY DEF Holders
    <3> QED
      BY <3>1, FinitelyManyQueries, FS_Subset, FS_CardinalityType
  <2>9. ~DefaultHolds' /\ Cardinality(Holders') = 0
    BY <2>7, <2>8 DEF IInv, RefCountExact
  <2> QED
    BY <2>8, <2>9, FS_EmptySet
<1> QED
  BY <1>1, Invariance, PTL DEF Spec, AutoCloseOnlyWhenIdle

-----------------------------------------------------------------------------
(* The intercepting association implements the safety part of the contract *)
(* of an association: no query and no default packet is taken once it      *)
(* ended, it ends once and ReceivePackets runs once.                       *)
THEOREM ImplementsAssoc == Spec => Assoc!Safety
<1> USE DEF Assoc!Init, Assoc!Next, Assoc!vars, Assoc!Accept, Assoc!End,
            Assoc!StartReceive, Assoc!ReturnReceive, Assoc!RefuseReceive
<1>1. Init => Assoc!Init
  BY DEF Init
<1>2. IInv /\ [Next]_vars => [Assoc!Next]_(Assoc!vars)
  <2> SUFFICES ASSUME IInv, [Next]_vars PROVE [Assoc!Next]_(Assoc!vars)
    OBVIOUS
  <2> USE DEF OutsideQuery, OutsideDefault, OutsideReceive, parentVars, defaultVars,
              queryVars, IInv, TypeOK, Goto, DGoto, RGoto
  <2>0. \A d \in Defaults : Woken[d] \in {"idle", "refused"} <=> dpc[d] \in {"idle", "refused"}
    BY DEF Woken
  <2>1. ASSUME NEW q \in Queries, Acquire(q) PROVE [Assoc!Next]_(Assoc!vars)
    BY <2>1 DEF Acquire
  <2>2. ASSUME NEW q \in Queries, QuietQuery(q) PROVE UNCHANGED Assoc!vars
    <3>1. UNCHANGED <<status, handler, rpc, dpc>>
      BY <2>2, QuietQueryFrame
    <3>2. \A p \in Queries : pc'[p] \in {"idle", "refused"} <=> pc[p] \in {"idle", "refused"}
      BY <2>2 DEF QuietQuery, NewDNSAssociation, Register, SendQuery, Response,
                  SelectHandler, SelectClosed, Deliver, CloseAnswered, DNSReceiveEnds,
                  DNSReceiveFails, RemoveDNSSender, CloseSub, DNSExpires
    <3> QED
      BY <3>1, <3>2
  <2>3. ASSUME NEW q \in Queries, ReleaseQuery(q) PROVE [Assoc!Next]_(Assoc!vars)
    BY <2>0, <2>3 DEF ReleaseQuery, Release, CloseLocked
  <2>4. ASSUME NEW d \in Defaults, GetDefaultSender(d) PROVE [Assoc!Next]_(Assoc!vars)
    BY <2>4 DEF GetDefaultSender, Proceed
  <2>5. ASSUME NEW d \in Defaults, DefaultStep(d) PROVE UNCHANGED Assoc!vars
    <3>1. UNCHANGED <<status, handler, rpc, pc>>
      BY <2>5 DEF DefaultStep, WakeUp, NewDefaultAssociation, InstallDefault, InstallWith,
                  SendDefault
    <3>2. \A e \in Defaults : dpc'[e] \in {"idle", "refused"} <=> dpc[e] \in {"idle", "refused"}
      <4> DEFINE Same == \A e \in Defaults :
                   dpc'[e] \in {"idle", "refused"} <=> dpc[e] \in {"idle", "refused"}
      <4>1. ASSUME NEW w \in [Defaults -> DefaultStates], NEW s \in DefaultStates \ {"idle", "refused"},
                   dpc' = [w EXCEPT ![d] = s], dpc[d] \notin {"idle", "refused"},
                   \A e \in Defaults : w[e] \in {"idle", "refused"} <=> dpc[e] \in {"idle", "refused"}
            PROVE  Same
        BY <4>1
      <4>2. dpc \in [Defaults -> DefaultStates] /\ Woken \in [Defaults -> DefaultStates]
        BY DEF Woken, DefaultStates
      <4>3. CASE WakeUp(d)
        BY <4>1, <4>2, <4>3 DEF WakeUp, Proceed, DefaultStates
      <4>4. CASE NewDefaultAssociation(d)
        BY <4>1, <4>2, <4>4 DEF NewDefaultAssociation, DefaultStates
      <4>5. CASE InstallDefault(d)
        <5>1. PICK s \in {"failed", "got"} : dpc' = [Woken EXCEPT ![d] = s]
          BY <4>5 DEF InstallDefault, InstallWith
        <5>2. dpc[d] \in {"dialed", "dialFailed"}
          BY <4>5 DEF InstallDefault, InstallWith
        <5> QED
          BY <2>0, <4>1, <4>2, <5>1, <5>2 DEF DefaultStates
      <4>6. CASE SendDefault(d)
        BY <4>1, <4>2, <4>6 DEF SendDefault, DefaultStates
      <4> QED
        BY <2>5, <4>3, <4>4, <4>5, <4>6 DEF DefaultStep
    <3> QED
      BY <3>1, <3>2
  <2>6. ASSUME NEW r \in Receivers, QuietReceiver(r) PROVE [Assoc!Next]_(Assoc!vars)
    BY <2>6, NoneAssumption
       DEF QuietReceiver, ReceivePackets, TakeDefaultReceiver, DefaultReceiveEnds,
           DefaultReceiveFails, SeeClosed, ReceiverInv
  <2>7. ASSUME NEW r \in Receivers, ReleaseDefault(r) PROVE [Assoc!Next]_(Assoc!vars)
    BY <2>0, <2>7, NoneAssumption DEF ReleaseDefault, Release, CloseLocked, ReceiverInv
  <2>8. ASSUME NEW k \in Closers, Close(k) PROVE [Assoc!Next]_(Assoc!vars)
    BY <2>0, <2>8 DEF Close, CloseLocked
  <2>9. CASE DefaultExpires \/ UNCHANGED vars
    BY <2>9 DEF DefaultExpires, vars
  <2> QED
    BY <2>1, <2>2, <2>3, <2>4, <2>5, <2>6, <2>7, <2>8, <2>9
       DEF Next, QueryStep, DefaultStep, ReceiverStep, QuietQuery, QuietReceiver
<1> QED
  BY <1>1, <1>2, Invariance, PTL DEF Spec, Assoc!Safety

(* The parts together: what the reference count of a parent association is *)
(* for, for any number of queries, default sends, receivers and closers.   *)
THEOREM InterceptIsSafe == Spec => []InterceptSafety
  BY CountIsExact, ChannelClosedOnce, NothingLeaks, Terminates, AnsweredOnce,
     DialledOnce, PTL DEF InterceptSafety
=============================================================================
