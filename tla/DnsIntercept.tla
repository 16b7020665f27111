---------------------------- MODULE DnsIntercept ----------------------------
(***************************************************************************)
(* network/dnsintercept: one association of an InterceptDNSPacketRelay.    *)
(* It multiplexes a short-lived sub-association of the DNS relay for each  *)
(* intercepted query and a single, lazily created sub-association of the   *)
(* default relay, counts the active ones, and closes itself when the count *)
(* drops to zero.                                                          *)
(*                                                                         *)
(* A section under a.mu is one action.  Everything the code does without   *)
(* the lock (calls into the sub-relays, the channel waits, the deferred    *)
(* calls of runDNSReceiver) is an action of its own.  The sub-relays are   *)
(* external and keep the contract of module RelayAssoc.                    *)
(***************************************************************************)
EXTENDS Integers, FiniteSets

CONSTANTS Queries,      \* SendPacket calls to the intercepted resolver
          Defaults,     \* SendPacket calls to any other destination
          Receivers,    \* ReceivePackets calls
          Closers,      \* Close calls
          MaxArrivals   \* bound: packets a DNS sub-association may receive

ASSUME FinitelyManyQueries == IsFiniteSet(Queries)
ASSUME MaxArrivalsAssumption == MaxArrivals \in Nat

VARIABLES status,       \* a.isClosed and closeChan: "open" or "closed"
          closings,     \* how often closeLocked ran close(a.closeChan)
          activeCount,  \* a.activeCount
          defState,     \* a.defState: idle, initializing, initialized
          defResult,    \* cached defSender / defInitErr: none, sender, error
          defChan,      \* a.defReceiverChan: empty, full, taken
          handler,      \* the call whose handler is installed, None before
          dnsSenders,   \* a.dnsSenders
          pc,           \* handleDNSQuery and runDNSReceiver of a query
          sub,          \* DNS sub-association of a query: none, open, closed
          arrivals,     \* packets that reached the sub-association
          handled,      \* queries whose singlePacketHandler.handled is set
          delivered,    \* packets of a query given to the parent handler
          dpc,          \* getOrCreateDefaultSender and the send after it
          defSub,       \* default sub-association: none, open, closed
          defDials,     \* default sub-associations ever created
          rpc,          \* ReceivePackets calls
          kpc           \* Close calls

parentVars  == <<status, closings, activeCount>>
defaultVars == <<defState, defResult, defChan, dpc, defSub, defDials>>
queryVars   == <<dnsSenders, pc, sub, arrivals, handled, delivered>>
vars == <<status, closings, activeCount, defState, defResult, defChan, handler,
          dnsSenders, pc, sub, arrivals, handled, delivered, dpc, defSub,
          defDials, rpc, kpc>>

None == "none"
ASSUME NoneAssumption == None \notin Receivers

QueryStates == {"idle", "refused", "acquired", "created", "registered",
                "waiting", "handling", "chosen", "answered",
                "unregister", "closing", "releasing", "done"}
DefaultStates == {"idle", "refused", "parked", "woken", "dialing", "dialed",
                  "dialFailed", "got", "sent", "failed"}
ReceiverStates == {"idle", "refused", "select", "receiving", "releasing",
                   "waitClose", "returned"}

TypeOK == /\ status \in {"open", "closed"}
          /\ closings \in Nat
          /\ activeCount \in Int
          /\ defState \in {"idle", "initializing", "initialized"}
          /\ defResult \in {"none", "sender", "error"}
          /\ defChan \in {"empty", "full", "taken"}
          /\ handler \in Receivers \cup {None}
          /\ dnsSenders \in SUBSET Queries
          /\ pc \in [Queries -> QueryStates]
          /\ sub \in [Queries -> {"none", "open", "closed"}]
          /\ arrivals \in [Queries -> 0..MaxArrivals]
          /\ handled \in SUBSET Queries
          /\ delivered \in [Queries -> Nat]
          /\ dpc \in [Defaults -> DefaultStates]
          /\ defSub \in {"none", "open", "closed"}
          /\ defDials \in Nat
          /\ rpc \in [Receivers -> ReceiverStates]
          /\ kpc \in [Closers -> {"idle", "done", "refused"}]

(* InterceptDNSPacketRelay.NewAssociation                                  *)
Init == /\ status = "open"
        /\ closings = 0
        /\ activeCount = 0
        /\ defState = "idle"
        /\ defResult = "none"
        /\ defChan = "empty"
        /\ handler = None
        /\ dnsSenders = {}
        /\ pc = [q \in Queries |-> "idle"]
        /\ sub = [q \in Queries |-> "none"]
        /\ arrivals = [q \in Queries |-> 0]
        /\ handled = {}
        /\ delivered = [q \in Queries |-> 0]
        /\ dpc = [d \in Defaults |-> "idle"]
        /\ defSub = "none"
        /\ defDials = 0
        /\ rpc = [r \in Receivers |-> "idle"]
        /\ kpc = [k \in Closers |-> "idle"]

-----------------------------------------------------------------------------
(* Closing and reference counting.                                         *)

(* a.cond.Broadcast()                                                      *)
Woken == [d \in Defaults |-> IF dpc[d] = "parked" THEN "woken" ELSE dpc[d]]

(* Variant of closeLocked that forgets the registered DNS senders.         *)
CloseLockedSparesDNS ==
    /\ status' = "closed"
    /\ closings' = closings + 1
    /\ dpc' = Woken
    /\ defSub' = IF defResult = "sender" THEN "closed" ELSE defSub
    /\ UNCHANGED sub

(* closeLocked: closes the channel, wakes the waiting senders, closes the  *)
(* installed default sender and every registered DNS sender.               *)
CloseLocked ==
    /\ status' = "closed"
    /\ closings' = closings + 1
    /\ dpc' = Woken
    /\ defSub' = IF defResult = "sender" THEN "closed" ELSE defSub
    /\ sub' = [q \in Queries |-> IF q \in dnsSenders THEN "closed" ELSE sub[q]]

(* Variant of Release that does not test isClosed.                         *)
ReleaseAlwaysCloses ==
    /\ activeCount' = activeCount - 1
    /\ \/ activeCount' = 0 /\ CloseLocked
       \/ activeCount' # 0 /\ UNCHANGED <<status, closings, dpc, defSub, sub>>

(* Variant of Release that closes one reference too early.                 *)
ReleaseClosesEarly ==
    /\ activeCount' = activeCount - 1
    /\ \/ activeCount' <= 1 /\ status = "open" /\ CloseLocked
       \/ activeCount' > 1 /\ UNCHANGED <<status, closings, dpc, defSub, sub>>
       \/ status = "closed" /\ UNCHANGED <<status, closings, dpc, defSub, sub>>

(* Variant of Release that never closes.                                   *)
ReleaseNeverCloses ==
    /\ activeCount' = activeCount - 1
    /\ UNCHANGED <<status, closings, dpc, defSub, sub>>

(* Release: drops a reference and closes the parent with the last one.     *)
Release ==
    /\ activeCount' = activeCount - 1
    /\ \/ activeCount' = 0 /\ status = "open" /\ CloseLocked
       \/ ~(activeCount' = 0 /\ status = "open")
          /\ UNCHANGED <<status, closings, dpc, defSub, sub>>

(* interceptSender.Close                                                   *)
Close(k) ==
    /\ kpc[k] = "idle"
    /\ \/ /\ status = "closed"
          /\ kpc' = [kpc EXCEPT ![k] = "refused"]
          /\ UNCHANGED <<status, closings, dpc, defSub, sub>>
       \/ /\ status = "open"
          /\ kpc' = [kpc EXCEPT ![k] = "done"]
          /\ CloseLocked
    /\ UNCHANGED <<activeCount, defState, defResult, defChan, handler, dnsSenders,
                   pc, arrivals, handled, delivered, defDials, rpc>>

-----------------------------------------------------------------------------
(* A DNS query: handleDNSQuery, then the goroutine runDNSReceiver.         *)

Goto(q, s) == pc' = [pc EXCEPT ![q] = s]

OutsideQuery == /\ UNCHANGED parentVars
                /\ UNCHANGED defaultVars
                /\ UNCHANGED <<handler, rpc, kpc>>

(* The first section: refuse if closed, otherwise take a reference.        *)
Acquire(q) ==
    /\ pc[q] = "idle"
    /\ \/ /\ status = "closed"
          /\ Goto(q, "refused")
          /\ UNCHANGED activeCount
       \/ /\ status = "open"
          /\ Goto(q, "acquired")
          /\ activeCount' = activeCount + 1
    /\ UNCHANGED <<status, closings, handler, dnsSenders, sub, arrivals, handled,
                   delivered, rpc, kpc>>
    /\ UNCHANGED defaultVars

(* dnsRelay.NewAssociation() succeeds or fails, without the lock.          *)
NewDNSAssociation(q) ==
    /\ pc[q] = "acquired"
    /\ \/ Goto(q, "created") /\ sub' = [sub EXCEPT ![q] = "open"]
       \/ Goto(q, "releasing") /\ UNCHANGED sub
    /\ UNCHANGED <<dnsSenders, arrivals, handled, delivered>>
    /\ OutsideQuery

(* Variant of the second section that registers without testing isClosed.  *)
RegisterUnguarded(q) ==
    /\ pc[q] = "created"
    /\ Goto(q, "registered")
    /\ dnsSenders' = dnsSenders \cup {q}
    /\ UNCHANGED <<sub, arrivals, handled, delivered>>
    /\ OutsideQuery

(* The second section: the parent may have been closed in between, then    *)
(* the fresh association is closed and the reference dropped.              *)
Register(q) ==
    /\ pc[q] = "created"
    /\ \/ /\ status = "closed"
          /\ Goto(q, "closing")
          /\ UNCHANGED dnsSenders
       \/ /\ status = "open"
          /\ Goto(q, "registered")
          /\ dnsSenders' = dnsSenders \cup {q}
    /\ UNCHANGED <<sub, arrivals, handled, delivered>>
    /\ OutsideQuery

(* sender.SendPacket(p, dnsRemoteResolver): on success the receiving       *)
(* goroutine is started, on failure the association is taken back.         *)
SendQuery(q) ==
    /\ pc[q] = "registered"
    /\ \/ sub[q] = "open" /\ Goto(q, "waiting")
       \/ Goto(q, "unregister")
    /\ UNCHANGED <<dnsSenders, sub, arrivals, handled, delivered>>
    /\ OutsideQuery

(* Variant of the entry of HandlePacket that forgets the flag.             *)
ResponseUnguarded(q) ==
    /\ pc[q] = "waiting"
    /\ arrivals[q] < MaxArrivals
    /\ arrivals' = [arrivals EXCEPT ![q] = @ + 1]
    /\ Goto(q, "handling")
    /\ UNCHANGED <<dnsSenders, sub, handled, delivered>>
    /\ OutsideQuery

(* A packet reaches singlePacketHandler.HandlePacket: the first one sets   *)
(* the flag and goes on, the others are ignored.                           *)
Response(q) ==
    /\ pc[q] = "waiting"
    /\ arrivals[q] < MaxArrivals
    /\ arrivals' = [arrivals EXCEPT ![q] = @ + 1]
    /\ \/ q \notin handled /\ handled' = handled \cup {q} /\ Goto(q, "handling")
       \/ q \in handled /\ UNCHANGED <<handled, pc>>
    /\ UNCHANGED <<dnsSenders, sub, delivered>>
    /\ OutsideQuery

(* The select of HandlePacket.  When both channels are closed the runtime  *)
(* picks either case.                                                      *)
SelectHandler(q) ==
    /\ pc[q] = "handling"
    /\ handler # None
    /\ Goto(q, "chosen")
    /\ UNCHANGED <<dnsSenders, sub, arrivals, handled, delivered>>
    /\ OutsideQuery

(* Variant that looks at closeChan only once the handler is there.         *)
SelectClosedTooLate(q) ==
    /\ pc[q] = "handling"
    /\ handler # None
    /\ status = "closed"
    /\ Goto(q, "waiting")
    /\ UNCHANGED <<dnsSenders, sub, arrivals, handled, delivered>>
    /\ OutsideQuery

SelectClosed(q) ==
    /\ pc[q] = "handling"
    /\ status = "closed"
    /\ Goto(q, "waiting")
    /\ UNCHANGED <<dnsSenders, sub, arrivals, handled, delivered>>
    /\ OutsideQuery

(* The parent handler is called, with the local resolver as the source.    *)
Deliver(q) ==
    /\ pc[q] = "chosen"
    /\ delivered' = [delivered EXCEPT ![q] = @ + 1]
    /\ Goto(q, "answered")
    /\ UNCHANGED <<dnsSenders, sub, arrivals, handled>>
    /\ OutsideQuery

(* h.sender.Close() after the answer.                                      *)
CloseAnswered(q) ==
    /\ pc[q] = "answered"
    /\ sub' = [sub EXCEPT ![q] = "closed"]
    /\ Goto(q, "waiting")
    /\ UNCHANGED <<dnsSenders, arrivals, handled, delivered>>
    /\ OutsideQuery

(* receiver.ReceivePackets returns because its association was closed ...  *)
DNSReceiveEnds(q) ==
    /\ pc[q] = "waiting"
    /\ sub[q] = "closed"
    /\ Goto(q, "unregister")
    /\ UNCHANGED <<dnsSenders, sub, arrivals, handled, delivered>>
    /\ OutsideQuery

(* ... or with an error while it is open.                                  *)
DNSReceiveFails(q) ==
    /\ pc[q] = "waiting"
    /\ sub[q] = "open"
    /\ Goto(q, "unregister")
    /\ UNCHANGED <<dnsSenders, sub, arrivals, handled, delivered>>
    /\ OutsideQuery

(* removeDNSSender, sender.Close() and Release(), in the order in which    *)
(* the error path makes them and the deferred calls run.                   *)
RemoveDNSSender(q) ==
    /\ pc[q] = "unregister"
    /\ dnsSenders' = dnsSenders \ {q}
    /\ Goto(q, "closing")
    /\ UNCHANGED <<sub, arrivals, handled, delivered>>
    /\ OutsideQuery

CloseSub(q) ==
    /\ pc[q] = "closing"
    /\ sub' = [sub EXCEPT ![q] = "closed"]
    /\ Goto(q, "releasing")
    /\ UNCHANGED <<dnsSenders, arrivals, handled, delivered>>
    /\ OutsideQuery

(* Variant in which the error path of the query forgets its Release.       *)
ReleaseQueryForgotten(q) ==
    /\ pc[q] = "releasing"
    /\ Goto(q, "done")
    /\ UNCHANGED <<dnsSenders, sub, arrivals, handled, delivered>>
    /\ OutsideQuery

ReleaseQuery(q) ==
    /\ pc[q] = "releasing"
    /\ Goto(q, "done")
    /\ Release
    /\ UNCHANGED <<defState, defResult, defChan, handler, dnsSenders, arrivals,
                   handled, delivered, defDials, rpc, kpc>>

(* The idle timeout the DNS relay must be wrapped with closes the          *)
(* sub-association.                                                        *)
DNSExpires(q) ==
    /\ sub[q] = "open"
    /\ sub' = [sub EXCEPT ![q] = "closed"]
    /\ UNCHANGED <<dnsSenders, pc, arrivals, handled, delivered>>
    /\ OutsideQuery

(* Steps of the goroutines of a query that need nobody's cooperation       *)
(* except the sub-relay's.                                                 *)
QueryStep(q) == \/ NewDNSAssociation(q)
                \/ Register(q)
                \/ SendQuery(q)
                \/ SelectHandler(q)
                \/ SelectClosed(q)
                \/ Deliver(q)
                \/ CloseAnswered(q)
                \/ DNSReceiveEnds(q)
                \/ RemoveDNSSender(q)
                \/ CloseSub(q)
                \/ ReleaseQuery(q)

-----------------------------------------------------------------------------
(* A default packet: getOrCreateDefaultSender, then the send.              *)

DGoto(d, s) == dpc' = [dpc EXCEPT ![d] = s]

OutsideDefault == /\ UNCHANGED queryVars
                  /\ UNCHANGED <<status, closings, handler, rpc, kpc>>

(* Variant of the loop that dials while another call is dialling.          *)
ProceedWithoutWaiting(d) ==
    \/ /\ defState = "initialized"
       /\ DGoto(d, IF defResult = "sender" THEN "got" ELSE "failed")
       /\ UNCHANGED defState
    \/ /\ defState # "initialized"
       /\ DGoto(d, "dialing")
       /\ defState' = "initializing"

(* The loop and what follows it up to the unlock: wait while another call  *)
(* initialises, use the cached result, or become the initialising call.    *)
Proceed(d) ==
    \/ /\ defState = "initializing"
       /\ DGoto(d, "parked")
       /\ UNCHANGED defState
    \/ /\ defState = "initialized"
       /\ DGoto(d, IF defResult = "sender" THEN "got" ELSE "failed")
       /\ UNCHANGED defState
    \/ /\ defState = "idle"
       /\ DGoto(d, "dialing")
       /\ defState' = "initializing"

GetDefaultSender(d) ==
    /\ dpc[d] = "idle"
    /\ \/ status = "closed" /\ DGoto(d, "refused") /\ UNCHANGED defState
       \/ status = "open" /\ Proceed(d)
    /\ UNCHANGED <<activeCount, defResult, defChan, defSub, defDials>>
    /\ OutsideDefault

(* A call returns from a.cond.Wait() with the lock.                        *)
WakeUp(d) ==
    /\ dpc[d] = "woken"
    /\ \/ status = "closed" /\ DGoto(d, "failed") /\ UNCHANGED defState
       \/ status = "open" /\ Proceed(d)
    /\ UNCHANGED <<activeCount, defResult, defChan, defSub, defDials>>
    /\ OutsideDefault

(* defaultRelay.NewAssociation(), without the lock.                        *)
NewDefaultAssociation(d) ==
    /\ dpc[d] = "dialing"
    /\ \/ /\ DGoto(d, "dialed")
          /\ defSub' = "open"
          /\ defDials' = defDials + 1
       \/ /\ DGoto(d, "dialFailed")
          /\ UNCHANGED <<defSub, defDials>>
    /\ UNCHANGED <<activeCount, defState, defResult, defChan>>
    /\ OutsideDefault

(* The section after NewAssociation, given the waiters it leaves.           *)
InstallWith(d, waiters) ==
    LET goto(s) == dpc' = [waiters EXCEPT ![d] = s]
    IN
    /\ dpc[d] \in {"dialed", "dialFailed"}
    /\ defState' = "initialized"
    /\ \/ /\ status = "closed"
          /\ goto("failed")
          /\ defSub' = IF dpc[d] = "dialed" THEN "closed" ELSE defSub
          /\ defResult' = "error"
          /\ UNCHANGED <<activeCount, defChan>>
       \/ /\ status = "open"
          /\ dpc[d] = "dialed"
          /\ goto("got")
          /\ defResult' = "sender"
          /\ activeCount' = activeCount + 1
          /\ defChan' = "full"
          /\ UNCHANGED defSub
       \/ /\ status = "open"
          /\ dpc[d] = "dialFailed"
          /\ goto("failed")
          /\ defResult' = "error"
          /\ UNCHANGED <<activeCount, defChan, defSub>>
    /\ UNCHANGED defDials
    /\ OutsideDefault

(* Variant that forgets a.cond.Broadcast().                                *)
InstallWithoutBroadcast(d) == InstallWith(d, dpc)

(* The section after NewAssociation: closes the fresh association if the   *)
(* parent was closed in between, otherwise caches the outcome, counts the  *)
(* association and hands its receiver over; always wakes the waiters.      *)
InstallDefault(d) == InstallWith(d, Woken)

(* defSender.SendPacket                                                    *)
SendDefault(d) ==
    /\ dpc[d] = "got"
    /\ \/ defSub = "open" /\ DGoto(d, "sent")
       \/ DGoto(d, "failed")
    /\ UNCHANGED <<activeCount, defState, defResult, defChan, defSub, defDials>>
    /\ OutsideDefault

(* The default relay ends its association by itself.                       *)
DefaultExpires ==
    /\ defSub = "open"
    /\ defSub' = "closed"
    /\ UNCHANGED <<activeCount, defState, defResult, defChan, dpc, defDials>>
    /\ OutsideDefault

DefaultStep(d) == WakeUp(d) \/ NewDefaultAssociation(d) \/ InstallDefault(d)
                  \/ SendDefault(d)

-----------------------------------------------------------------------------
(* ReceivePackets                                                          *)

RGoto(r, s) == rpc' = [rpc EXCEPT ![r] = s]

OutsideReceive == /\ UNCHANGED queryVars
                  /\ UNCHANGED <<defState, defResult, dpc, defSub, defDials, kpc>>

(* The section under the lock: one call installs its handler.              *)
ReceivePackets(r) ==
    /\ rpc[r] = "idle"
    /\ \/ /\ status = "closed" \/ handler # None
          /\ RGoto(r, "refused")
          /\ UNCHANGED handler
       \/ /\ status = "open"
          /\ handler = None
          /\ handler' = r
          /\ RGoto(r, "select")
    /\ UNCHANGED parentVars
    /\ UNCHANGED defChan
    /\ OutsideReceive

(* case receiver := <-defReceiverChan                                      *)
TakeDefaultReceiver(r) ==
    /\ rpc[r] = "select"
    /\ defChan = "full"
    /\ defChan' = "taken"
    /\ RGoto(r, "receiving")
    /\ UNCHANGED parentVars
    /\ UNCHANGED handler
    /\ OutsideReceive

(* The default receiver's ReceivePackets returns because its association   *)
(* was closed, or with an error while it is open.                          *)
DefaultReceiveEnds(r) ==
    /\ rpc[r] = "receiving"
    /\ defSub = "closed"
    /\ RGoto(r, "releasing")
    /\ UNCHANGED parentVars
    /\ UNCHANGED <<handler, defChan>>
    /\ OutsideReceive

DefaultReceiveFails(r) ==
    /\ rpc[r] = "receiving"
    /\ defSub = "open"
    /\ RGoto(r, "releasing")
    /\ UNCHANGED parentVars
    /\ UNCHANGED <<handler, defChan>>
    /\ OutsideReceive

ReleaseDefault(r) ==
    /\ rpc[r] = "releasing"
    /\ RGoto(r, "waitClose")
    /\ Release
    /\ UNCHANGED <<defState, defResult, defChan, handler, dnsSenders, pc, arrivals,
                   handled, delivered, defDials, kpc>>

(* Variant without the case <-closeChan of the select.                     *)
SeeClosedNotInSelect(r) ==
    /\ rpc[r] = "waitClose"
    /\ status = "closed"
    /\ RGoto(r, "returned")
    /\ UNCHANGED parentVars
    /\ UNCHANGED <<handler, defChan>>
    /\ OutsideReceive

(* <-closeChan, in the select and after the Release.                       *)
SeeClosed(r) ==
    /\ rpc[r] \in {"select", "waitClose"}
    /\ status = "closed"
    /\ RGoto(r, "returned")
    /\ UNCHANGED parentVars
    /\ UNCHANGED <<handler, defChan>>
    /\ OutsideReceive

ReceiverStep(r) == TakeDefaultReceiver(r) \/ DefaultReceiveEnds(r)
                   \/ ReleaseDefault(r) \/ SeeClosed(r)

-----------------------------------------------------------------------------
Next == \/ \E q \in Queries : \/ Acquire(q)
                              \/ QueryStep(q)
                              \/ Response(q)
                              \/ DNSReceiveFails(q)
                              \/ DNSExpires(q)
        \/ \E d \in Defaults : GetDefaultSender(d) \/ DefaultStep(d)
        \/ DefaultExpires
        \/ \E r \in Receivers : \/ ReceivePackets(r)
                                \/ ReceiverStep(r)
                                \/ DefaultReceiveFails(r)
        \/ \E k \in Closers : Close(k)

Spec == Init /\ [][Next]_vars

(* A goroutine that can go on does; NewAssociation returns; a closed       *)
(* sub-association ends its ReceivePackets; DNS sub-associations time out  *)
(* (doc.go: the DNS relay must be wrapped with a timeout); the owner of    *)
(* the association runs ReceivePackets, as the adapters of the SDK do at   *)
(* once.  Nobody is obliged to send, to answer or to close, and the        *)
(* default association may live for ever.                                  *)
Fairness == /\ \A q \in Queries : WF_vars(QueryStep(q)) /\ WF_vars(DNSExpires(q))
            /\ \A d \in Defaults : WF_vars(DefaultStep(d))
            /\ \A r \in Receivers : WF_vars(ReceivePackets(r)) /\ WF_vars(ReceiverStep(r))

FairSpec == Spec /\ Fairness

-----------------------------------------------------------------------------
(* The queries that hold a reference to the parent.                        *)
Holding == {"acquired", "created", "registered", "waiting", "handling", "chosen",
            "answered", "unregister", "closing", "releasing"}
Holders == {q \in Queries : pc[q] \in Holding}

(* The default association holds one from its installation until the       *)
(* receiver that took it has released it.                                  *)
DefaultHolds == \/ defChan = "full"
                \/ \E r \in Receivers : rpc[r] \in {"receiving", "releasing"}

(* activeCount is exactly the number of sub-associations whose goroutine   *)
(* has not released them, on every path through the failures and closes of *)
(* handleDNSQuery, runDNSReceiver, getOrCreateDefaultSender and            *)
(* ReceivePackets.                                                         *)
RefCountExact ==
    activeCount = Cardinality(Holders) + (IF DefaultHolds THEN 1 ELSE 0)

(* close(a.closeChan) runs at most once, whichever of Close and the        *)
(* releases comes first: a second one would panic.                         *)
ClosedOnce == closings = IF status = "closed" THEN 1 ELSE 0

(* A closed parent leaves no sub-association open behind it: not a         *)
(* registered DNS sender, not the installed default sender.  A query that  *)
(* has let go of its reference has closed and unregistered its             *)
(* sub-association, and an open default association belongs to somebody.   *)
NoLeak ==
    /\ status = "closed" => /\ \A q \in dnsSenders : sub[q] = "closed"
                            /\ defResult = "sender" => defSub = "closed"
    /\ \A q \in Queries : pc[q] \in {"releasing", "done"}
                             => sub[q] # "open" /\ q \notin dnsSenders
    /\ defSub = "open" => defResult = "sender" \/ \E d \in Defaults : dpc[d] = "dialed"

(* At most one packet of a DNS sub-association reaches the parent handler. *)
OneAnswer == \A q \in Queries : delivered[q] <= 1

(* The default association is created at most once however many SendPacket *)
(* calls race, so the send on defReceiverChan (capacity 1, made under the  *)
(* lock) never blocks.                                                     *)
OneDefault == /\ defDials <= 1
              /\ \A d \in Defaults : dpc[d] = "dialed" => defChan = "empty"

(* The parent closes itself only when no query holds a reference and the   *)
(* default association, if it was installed, has ended.                    *)
AutoCloseOnlyWhenIdle ==
    [][status = "open" /\ status' = "closed" /\ kpc' = kpc
         => Holders' = {} /\ ~DefaultHolds']_vars

(* The parent closes itself when the last reference is dropped: it does    *)
(* not stay open with every sub-association it had finished.               *)
AutoTermination ==
    activeCount = 0 /\ (\/ \E q \in Queries : pc[q] = "done"
                        \/ defChan = "taken") => status = "closed"

(* What the reference count is for: every sub-association is held while it *)
(* is used, released once and left by nobody, each query is answered at    *)
(* most once, and the parent ends once with the last of them.              *)
InterceptSafety == /\ RefCountExact /\ ClosedOnce /\ NoLeak
                   /\ OneAnswer /\ OneDefault /\ AutoTermination

(* A sender waiting for the default association to be initialised is       *)
(* always woken up, by the initialising call or by a close.                *)
WaitersProceed == \A d \in Defaults : dpc[d] = "parked" ~> dpc[d] \in {"sent", "failed"}

(* A query ends, and drops its reference, in every case: failure, no       *)
(* answer, an answer before ReceivePackets is called, a close.             *)
QueriesEnd == \A q \in Queries : pc[q] = "acquired" ~> pc[q] = "done"

(* Neither a waiting sender nor a query is left behind.                    *)
CallsEnd == WaitersProceed /\ QueriesEnd

-----------------------------------------------------------------------------
(* The intercepting association keeps the contract of an association.      *)
Assoc == INSTANCE RelayAssoc
         WITH Calls    <- Queries \cup Defaults,
              status   <- status,
              accepted <- {q \in Queries : pc[q] \notin {"idle", "refused"}}
                          \cup {d \in Defaults : dpc[d] \notin {"idle", "refused"}},
              recv     <- IF handler = None THEN "idle"
                          ELSE IF rpc[handler] = "returned" THEN "returned" ELSE "active"

AssocContract == Assoc!Contract
=============================================================================
