------------------------------ MODULE LwipUdp -------------------------------
(***************************************************************************)
(* The two UDP handlers of network/lwip2transport over a delegate relay    *)
(* whose base is dnstruncate.  A device is configured with one of them:    *)
(*   "proxy"  udpHandler: ReceiveTo creates a session when the table has   *)
(*            none for the local address, outside the lock; the session    *)
(*            goes through the adapter of network/packet_proxy.go;         *)
(*   "relay"  udpRelayHandler: Connect creates it, runReceive removes it.  *)
(* lwIP itself (a UDPConn is connecting until Connect returns, packets of  *)
(* that time are queued and delivered by the connecting goroutine, later   *)
(* ones by the goroutine that writes to the device) is external.           *)
(***************************************************************************)
EXTENDS TruncateRelay

CONSTANTS Conns,         \* lwIP UDPConns
          Addrs,         \* local addresses of the clients
          Closers,       \* goroutines that call closeSession (relay handler)
          MaxPackets     \* bound: packets written to the device

ASSUME MaxPacketsAssumption == MaxPackets \in Nat
ASSUME NamesAssumption == Nil \notin Assocs \cup Conns /\ "input" \notin Conns

VARIABLES mode,          \* which handler the device was configured with
          base,          \* the delegate's pointer: "base" or Nil
          conn,          \* UDPConn: its address, state and queued packets
          senders,       \* udpHandler.senders: address -> association, or Nil
          sessions,      \* udpRelayHandler.sessions: conn -> association, or Nil
          thr,           \* threads in a handler: input, and one per conn
          owner,         \* the conn an association was created for
          resp,          \* udpConnResponseWriter.closed of an association
          closer,        \* closeSession calls of the relay handler
          budget         \* packets still to come

lwipVars == <<mode, base, conn, senders, sessions, thr, owner, resp, closer, budget>>
vars == <<truncVars, lwipVars>>

Threads == {"input"} \cup Conns
Idle == [pc |-> "idle", conn |-> Nil, assoc |-> Nil, pkt |-> Nil]
At(t, pc) == thr[t].pc = pc
Goto(t, pc, i) == thr' = [thr EXCEPT ![t].pc = pc, ![t].assoc = i]
Step(t, pc) == thr' = [thr EXCEPT ![t].pc = pc]
Enter(t, pc, c) == thr' = [thr EXCEPT ![t] = [pc |-> pc, conn |-> c, assoc |-> Nil, pkt |-> Nil]]
Leave(t) == thr' = [thr EXCEPT ![t] = Idle]

(* One conn or association that is not in use is as good as another.       *)
NextConn == CHOOSE c \in Conns : conn[c].state = "unused"
NextAssoc == CHOOSE i \in Assocs : recv[i] = "unmade"

Init == /\ TruncInit
        /\ mode \in {"proxy", "relay"}
        /\ base = "base"
        /\ conn = [c \in Conns |-> [addr |-> Nil, state |-> "unused", pending |-> 0]]
        /\ senders = [a \in Addrs |-> Nil]
        /\ sessions = [c \in Conns |-> Nil]
        /\ thr = [t \in Threads |-> Idle]
        /\ owner = [i \in Assocs |-> Nil]
        /\ resp = [i \in Assocs |-> "open"]
        /\ closer = [k \in Closers |-> [pc |-> "idle", assoc |-> Nil]]
        /\ budget = MaxPackets

-----------------------------------------------------------------------------
(* lwIP and the connecting goroutine.                                      *)

Live(c) == conn[c].state \in {"connecting", "connected"}
Become(c, state) == conn' = [conn EXCEPT ![c].state = state]
Shut(c) == Become(c, "closed")
Arrive(c, a) == conn' = [conn EXCEPT ![c] = [addr |-> a, state |-> "connecting", pending |-> 1]]
Hold(c, n) == conn' = [conn EXCEPT ![c].pending = n]

(* A packet of address a: a new conn, a queued packet, or a ReceiveTo call. *)
Deliver(a) ==
    /\ budget > 0
    /\ budget' = budget - 1
    /\ \/ \E c \in Conns :
            /\ conn[c].state = "unused" /\ c = NextConn
            /\ \A d \in Conns : Live(d) => conn[d].addr # a
            /\ Arrive(c, a)
            /\ Enter(c, "connect", c)
       \/ \E c \in Conns :
            /\ conn[c].addr = a /\ conn[c].state = "connecting"
            /\ Hold(c, conn[c].pending + 1)
            /\ UNCHANGED thr
       \/ \E c \in Conns :
            /\ conn[c].addr = a /\ conn[c].state = "connected"
            /\ At("input", "idle")
            /\ Enter("input", "lookup", c)
            /\ UNCHANGED conn
    /\ UNCHANGED <<truncVars, mode, base, senders, sessions, owner, resp, closer>>

(* Connect has returned nil: the conn is connected unless it was closed.   *)
Connected(c) == /\ At(c, "connected")
                /\ IF Live(c) THEN Become(c, "connected") ELSE UNCHANGED conn
                /\ Step(c, "drain")
                /\ UNCHANGED <<truncVars, mode, base, senders, sessions, owner, resp, closer,
                               budget>>

Drain(c) == /\ At(c, "drain")
            /\ IF conn[c].pending > 0 /\ Live(c)
               THEN /\ Hold(c, conn[c].pending - 1)
                    /\ Goto(c, "lookup", Nil)
               ELSE Leave(c) /\ UNCHANGED conn
            /\ UNCHANGED <<truncVars, mode, base, senders, sessions, owner, resp, closer, budget>>

(* A handler call is over: the connecting goroutine goes on with its queue. *)
Return(t) == IF t = "input" THEN Leave(t) ELSE Enter(t, "drain", t)

-----------------------------------------------------------------------------
(* The delegates: a relay may become nil, a proxy may not.                 *)

SetRelay(b) == /\ mode = "relay"
               /\ base' = b
               /\ UNCHANGED <<truncVars, mode, conn, senders, sessions, thr, owner, resp,
                              closer, budget>>

SetProxy(b) == /\ mode = "proxy"
               /\ base' = IF b = Nil THEN base ELSE b
               /\ UNCHANGED <<truncVars, mode, conn, senders, sessions, thr, owner, resp,
                              closer, budget>>

-----------------------------------------------------------------------------
(* udpRelayHandler.                                                        *)

(* Connect asks the delegate for an association; lwIP closes the conn when *)
(* it fails, as it does without a relay.                                   *)
RelayConnect(c) ==
    /\ mode = "relay" /\ At(c, "connect")
    /\ \/ \E i \in Assocs : /\ recv[i] = "unmade" /\ i = NextAssoc /\ base # Nil
                            /\ NewAssociation(i)
                            /\ owner' = [owner EXCEPT ![i] = c]
                            /\ Goto(c, "store", i)
                            /\ UNCHANGED conn
       \/ /\ Leave(c) /\ Shut(c)
          /\ UNCHANGED <<truncVars, owner>>
    /\ UNCHANGED <<mode, base, senders, sessions, resp, closer, budget>>

(* Variant: the receive loop is started first and the session stored later. *)
StoreSessionLate(c) ==
    LET i == thr[c].assoc
    IN  /\ At(c, "store")
        /\ IF recv[i] = "made"
           THEN /\ recv' = [recv EXCEPT ![i] = "waiting"]
                /\ UNCHANGED <<sessions, thr>>
           ELSE /\ sessions' = [sessions EXCEPT ![c] = i]
                /\ Goto(c, "connected", i)
                /\ UNCHANGED recv
        /\ UNCHANGED <<mu, closed, queue, mode, base, conn, senders, owner, resp, closer, budget>>

(* The session is in the table before its receive loop starts.             *)
StoreSession(c) ==
    LET i == thr[c].assoc
    IN  /\ At(c, "store")
        /\ sessions' = [sessions EXCEPT ![c] = i]
        /\ recv' = [recv EXCEPT ![i] = "waiting"]
        /\ Goto(c, "connected", i)
        /\ UNCHANGED <<mu, closed, queue, mode, base, conn, senders, owner, resp, closer, budget>>

(* ReceiveTo finds the session of the conn, or fails.                      *)
RelayLookup(t) ==
    /\ mode = "relay" /\ At(t, "lookup")
    /\ LET i == sessions[thr[t].conn]
       IN  IF i = Nil THEN Return(t) ELSE Goto(t, "send", i)
    /\ UNCHANGED <<truncVars, mode, base, conn, senders, sessions, owner, resp, closer, budget>>

(* runReceive after ReceivePackets: unlink, close the sender, close the    *)
(* conn, close done.                                                       *)
Unlink(i) ==
    /\ mode = "relay" /\ recv[i] = "ended"
    /\ sessions' = [sessions EXCEPT ![owner[i]] = Nil]
    /\ recv' = [recv EXCEPT ![i] = "unlinked"]
    /\ UNCHANGED <<mu, closed, queue, mode, base, conn, senders, thr, owner, resp, closer, budget>>

(* Variant: runReceive relies on the relay having closed its sender.       *)
CloseOwnSenderSkipped(i) ==
    /\ recv[i] = "unlinked" /\ mu[i] = Nil
    /\ recv' = [recv EXCEPT ![i] = "senderClosed"]
    /\ UNCHANGED <<closed, mu, queue, lwipVars>>

CloseOwnSender(i) ==
    /\ recv[i] = "unlinked" /\ mu[i] = Nil
    /\ closed' = [closed EXCEPT ![i] = "closed"]
    /\ recv' = [recv EXCEPT ![i] = "senderClosed"]
    /\ UNCHANGED <<mu, queue, lwipVars>>

CloseOwnConn(i) ==
    /\ recv[i] = "senderClosed"
    /\ Shut(owner[i])
    /\ recv' = [recv EXCEPT ![i] = "done"]
    /\ UNCHANGED <<mu, closed, queue, mode, base, senders, sessions, thr, owner, resp, closer,
                   budget>>

(* closeSession: look up, close the sender, wait for runReceive.           *)
CloserAt(k, pc, i) == closer' = [closer EXCEPT ![k] = [pc |-> pc, assoc |-> i]]

CallCloseSession(k, c) ==
    /\ mode = "relay" /\ closer[k].pc = "idle"
    /\ CloserAt(k, IF sessions[c] = Nil THEN "returned" ELSE "close", sessions[c])
    /\ UNCHANGED <<truncVars, mode, base, conn, senders, sessions, thr, owner, resp, budget>>

CloserClosesSender(k) ==
    /\ closer[k].pc = "close"
    /\ CloseAssoc(closer[k].assoc)
    /\ CloserAt(k, "wait", closer[k].assoc)
    /\ UNCHANGED <<mode, base, conn, senders, sessions, thr, owner, resp, budget>>

CloserReturns(k) ==
    /\ closer[k].pc = "wait" /\ recv[closer[k].assoc] = "done"
    /\ CloserAt(k, "returned", closer[k].assoc)
    /\ UNCHANGED <<truncVars, mode, base, conn, senders, sessions, thr, owner, resp, budget>>

-----------------------------------------------------------------------------
(* udpHandler.                                                             *)

(* Connect does nothing.                                                   *)
ProxyConnect(c) == /\ mode = "proxy" /\ At(c, "connect")
                   /\ Goto(c, "connected", Nil)
                   /\ UNCHANGED <<truncVars, mode, base, conn, senders, sessions, owner, resp,
                                  closer, budget>>

ProxyLookup(t) ==
    /\ mode = "proxy" /\ At(t, "lookup")
    /\ LET i == senders[conn[thr[t].conn].addr]
       IN  IF i = Nil THEN Goto(t, "new", Nil) ELSE Goto(t, "send", i)
    /\ UNCHANGED <<truncVars, mode, base, conn, senders, sessions, owner, resp, closer, budget>>

(* closeSession, in one critical section: close the conn, and the sender   *)
(* that the table has for its address, whichever session that is.          *)
CloseSession(c) ==
    LET s == senders[conn[c].addr]
    IN  /\ Shut(c)
        /\ s # Nil => mu[s] = Nil
        /\ closed' = IF s = Nil THEN closed ELSE [closed EXCEPT ![s] = "closed"]
        /\ senders' = [senders EXCEPT ![conn[c].addr] = Nil]

(* newSession, outside the lock: the adapter starts the receive loop; a    *)
(* failed call closes the response writer and with it the session.         *)
NewSession(t) ==
    /\ At(t, "new")
    /\ \/ \E i \in Assocs : /\ recv[i] = "unmade" /\ i = NextAssoc /\ base # Nil
                            /\ recv' = [recv EXCEPT ![i] = "waiting"]
                            /\ owner' = [owner EXCEPT ![i] = thr[t].conn]
                            /\ Goto(t, "register", i)
                            /\ UNCHANGED <<conn, closed, senders>>
       \/ /\ CloseSession(thr[t].conn)
          /\ Return(t)
          /\ UNCHANGED <<recv, owner>>
    /\ UNCHANGED <<mu, queue, mode, base, sessions, resp, closer, budget>>

Register(t) ==
    /\ At(t, "register")
    /\ senders' = [senders EXCEPT ![conn[thr[t].conn].addr] = thr[t].assoc]
    /\ Goto(t, "send", thr[t].assoc)
    /\ UNCHANGED <<truncVars, mode, base, conn, sessions, owner, resp, closer, budget>>

(* Variant: closeSession only forgets the session and leaves the conn.     *)
CloseResponseWriterKeepsConn(i) ==
    /\ mode = "proxy" /\ recv[i] = "ended" /\ resp[i] = "open"
    /\ senders' = [senders EXCEPT ![conn[owner[i]].addr] = Nil]
    /\ resp' = [resp EXCEPT ![i] = "closed"]
    /\ recv' = [recv EXCEPT ![i] = "done"]
    /\ UNCHANGED <<mu, queue, closed, conn, mode, base, sessions, thr, owner, closer, budget>>

(* After ReceivePackets the adapter closes the response writer: once.      *)
CloseResponseWriter(i) ==
    /\ mode = "proxy" /\ recv[i] = "ended" /\ resp[i] = "open"
    /\ CloseSession(owner[i])
    /\ resp' = [resp EXCEPT ![i] = "closed"]
    /\ recv' = [recv EXCEPT ![i] = "done"]
    /\ UNCHANGED <<mu, queue, mode, base, sessions, thr, owner, closer, budget>>

-----------------------------------------------------------------------------
(* Both handlers.                                                          *)

(* ReceiveTo ends with SendPacket of the session's sender.                 *)
Carry(t, p) == thr' = [thr EXCEPT ![t] = [@ EXCEPT !.pc = "push", !.pkt = p]]

ToSend(t) == /\ At(t, "send")
             /\ SendLock(thr[t].assoc, t)
             /\ \E p \in Packets : Carry(t, p)
             /\ UNCHANGED <<mode, base, conn, senders, sessions, owner, resp, closer, budget>>

FinishSend(t) == /\ At(t, "push")
                 /\ SendPacket(thr[t].assoc, t, thr[t].pkt)
                 /\ Return(t)
                 /\ UNCHANGED <<mode, base, conn, senders, sessions, owner, resp, closer, budget>>

(* HandlePacket and WriteFrom write to the lwIP conn, which may fail, and  *)
(* does when it is closed.                                                 *)
WriteToConn(i) == /\ \/ Handled(i, "failed")
                     \/ Handled(i, "ok") /\ Live(owner[i]) /\ resp[i] = "open"
                  /\ UNCHANGED lwipVars

Receive(i) == (TakeAnswer(i) \/ RangeEnds(i)) /\ UNCHANGED lwipVars

Handler(t) == RelayLookup(t) \/ ProxyLookup(t) \/ NewSession(t) \/ Register(t) \/ ToSend(t)
              \/ FinishSend(t)
Connecting(c) == RelayConnect(c) \/ StoreSession(c) \/ ProxyConnect(c) \/ Connected(c) \/ Drain(c)
Loop(i) == Receive(i) \/ WriteToConn(i) \/ Unlink(i) \/ CloseOwnSender(i) \/ CloseOwnConn(i)
           \/ CloseResponseWriter(i)
Closing(k) == CloserClosesSender(k) \/ CloserReturns(k)

Next == \/ \E a \in Addrs : Deliver(a)
        \/ \E b \in {"base", Nil} : SetRelay(b) \/ SetProxy(b)
        \/ \E t \in Threads : Handler(t)
        \/ \E c \in Conns : Connecting(c)
        \/ \E i \in Assocs : Loop(i)
        \/ \E k \in Closers, c \in Conns : CallCloseSession(k, c)
        \/ \E k \in Closers : Closing(k)

Fairness == /\ \A t \in Threads : WF_vars(Handler(t))
            /\ \A c \in Conns : WF_vars(Connecting(c))
            /\ \A i \in Assocs : WF_vars(Loop(i))
            /\ \A k \in Closers : WF_vars(Closing(k))

Spec == Init /\ [][Next]_vars /\ Fairness

-----------------------------------------------------------------------------
(* An association of the relay handler that is open has a receive loop     *)
(* that can end it, or is on its way into the table; once the loop is over *)
(* nothing of the session is left: not the association, not the conn, not  *)
(* the table entry.  A closeSession that found it returns only then.       *)
RelaySessionsOwned ==
    mode = "relay" =>
        /\ \A i \in Assocs :
             /\ recv[i] = "made" => \E c \in Conns : At(c, "store") /\ thr[c].assoc = i
             /\ recv[i] \in {"waiting", "handling"} => sessions[owner[i]] = i
             /\ recv[i] = "done" => /\ closed[i] = "closed"
                                    /\ conn[owner[i]].state = "closed"
                                    /\ \A c \in Conns : sessions[c] # i
        /\ \A k \in Closers : closer[k].pc = "returned" /\ closer[k].assoc # Nil
                                => recv[closer[k].assoc] = "done"

(* With either handler, a receive loop that has ended closes the lwIP conn *)
(* of its session, so that lwIP can start a new one.                       *)
EndedLoopClosesConn == \A i \in Assocs :
    recv[i] = "ended" ~> (recv[i] = "done" /\ conn[owner[i]].state = "closed")

(* No handler call and no closeSession hangs: a full answer queue must not *)
(* keep SendPacket waiting under the mutex that Close needs.               *)
CallsReturn == /\ \A t \in Threads : At(t, "send") ~> ~ At(t, "send") /\ ~ At(t, "push")
               /\ \A k \in Closers : closer[k].pc = "close" ~> closer[k].pc = "returned"

(* "Close informs the udpHandler to close the UDPConn and clean up the UDP *)
(* session": when the response writer has been closed, the association is  *)
(* closed and not in the table.  A sender that is registered after that,   *)
(* or was replaced by another session of its address, stays behind.        *)
ClosedWriterCleansUp == \A i \in Assocs :
    resp[i] = "closed" => closed[i] = "closed" \/ \E t \in Threads : thr[t].assoc = i
=============================================================================
