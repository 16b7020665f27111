---------------------------- MODULE TimeoutRelay ----------------------------
(***************************************************************************)
(* packetrelay.TimeoutPacketRelay: the decorator that closes an association*)
(* on which nothing has been sent for Timeout.  One association is         *)
(* modelled: any number of goroutines inside SendPacket and Close, the     *)
(* time.AfterFunc callback checkTimeout, and the inner association the     *)
(* decorator forwards to (its contract: module RelayAssoc).                *)
(*                                                                         *)
(* A section under s.mu is one action; what the code does after            *)
(* s.mu.Unlock() (the inner calls) is an action of its own.  Time is       *)
(* relative: `elapsed' is time.Since(s.lastActivity), saturated at Timeout *)
(* because the code only compares it with s.timeout, and `timer' is the    *)
(* time left until the runtime starts the callback.                        *)
(***************************************************************************)
EXTENDS Integers, FiniteSets

CONSTANTS Calls,    \* SendPacket calls
          Closers,  \* Close calls made by the owner of the association
          Timeout   \* s.timeout

ASSUME TimeoutAssumption == Timeout \in Nat \ {0}

VARIABLES closed,    \* s.closed
          elapsed,   \* time.Since(s.lastActivity), saturated
          timer,     \* time left on s.timer, Stopped when it is not armed
          cb,        \* the checkTimeout goroutine: none, fired, closing
          scall,     \* state of each SendPacket call
          ccall,     \* state of each Close call
          closes,    \* number of inner.Close() calls made
          recv       \* the ReceivePackets call on the inner receiver

vars == <<closed, elapsed, timer, cb, scall, ccall, closes, recv>>

Stopped == -1

SendStates  == {"idle", "passed", "sent", "failed", "errClosed"}
CloseStates == {"idle", "closing", "done", "errClosed"}

TypeOK == /\ closed \in BOOLEAN
          /\ elapsed \in 0..Timeout
          /\ timer \in Stopped..Timeout
          /\ cb \in {"none", "fired", "closing"}
          /\ scall \in [Calls -> SendStates]
          /\ ccall \in [Closers -> CloseStates]
          /\ closes \in Nat
          /\ recv \in {"idle", "active", "returned"}

-----------------------------------------------------------------------------
(* TimeoutPacketRelay.NewAssociation, successful case: the timer is armed  *)
(* with the whole timeout and lastActivity is now.                         *)
Init == /\ closed = FALSE
        /\ elapsed = 0
        /\ timer = Timeout
        /\ cb = "none"
        /\ scall = [c \in Calls |-> "idle"]
        /\ ccall = [k \in Closers |-> "idle"]
        /\ closes = 0
        /\ recv = "idle"

(* The clock.  The runtime may be late: time also passes while an expired  *)
(* timer's goroutine has not been started or scheduled yet.                *)
Tick == /\ elapsed < Timeout \/ timer > 0
        /\ elapsed' = IF elapsed < Timeout THEN elapsed + 1 ELSE elapsed
        /\ timer' = IF timer > 0 THEN timer - 1 ELSE timer
        /\ UNCHANGED <<closed, cb, scall, ccall, closes, recv>>

(* The runtime starts the callback goroutine of an expired timer.          *)
Fire == /\ timer = 0
        /\ cb = "none"
        /\ timer' = Stopped
        /\ cb' = "fired"
        /\ UNCHANGED <<closed, elapsed, scall, ccall, closes, recv>>

(* Variant of SendPacket that forgets to test s.closed.                    *)
SendPacketUnguarded(c) ==
    /\ scall[c] = "idle"
    /\ scall' = [scall EXCEPT ![c] = "passed"]
    /\ elapsed' = 0
    /\ UNCHANGED <<closed, timer, cb, ccall, closes, recv>>

(* SendPacket up to s.mu.Unlock().                                         *)
SendPacket(c) ==
    /\ scall[c] = "idle"
    /\ \/ /\ closed
          /\ scall' = [scall EXCEPT ![c] = "errClosed"]
          /\ UNCHANGED elapsed
       \/ /\ ~closed
          /\ scall' = [scall EXCEPT ![c] = "passed"]
          /\ elapsed' = 0
    /\ UNCHANGED <<closed, timer, cb, ccall, closes, recv>>

(* inner.SendPacket, outside the lock.  It may fail for reasons of its     *)
(* own, and always fails when the inner association has been closed in     *)
(* between.                                                                *)
InnerSend(c) ==
    /\ scall[c] = "passed"
    /\ \E r \in {"sent", "failed"} :
          /\ r = "sent" => closes = 0
          /\ scall' = [scall EXCEPT ![c] = r]
    /\ UNCHANGED <<closed, elapsed, timer, cb, ccall, closes, recv>>

(* Variants of checkTimeout: its last part re-arms the timer for the given *)
(* time (Stopped: forgets to), or its closing part leaves s.closed to be   *)
(* set after the unlock, the window its comment warns of.                  *)
CheckTimeoutWith(rearm, closedThen) ==
    /\ cb = "fired"
    /\ \/ /\ closed
          /\ cb' = "none"
          /\ UNCHANGED <<closed, timer>>
       \/ /\ ~closed
          /\ elapsed >= Timeout
          /\ closed' = closedThen
          /\ timer' = Stopped
          /\ cb' = "closing"
       \/ /\ ~closed
          /\ elapsed < Timeout
          /\ timer' = rearm
          /\ cb' = "none"
          /\ UNCHANGED closed
    /\ UNCHANGED <<elapsed, scall, ccall, closes, recv>>

CheckTimeoutRearmsWhole  == CheckTimeoutWith(Timeout, TRUE)
CheckTimeoutForgetsTimer == CheckTimeoutWith(Stopped, TRUE)
CheckTimeoutClosesLater  == CheckTimeoutWith(Timeout - elapsed, FALSE)

(* checkTimeout: returns if closed, closes if idle for the whole timeout,  *)
(* re-arms the timer for the remaining time otherwise.                     *)
CheckTimeout == CheckTimeoutWith(Timeout - elapsed, TRUE)

(* inner.Close() of checkTimeout, after the unlock.                        *)
CallbackClosesInner ==
    /\ cb = "closing"
    /\ cb' = "none"
    /\ closes' = closes + 1
    /\ UNCHANGED <<closed, elapsed, timer, scall, ccall, recv>>

(* Variant of Close that forgets to test s.closed.                         *)
CloseUnguarded(k) ==
    /\ ccall[k] = "idle"
    /\ closed' = TRUE
    /\ timer' = Stopped
    /\ ccall' = [ccall EXCEPT ![k] = "closing"]
    /\ UNCHANGED <<elapsed, cb, scall, closes, recv>>

(* Close up to s.mu.Unlock().                                              *)
Close(k) ==
    /\ ccall[k] = "idle"
    /\ \/ /\ closed
          /\ ccall' = [ccall EXCEPT ![k] = "errClosed"]
          /\ UNCHANGED <<closed, timer>>
       \/ /\ ~closed
          /\ closed' = TRUE
          /\ timer' = Stopped
          /\ ccall' = [ccall EXCEPT ![k] = "closing"]
    /\ UNCHANGED <<elapsed, cb, scall, closes, recv>>

(* inner.Close() of Close, after the unlock.                               *)
CloserClosesInner(k) ==
    /\ ccall[k] = "closing"
    /\ ccall' = [ccall EXCEPT ![k] = "done"]
    /\ closes' = closes + 1
    /\ UNCHANGED <<closed, elapsed, timer, cb, scall, recv>>

(* The caller runs ReceivePackets on the inner receiver, which the         *)
(* decorator hands out unchanged; it ends once the inner association is    *)
(* closed, or earlier with an error.                                       *)
StartReceive == /\ recv = "idle"
                /\ recv' = "active"
                /\ UNCHANGED <<closed, elapsed, timer, cb, scall, ccall, closes>>

ReceiveEnds == /\ recv = "active"
               /\ closes > 0
               /\ recv' = "returned"
               /\ UNCHANGED <<closed, elapsed, timer, cb, scall, ccall, closes>>

ReceiveFails == /\ recv = "active"
                /\ closes = 0
                /\ recv' = "returned"
                /\ UNCHANGED <<closed, elapsed, timer, cb, scall, ccall, closes>>

Next == \/ Tick
        \/ Fire
        \/ CheckTimeout
        \/ CallbackClosesInner
        \/ \E c \in Calls : SendPacket(c) \/ InnerSend(c)
        \/ \E k \in Closers : Close(k) \/ CloserClosesInner(k)
        \/ StartReceive
        \/ ReceiveEnds
        \/ ReceiveFails

Spec == Init /\ [][Next]_vars

(* Time passes, the runtime runs expired timers and started goroutines, a  *)
(* goroutine inside the relay goes on, and the inner association keeps the *)
(* contract.  Nobody is obliged to send, to close or to receive.           *)
Fairness == /\ WF_vars(Tick)
            /\ WF_vars(Fire)
            /\ WF_vars(CheckTimeout)
            /\ WF_vars(CallbackClosesInner)
            /\ \A k \in Closers : WF_vars(CloserClosesInner(k))
            /\ WF_vars(ReceiveEnds)

FairSpec == Spec /\ Fairness

-----------------------------------------------------------------------------
(* While the association is open its idle timer is never lost: either the  *)
(* callback is on its way to the lock, or the timer is armed and goes off  *)
(* no later than Timeout after the last SendPacket, whatever the order of  *)
(* sends, late callbacks and re-arms.                                      *)
TimerCoversIdle ==
    ~closed => \/ cb = "fired"
               \/ timer >= 0 /\ timer + elapsed <= Timeout

(* The goroutines that still owe the inner Close.                          *)
Owing == {k \in Closers : ccall[k] = "closing"}

(* inner.Close() is called exactly once for a closed association and never *)
(* for an open one, however Close calls and the idle callback race: either *)
(* it has been called or exactly one goroutine is about to call it.        *)
InnerClosedOnce ==
    LET owed == Cardinality(Owing) + (IF cb = "closing" THEN 1 ELSE 0)
    IN  closes + owed = IF closed THEN 1 ELSE 0

(* checkTimeout's two-phase close: from the moment the idle callback       *)
(* decides to close until it has closed the inner association, no          *)
(* SendPacket gets in, so an idle close never follows a fresh send.        *)
NoSendBeforeIdleClose == cb = "closing" => elapsed = Timeout

(* The three together are what the timer, the callback and Close owe each  *)
(* other in every interleaving of the two-phase close.                     *)
TimeoutSafety == TimerCoversIdle /\ InnerClosedOnce /\ NoSendBeforeIdleClose

(* An association nobody closes is closed by the idle timer once the       *)
(* callers stop sending, although each earlier send pushed the timer back. *)
IdleAssociationCloses == <>(closes > 0)

-----------------------------------------------------------------------------
(* The decorated association keeps the contract of an association.  A send *)
(* is taken at the moment it passes the gate.                              *)
Assoc == INSTANCE RelayAssoc
         WITH status   <- IF closed THEN "closed" ELSE "open",
              accepted <- {c \in Calls : scall[c] \in {"passed", "sent", "failed"}},
              recv     <- recv

AssocContract == Assoc!Contract
=============================================================================
