--------------------------- MODULE PsiphonDialer ----------------------------
(***************************************************************************)
(* x/psiphon.Dialer, the process-wide dialer.  Each Start call runs a      *)
(* goroutine that holds d.mu except while it stops the previous Start,     *)
(* while startTunnel runs and while the tunnel is up; what it does between *)
(* two unlocks is one action.  The closure d.stop is named after the Start *)
(* that made it: calling it cancels the dialerCtx of that Start and waits  *)
(* for its tunnelDone.                                                     *)
(***************************************************************************)
CONSTANTS Starts,   \* Start calls
          Stops,    \* Stop calls
          Dials,    \* goroutines that call DialStream
          None

ASSUME NoneAssumption == None \notin Starts

VARIABLES stop,     \* d.stop
          tunnel,   \* d.tunnel, named after the Start that set it
          pc,       \* the goroutine of each Start
          prev,     \* the Start whose stop() a Start calls
          dialerCtx,      \* dialerCtx: live or cancelled
          startCtx, \* startCtx: live, or cancelled early (before Start
                    \* returned) or late
          link,     \* the AfterFunc that ties startCtx to dialerCtx:
                    \* none, attached, fired, off
          halt,     \* each Stop call
          target,   \* the Start whose stop() a Stop calls
          dial      \* the tunnel a DialStream call uses, None between calls

psiphonVars == <<stop, tunnel, pc, prev, dialerCtx, startCtx, link, halt, target, dial>>
stopVars == <<halt, target>>

PsiphonTypeOK == /\ stop \in Starts \cup {None}
                 /\ tunnel \in Starts \cup {None}
                 /\ pc \in [Starts -> {"idle", "cancelPrev", "awaitPrev", "starting", "running",
                                       "done"}]
                 /\ prev \in [Starts -> Starts \cup {None}]
                 /\ dialerCtx \in [Starts -> {"live", "cancelled"}]
                 /\ startCtx \in [Starts -> {"live", "early", "late"}]
                 /\ link \in [Starts -> {"none", "attached", "fired", "off"}]
                 /\ halt \in [Stops -> {"idle", "cancel", "await", "stopped", "errNotStarted"}]
                 /\ target \in [Stops -> Starts \cup {None}]
                 /\ dial \in [Dials -> Starts \cup {None}]

PsiphonInit == /\ stop = None
               /\ tunnel = None
               /\ pc = [s \in Starts |-> "idle"]
               /\ prev = [s \in Starts |-> None]
               /\ dialerCtx = [s \in Starts |-> "live"]
               /\ startCtx = [s \in Starts |-> "live"]
               /\ link = [s \in Starts |-> "none"]
               /\ halt = [k \in Stops |-> "idle"]
               /\ target = [k \in Stops |-> None]
               /\ dial = [x \in Dials |-> None]

-----------------------------------------------------------------------------
(* Start                                                                   *)

Goto(s, at) == pc' = [pc EXCEPT ![s] = at]

(* From the creation of dialerCtx to the unlock before startTunnel.  A     *)
(* startCtx that is already cancelled starts the AfterFunc at once.        *)
SetUp(s) == /\ Goto(s, "starting")
            /\ stop' = s
            /\ link' = [link EXCEPT ![s] = IF startCtx[s] = "live" THEN "attached"
                                           ELSE "fired"]

(* The goroutine gets the lock; it takes d.stop of a Start before it.      *)
Start(s) == /\ pc[s] = "idle"
            /\ \/ stop = None /\ SetUp(s) /\ UNCHANGED prev
               \/ /\ stop # None
                  /\ prev' = [prev EXCEPT ![s] = stop]
                  /\ stop' = None
                  /\ Goto(s, "cancelPrev")
                  /\ UNCHANGED link
            /\ UNCHANGED <<tunnel, dialerCtx, startCtx>>
            /\ UNCHANGED stopVars
            /\ UNCHANGED dial

(* Variant of the closure that only waits.                                 *)
CancelPrevForgotten(s) == /\ pc[s] = "cancelPrev"
                          /\ Goto(s, "awaitPrev")
                          /\ UNCHANGED <<stop, tunnel, prev, dialerCtx, startCtx, link>>
                          /\ UNCHANGED stopVars
                          /\ UNCHANGED dial

(* stop(), without the lock: dialerCancel() of the Start before, ...       *)
CancelPrev(s) == /\ pc[s] = "cancelPrev"
                 /\ dialerCtx' = [dialerCtx EXCEPT ![prev[s]] = "cancelled"]
                 /\ Goto(s, "awaitPrev")
                 /\ UNCHANGED <<stop, tunnel, prev, startCtx, link>>
                 /\ UNCHANGED stopVars
                 /\ UNCHANGED dial

(* ... then <-tunnelDone and the lock again.                               *)
AwaitPrev(s) == /\ pc[s] = "awaitPrev"
                /\ pc[prev[s]] = "done"
                /\ SetUp(s)
                /\ UNCHANGED <<tunnel, prev, dialerCtx, startCtx>>
                /\ UNCHANGED stopVars
                /\ UNCHANGED dial

(* Variant of StartTunnelReturns without detatchContexts().                *)
StartTunnelReturnsAttached(s) ==
    /\ pc[s] = "starting"
    /\ \/ Goto(s, "done") /\ stop' = None /\ dialerCtx' = [dialerCtx EXCEPT ![s] = "cancelled"]
          /\ UNCHANGED tunnel
       \/ dialerCtx[s] = "live" /\ Goto(s, "running") /\ tunnel' = s /\ UNCHANGED <<stop, dialerCtx>>
    /\ UNCHANGED <<prev, startCtx, link>>
    /\ UNCHANGED stopVars
    /\ UNCHANGED dial

(* startTunnel returns and the goroutine has the lock again: it detaches   *)
(* the contexts (an AfterFunc that has fired runs all the same); an error, *)
(* or a cancelled dialerCtx, ends the Start and its deferred calls reset   *)
(* d.stop; otherwise the tunnel is published and Start returns nil.        *)
StartTunnelReturns(s) ==
    /\ pc[s] = "starting"
    /\ link' = [link EXCEPT ![s] = IF @ = "attached" THEN "off" ELSE @]
    /\ \/ Goto(s, "done") /\ stop' = None /\ dialerCtx' = [dialerCtx EXCEPT ![s] = "cancelled"]
          /\ UNCHANGED tunnel
       \/ dialerCtx[s] = "live" /\ Goto(s, "running") /\ tunnel' = s /\ UNCHANGED <<stop, dialerCtx>>
    /\ UNCHANGED <<prev, startCtx>>
    /\ UNCHANGED stopVars
    /\ UNCHANGED dial

(* Variant of the deferred calls that forgets d.tunnel.                    *)
TunnelEndsPublished(s) == /\ pc[s] = "running"
                          /\ dialerCtx[s] = "cancelled"
                          /\ Goto(s, "done")
                          /\ stop' = None
                          /\ UNCHANGED <<tunnel, prev, dialerCtx, startCtx, link>>
                          /\ UNCHANGED stopVars
                          /\ UNCHANGED dial

(* <-dialerCtx.Done(), the lock, and the deferred calls: d.tunnel and      *)
(* d.stop are reset, whoever set them, the tunnel is stopped and           *)
(* tunnelDone is closed.                                                   *)
TunnelEnds(s) == /\ pc[s] = "running"
                 /\ dialerCtx[s] = "cancelled"
                 /\ Goto(s, "done")
                 /\ tunnel' = None
                 /\ stop' = None
                 /\ UNCHANGED <<prev, dialerCtx, startCtx, link>>
                 /\ UNCHANGED stopVars
                 /\ UNCHANGED dial

(* The caller of Start cancels its context; if it is tied to dialerCtx the *)
(* AfterFunc goroutine starts ...  (Once the goroutine of Start has ended  *)
(* a cancellation changes nothing.)                                        *)
CancelStartCtx(s) ==
    /\ startCtx[s] = "live"
    /\ pc[s] # "done"
    /\ startCtx' = [startCtx EXCEPT ![s] = IF pc[s] = "running" THEN "late" ELSE "early"]
    /\ link' = [link EXCEPT ![s] = IF @ = "attached" THEN "fired" ELSE @]
    /\ UNCHANGED <<stop, tunnel, pc, prev, dialerCtx>>
    /\ UNCHANGED stopVars
    /\ UNCHANGED dial

(* ... and runs.                                                           *)
RunAfterFunc(s) == /\ link[s] = "fired"
                   /\ link' = [link EXCEPT ![s] = "off"]
                   /\ dialerCtx' = [dialerCtx EXCEPT ![s] = "cancelled"]
                   /\ UNCHANGED <<stop, tunnel, pc, prev, startCtx>>
                   /\ UNCHANGED stopVars
                   /\ UNCHANGED dial

-----------------------------------------------------------------------------
(* Stop                                                                    *)

Up == {s \in Starts : pc[s] = "running"}

Stop(k) == /\ halt[k] = "idle"
           /\ target' = [target EXCEPT ![k] = stop]
           /\ halt' = [halt EXCEPT ![k] = IF stop = None THEN "errNotStarted" ELSE "cancel"]
           /\ UNCHANGED <<stop, tunnel, pc, prev, dialerCtx, startCtx, link>>
           /\ UNCHANGED dial

StopCancels(k) == /\ halt[k] = "cancel"
                  /\ dialerCtx' = [dialerCtx EXCEPT ![target[k]] = "cancelled"]
                  /\ halt' = [halt EXCEPT ![k] = "await"]
                  /\ UNCHANGED <<stop, tunnel, pc, prev, startCtx, link, target>>
                  /\ UNCHANGED dial

StopReturns(k) == /\ halt[k] = "await"
                  /\ pc[target[k]] = "done"
                  /\ halt' = [halt EXCEPT ![k] = "stopped"]
                  /\ UNCHANGED <<stop, tunnel, pc, prev, dialerCtx, startCtx, link, target>>
                  /\ UNCHANGED dial

-----------------------------------------------------------------------------
(* DialStream reads d.tunnel under the lock (and fails if there is none),  *)
(* then dials without it, perhaps through a tunnel that is down by now.    *)
DialStream(x) == /\ dial[x] = None
                 /\ tunnel # None
                 /\ dial' = [dial EXCEPT ![x] = tunnel]
                 /\ UNCHANGED <<stop, tunnel, pc, prev, dialerCtx, startCtx, link>>
                 /\ UNCHANGED stopVars

TunnelDial(x) == /\ dial[x] # None
                 /\ dial' = [dial EXCEPT ![x] = None]
                 /\ UNCHANGED <<stop, tunnel, pc, prev, dialerCtx, startCtx, link>>
                 /\ UNCHANGED stopVars

-----------------------------------------------------------------------------
StartStep(s) == \/ CancelPrev(s)
                \/ AwaitPrev(s)
                \/ TunnelEnds(s)
                \/ RunAfterFunc(s)

StopStep(k) == StopCancels(k) \/ StopReturns(k)

PsiphonNext == \/ \E s \in Starts : \/ Start(s)
                                    \/ StartStep(s)
                                    \/ StartTunnelReturns(s)
                                    \/ CancelStartCtx(s)
               \/ \E k \in Stops : Stop(k) \/ StopStep(k)
               \/ \E x \in Dials : DialStream(x) \/ TunnelDial(x)

PsiphonSpec == PsiphonInit /\ [][PsiphonNext]_psiphonVars

(* Goroutines that can go on do, and startTunnel returns once its context  *)
(* is cancelled.  It need not return otherwise, and nobody is obliged to   *)
(* stop a tunnel.                                                          *)
PsiphonFairness == /\ \A s \in Starts : /\ WF_psiphonVars(StartStep(s))
                                        /\ WF_psiphonVars(dialerCtx[s] = "cancelled" /\ StartTunnelReturns(s))
                   /\ \A k \in Stops : WF_psiphonVars(StopStep(k))

PsiphonFairSpec == PsiphonSpec /\ PsiphonFairness

-----------------------------------------------------------------------------
(* What d.tunnel and d.stop refer to is alive, however Starts and Stops    *)
(* overlap: DialStream is never handed a tunnel that has been stopped, and *)
(* nobody waits for the tunnelDone of a Start that has ended.              *)
HandlesAlive == /\ tunnel # None => tunnel \in Up
                /\ stop # None => pc[stop] \in {"starting", "running"}

(* startCtx is for the startup only: a tunnel that is up is told to end    *)
(* only by a Stop, by another Start, or by a startCtx that was cancelled   *)
(* before Start returned, never by one cancelled afterwards.               *)
TunnelEndsOnRequest ==
    \A s \in Up : dialerCtx[s] = "cancelled" => \/ \E t \in Starts : prev[t] = s
                                                \/ \E k \in Stops : target[k] = s
                                                \/ startCtx[s] = "early"

(* What the Dialer holds is alive, and what is alive ends only on request. *)
TunnelsInHand == HandlesAlive /\ TunnelEndsOnRequest

(* Nobody waits for ever: a Start that waits for the one before it gets to *)
(* start its own tunnel, and a Stop returns, although each Start only ends *)
(* when it is told to.                                                     *)
CallsReturn == /\ \A s \in Starts : pc[s] = "cancelPrev" ~> pc[s] \in {"starting", "running", "done"}
               /\ \A k \in Stops : halt[k] = "cancel" ~> halt[k] = "stopped"

(* "Stop stops the Dialer background processes [...]  It returns when the  *)
(* Dialer is completely stopped."  A Stop that is called when every Start  *)
(* has returned, and returns nil, leaves no tunnel up.  The deferred       *)
(* d.stop = nil of a Start that ends erases the stop of a Start that       *)
(* overlaps it, and then this is false: a tunnel stays up for ever.        *)
StopIsComplete ==
    LET returned == \A s \in Starts : pc[s] \in {"running", "done"}
    IN  \A k \in Stops :
          [](returned /\ halt[k] = "idle" => [](halt[k] = "stopped" => <>(Up = {})))
=============================================================================
