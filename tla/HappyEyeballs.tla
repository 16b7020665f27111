---------------------------- MODULE HappyEyeballs ----------------------------
(***************************************************************************)
(* transport/happyeyeballs.go: one HappyEyeballsStreamDialer.DialStream of *)
(* a host name, with the parallel resolver of                              *)
(* NewParallelHappyEyeballsResolveFunc.                                    *)
(*                                                                         *)
(* The call is one goroutine whose every step is one turn of its select    *)
(* loop; the lookups and the connection attempts are goroutines of their   *)
(* own.  An address is known by its family only: ip4s and ip6s are the     *)
(* lengths of the two lists.  The lookup functions and the base dialer are *)
(* external: they return when they like and with what they like.           *)
(***************************************************************************)
EXTENDS Integers, Sequences, FiniteSets

CONSTANTS Lookups,       \* the functions given to the parallel resolver
          Answers,       \* what each lookup may return: [err, v4, v6]
          MaxAttempts    \* bound: connection attempts of the call

Attempts == 1..MaxAttempts

Outcome == {"nil", "error"}

(* HappyEyeballsResolution: an error, or how many addresses of each family. *)
Resolution == [err : Outcome, v4 : Nat, v6 : Nat]

ASSUME LookupsAssumption == IsFiniteSet(Lookups)
ASSUME AnswersAssumption ==
    Answers \in [Lookups -> SUBSET Resolution]
ASSUME MaxAttemptsAssumption == MaxAttempts \in Nat

VARIABLES lookup,        \* a lookup goroutine: running, sent, ended
          pending,       \* the resolver's counter
          resultsCh,     \* the resolver's channel, in order
          closeOfCh,     \* how often close(resultsCh) was called
          resolutionCh,  \* "open", nil once the loop saw it closed
          ip4s, ip6s,    \* addresses to dial
          lastDialed,    \* family of the last address dialled: none, ip4, ip6
          opsPending,
          lookupErr, dialErr,  \* "nil" or "error"
          resolutionDelay,  \* 50 ms from the first IPv4: "running", "passed"
          attemptDelay,     \* attemptDelayCh: "running", "passed"
          started,       \* connection attempts made so far
          attempt,       \* an attempt: none, dialing, dialed, handed, ended
          conn,          \* its connection: none, open, closed
          ctx,           \* the context of the call: "live", "done"
          result         \* "none" until DialStream returns

lookupVars  == <<lookup, pending, resultsCh, closeOfCh>>
listVars    == <<resolutionCh, ip4s, ip6s, lastDialed, opsPending, lookupErr, dialErr>>
delayVars   == <<resolutionDelay, attemptDelay>>
attemptVars == <<started, attempt, conn>>
vars == <<lookup, pending, resultsCh, closeOfCh, resolutionCh, ip4s, ip6s, lastDialed,
          opsPending, lookupErr, dialErr, resolutionDelay, attemptDelay, started,
          attempt, conn, ctx, result>>

TypeOK == /\ lookup \in [Lookups -> {"running", "sent", "ended"}]
          /\ pending \in Int
          /\ resultsCh \in Seq(Resolution)
          /\ closeOfCh \in Nat
          /\ resolutionCh \in {"open", "nil"}
          /\ ip4s \in Nat /\ ip6s \in Nat
          /\ lastDialed \in {"none", "ip4", "ip6"}
          /\ opsPending \in Int
          /\ lookupErr \in Outcome /\ dialErr \in Outcome
          /\ resolutionDelay \in {"running", "passed"}
          /\ attemptDelay \in {"running", "passed"}
          /\ started \in 0..MaxAttempts
          /\ attempt \in [Attempts -> {"none", "dialing", "dialed", "handed", "ended"}]
          /\ conn \in [Attempts -> {"none", "open", "closed"}]
          /\ ctx \in {"live", "done"}
          /\ result \in {"none", "conn", "dialErr", "lookupErr", "noIPs", "canceled"}

(* DialStream has parsed the address, found a host name and called         *)
(* d.Resolve, which has started the lookups, or closed the channel if there *)
(* are none.                                                               *)
Init == /\ lookup = [l \in Lookups |-> "running"]
        /\ pending = Cardinality(Lookups)
        /\ resultsCh = <<>>
        /\ closeOfCh = IF Lookups = {} THEN 1 ELSE 0
        /\ resolutionCh = "open"
        /\ ip4s = 0 /\ ip6s = 0
        /\ lastDialed = "none"
        /\ opsPending = 1
        /\ lookupErr = "nil" /\ dialErr = "nil"
        /\ resolutionDelay = "running" /\ attemptDelay = "passed"
        /\ started = 0
        /\ attempt = [i \in Attempts |-> "none"]
        /\ conn = [i \in Attempts |-> "none"]
        /\ ctx = "live"
        /\ result = "none"

-----------------------------------------------------------------------------
(* The parallel resolver.                                                  *)

OutsideResolver == /\ UNCHANGED listVars
                   /\ UNCHANGED delayVars
                   /\ UNCHANGED attemptVars
                   /\ UNCHANGED <<ctx, result>>

(* resolve returns; its result goes into the buffered channel.             *)
LookupReturns(l) ==
    /\ lookup[l] = "running"
    /\ lookup' = [lookup EXCEPT ![l] = "sent"]
    /\ \E a \in Answers[l] : resultsCh' = Append(resultsCh, a)
    /\ UNCHANGED <<pending, closeOfCh>>
    /\ OutsideResolver

(* Variant that closes the channel one lookup too early.                   *)
LookupEndsEarly(l) ==
    /\ lookup[l] = "sent"
    /\ lookup' = [lookup EXCEPT ![l] = "ended"]
    /\ pending' = pending - 1
    /\ closeOfCh' = IF pending' <= 1 THEN closeOfCh + 1 ELSE closeOfCh
    /\ UNCHANGED resultsCh
    /\ OutsideResolver

(* if pending.Add(-1) == 0 { close(resultsCh) }                            *)
LookupEnds(l) ==
    /\ lookup[l] = "sent"
    /\ lookup' = [lookup EXCEPT ![l] = "ended"]
    /\ pending' = pending - 1
    /\ closeOfCh' = IF pending' = 0 THEN closeOfCh + 1 ELSE closeOfCh
    /\ UNCHANGED resultsCh
    /\ OutsideResolver

-----------------------------------------------------------------------------
(* The select loop of DialStream.                                          *)

(* DialStream returns and its deferred dialDone cancels the context.       *)
Return(r) == result' = r /\ ctx' = "done"

(* Variant that prefers the lookup errors.                                 *)
ExhaustedLookupFirst(failed) ==
    IF lookupErr = "error" THEN "lookupErr" ELSE IF failed = "error" THEN "dialErr" ELSE "noIPs"

(* The exit of the loop: dial errors are preferred over lookup errors.     *)
Exhausted(failed) ==
    IF failed = "error" THEN "dialErr" ELSE IF lookupErr = "error" THEN "lookupErr" ELSE "noIPs"

(* The loop goes on while operations are pending.                          *)
NextTurn(failed) ==
    \/ opsPending' > 0 /\ UNCHANGED <<ctx, result>>
    \/ opsPending' <= 0 /\ Return(Exhausted(failed))

(* Variant that takes a failed lookup off the pending operations.          *)
TakeErrorCounted(a) ==
    \/ /\ a.err = "error"
       /\ lookupErr' = "error"
       /\ opsPending' = opsPending - 1
       /\ UNCHANGED <<ip4s, ip6s>>
    \/ /\ a.err = "nil"
       /\ opsPending' = opsPending + a.v4 + a.v6
       /\ ip4s' = ip4s + a.v4
       /\ ip6s' = ip6s + a.v6
       /\ UNCHANGED lookupErr

(* What the loop does with a result: an error is kept, addresses are       *)
(* sorted by family and counted as operations.                             *)
Take(a) ==
    \/ /\ a.err = "error"
       /\ lookupErr' = "error"
       /\ UNCHANGED <<opsPending, ip4s, ip6s>>
    \/ /\ a.err = "nil"
       /\ opsPending' = opsPending + a.v4 + a.v6
       /\ ip4s' = ip4s + a.v4
       /\ ip6s' = ip6s + a.v6
       /\ UNCHANGED lookupErr

(* case lookupRes, ok := <-resolutionCh, with a result.                    *)
ReceiveLookup ==
    /\ result = "none"
    /\ resolutionCh = "open"
    /\ resultsCh # <<>>
    /\ Take(Head(resultsCh))
    /\ resultsCh' = Tail(resultsCh)
    /\ NextTurn(dialErr)
    /\ UNCHANGED <<lookup, pending, closeOfCh, resolutionCh, lastDialed, dialErr>>
    /\ UNCHANGED delayVars
    /\ UNCHANGED attemptVars

(* Variant that does not count the end of the lookups.                     *)
ReceiveLookupsDoneUncounted ==
    /\ result = "none"
    /\ resolutionCh = "open"
    /\ resultsCh = <<>>
    /\ closeOfCh > 0
    /\ resolutionCh' = "nil"
    /\ UNCHANGED <<opsPending, ctx, result>>
    /\ UNCHANGED lookupVars
    /\ UNCHANGED <<ip4s, ip6s, lastDialed, lookupErr, dialErr>>
    /\ UNCHANGED delayVars
    /\ UNCHANGED attemptVars

(* The same case with the channel closed.                                  *)
ReceiveLookupsDone ==
    /\ result = "none"
    /\ resolutionCh = "open"
    /\ resultsCh = <<>>
    /\ closeOfCh > 0
    /\ resolutionCh' = "nil"
    /\ opsPending' = opsPending - 1
    /\ NextTurn(dialErr)
    /\ UNCHANGED lookupVars
    /\ UNCHANGED <<ip4s, ip6s, lastDialed, lookupErr, dialErr>>
    /\ UNCHANGED delayVars
    /\ UNCHANGED attemptVars

(* The head of the loop chooses readyToDialCh: nil without addresses, the  *)
(* Resolution Delay (a child of the context) before the first attempt      *)
(* while only IPv4 is known, the Connection Attempt Delay otherwise.       *)
InResolutionDelay == lastDialed = "none" /\ ip6s = 0 /\ resolutionCh = "open"
ReadyToDial ==
    /\ ip4s + ip6s > 0
    /\ IF InResolutionDelay THEN resolutionDelay = "passed" \/ ctx = "done"
                             ELSE attemptDelay = "passed"

(* Alternate between IPv6 and IPv4.                                        *)
PickIPv4 == ip6s = 0 \/ (lastDialed = "ip6" /\ ip4s > 0)

(* case <-readyToDialCh                                                    *)
StartAttempt ==
    /\ result = "none"
    /\ ReadyToDial
    /\ started < MaxAttempts
    /\ IF PickIPv4
         THEN lastDialed' = "ip4" /\ ip4s' = ip4s - 1 /\ UNCHANGED ip6s
         ELSE lastDialed' = "ip6" /\ ip6s' = ip6s - 1 /\ UNCHANGED ip4s
    /\ started' = started + 1
    /\ attempt' = [attempt EXCEPT ![started + 1] = "dialing"]
    /\ attemptDelay' = "running"
    /\ UNCHANGED lookupVars
    /\ UNCHANGED <<resolutionCh, opsPending, lookupErr, dialErr, resolutionDelay, conn,
                   ctx, result>>

(* case dialRes := <-dialCh, meeting the send of the attempt.              *)
ReceiveAttempt(i) ==
    /\ result = "none"
    /\ attempt[i] = "dialed"
    /\ attempt' = [attempt EXCEPT ![i] = "handed"]
    /\ opsPending' = opsPending - 1
    /\ \/ conn[i] = "open" /\ Return("conn") /\ UNCHANGED dialErr
       \/ conn[i] = "none" /\ dialErr' = "error" /\ NextTurn("error")
    /\ UNCHANGED lookupVars
    /\ UNCHANGED <<resolutionCh, ip4s, ip6s, lastDialed, lookupErr, started, conn>>
    /\ UNCHANGED delayVars

(* case <-ctx.Done()                                                       *)
SeeCanceled ==
    /\ result = "none"
    /\ ctx = "done"
    /\ Return("canceled")
    /\ UNCHANGED lookupVars
    /\ UNCHANGED listVars
    /\ UNCHANGED delayVars
    /\ UNCHANGED attemptVars

LoopStep == \/ ReceiveLookup
            \/ ReceiveLookupsDone
            \/ StartAttempt
            \/ \E i \in Attempts : ReceiveAttempt(i)
            \/ SeeCanceled

-----------------------------------------------------------------------------
(* The goroutine of a connection attempt.                                  *)

OutsideAttempt == /\ UNCHANGED lookupVars
                  /\ UNCHANGED listVars
                  /\ UNCHANGED <<resolutionDelay, started, ctx, result>>

(* d.dial returns a connection or an error, also after a cancellation.     *)
DialReturns(i) ==
    /\ attempt[i] = "dialing"
    /\ attempt' = [attempt EXCEPT ![i] = "dialed"]
    /\ \E c \in {"open", "none"} : conn' = [conn EXCEPT ![i] = c]
    /\ UNCHANGED attemptDelay
    /\ OutsideAttempt

(* Variant that only ever waits for the dialer.                            *)
GiveUpNever(i) == FALSE /\ UNCHANGED vars

(* Variant that keeps the connection nobody wants.                         *)
GiveUpKeepsConn(i) ==
    /\ attempt[i] = "dialed"
    /\ ctx = "done"
    /\ attempt' = [attempt EXCEPT ![i] = "handed"]
    /\ UNCHANGED <<conn, attemptDelay>>
    /\ OutsideAttempt

(* case <-ctx.Done() of the attempt: nobody wants the connection.          *)
GiveUp(i) ==
    /\ attempt[i] = "dialed"
    /\ ctx = "done"
    /\ attempt' = [attempt EXCEPT ![i] = "handed"]
    /\ conn' = [conn EXCEPT ![i] = IF @ = "open" THEN "closed" ELSE @]
    /\ UNCHANGED attemptDelay
    /\ OutsideAttempt

(* The deferred cancelDelay: attemptDelayCh is that of the last attempt.   *)
EndAttempt(i) ==
    /\ attempt[i] = "handed"
    /\ attempt' = [attempt EXCEPT ![i] = "ended"]
    /\ attemptDelay' = IF i = started THEN "passed" ELSE attemptDelay
    /\ UNCHANGED conn
    /\ OutsideAttempt

AttemptStep(i) == GiveUp(i) \/ EndAttempt(i)

-----------------------------------------------------------------------------
(* The timers and the caller.                                              *)

ResolutionDelayPasses ==
    /\ result = "none"
    /\ ip4s > 0 /\ InResolutionDelay
    /\ resolutionDelay = "running"
    /\ resolutionDelay' = "passed"
    /\ UNCHANGED lookupVars
    /\ UNCHANGED listVars
    /\ UNCHANGED attemptVars
    /\ UNCHANGED <<attemptDelay, ctx, result>>

(* Variant without the Connection Attempt Delay: only the end of the       *)
(* previous attempt lets the next one start.                               *)
AttemptDelayNever == FALSE /\ UNCHANGED vars

AttemptDelayPasses ==
    /\ attemptDelay = "running"
    /\ attemptDelay' = "passed"
    /\ UNCHANGED lookupVars
    /\ UNCHANGED listVars
    /\ UNCHANGED attemptVars
    /\ UNCHANGED <<resolutionDelay, ctx, result>>

(* The caller cancels the context it passed to DialStream.                 *)
Cancel ==
    /\ result = "none"
    /\ ctx = "live"
    /\ ctx' = "done"
    /\ UNCHANGED lookupVars
    /\ UNCHANGED listVars
    /\ UNCHANGED delayVars
    /\ UNCHANGED attemptVars
    /\ UNCHANGED result

-----------------------------------------------------------------------------
Next == \/ \E l \in Lookups : LookupReturns(l) \/ LookupEnds(l)
        \/ LoopStep
        \/ \E i \in Attempts : DialReturns(i) \/ AttemptStep(i)
        \/ ResolutionDelayPasses
        \/ AttemptDelayPasses
        \/ Cancel

Spec == Init /\ [][Next]_vars

(* Goroutines that can go on do and timers fire.  Nothing is assumed of    *)
(* the lookups and of the base dialer: they may hang for ever.             *)
Fairness == /\ WF_vars(LoopStep)
            /\ WF_vars(ResolutionDelayPasses)
            /\ WF_vars(AttemptDelayPasses)
            /\ \A l \in Lookups : WF_vars(LookupEnds(l))
            /\ \A i \in Attempts : WF_vars(AttemptStep(i))

FairSpec == Spec /\ Fairness

-----------------------------------------------------------------------------
(* The attempts whose result the loop has not received.                    *)
Outstanding == {i \in Attempts : attempt[i] \in {"dialing", "dialed"}}

(* opsPending counts the lookup phase, the addresses still to dial and the *)
(* attempts still to answer, so the loop neither ends early nor waits for  *)
(* nothing.  An attempt that gives up does so after a cancellation, which  *)
(* the loop sees by itself.                                                *)
Owed == (IF resolutionCh = "open" THEN 1 ELSE 0) + ip4s + ip6s + Cardinality(Outstanding)
OpsPendingExact == result = "none" => /\ opsPending >= Owed
                                      /\ ctx = "live" => opsPending = Owed
                                      /\ opsPending > 0

(* DialStream blames the destination only after every lookup was heard and *)
(* every address dialled, without a connection left anywhere.              *)
ErrorOnlyWhenExhausted ==
    result \in {"dialErr", "lookupErr", "noIPs"} =>
        /\ \A l \in Lookups : lookup[l] # "running"
        /\ resultsCh = <<>> /\ ip4s + ip6s = 0
        /\ \A i \in Attempts : conn[i] = "none" /\ attempt[i] \notin {"dialing", "dialed"}
        /\ (result = "dialErr") <=> (started > 0)

(* A connection is returned to the caller, closed, or still in the hands   *)
(* of its attempt: none is left open behind the call, and one at most is   *)
(* returned.                                                               *)
NoConnLeak ==
    LET left == {i \in Attempts : conn[i] = "open" /\ attempt[i] \in {"handed", "ended"}}
    IN Cardinality(left) = IF result = "conn" THEN 1 ELSE 0

(* resultsCh is closed once, and not before every lookup has sent: a send  *)
(* on a closed channel or a second close would panic.                      *)
ResultsClosedLast ==
    closeOfCh = IF \A l \in Lookups : lookup[l] = "ended" THEN 1 ELSE 0

(* The loop knows what it still waits for, so that it ends neither early   *)
(* nor never, and nothing is left behind it.                               *)
DialSound == /\ OpsPendingExact /\ ErrorOnlyWhenExhausted
             /\ NoConnLeak /\ ResultsClosedLast

(* An address that was received is dialled, or the call is over: neither a *)
(* lookup that hangs nor an attempt that hangs keeps the call from trying  *)
(* the other addresses.                                                    *)
EveryAddressTried == (ip4s + ip6s > 0) ~> (ip4s + ip6s = 0 \/ result # "none")

(* DialStream waits for lookups and dials only: with none of them running  *)
(* it starts another attempt or returns.                                   *)
WaitingFor == \/ \E l \in Lookups : lookup[l] = "running"
              \/ \E i \in Attempts : attempt[i] = "dialing"
CallReturns == ~WaitingFor ~> (result # "none" \/ WaitingFor)

(* The goroutine of an attempt whose dial has returned ends, also when     *)
(* nobody reads its result any more.                                       *)
AttemptsEnd == \A i \in Attempts : attempt[i] = "dialed" ~> attempt[i] = "ended"
=============================================================================
