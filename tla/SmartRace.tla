------------------------------ MODULE SmartRace -------------------------------
(*****************************************************************************)
(* The race of a strategy search (src/x/smart/racer.go) and the tests of     *)
(* dialers that run in it (testDialer and testDialerSingleDomain of          *)
(* src/x/smart/stream_dialer.go). Tests start one after the other, each when *)
(* the one before has ended or its wait is over, and overlap from then on; a *)
(* test visits all the test domains at once. The tests of DNS resolvers are  *)
(* in SmartDns. A server may accept a connection and then never answer the   *)
(* request: the response is read without a deadline, so such a visit never   *)
(* ends.                                                                     *)
(*****************************************************************************)
EXTENDS Naturals, Sequences, FiniteSets

CONSTANTS NumEntries,   \* entries of the configuration that is searched
          Domains,      \* the test domains
          Valid         \* entries a dialer can be made from

VARIABLES kind,      \* what is raced: "dialers" | "resolvers"
          race,      \* "open" | "won" | "failed" | "cancelled"
          winner,    \* the entry that won, or 0
          next,      \* tests started
          toTest,    \* results the loop still waits for
          waitCh,    \* "ready" | "timer" (of entry next) | "nil"
          parent,    \* the caller's context: "live" | "done"
          tst,       \* tst[e]: "idle" | "make" | "run" | "passed" | "failed"
          results,   \* resultChan, a buffered channel of entries whose test ended
          visit,     \* visit[e][d]: "idle" | "dial" | "handshake" | "read" | "ok" | "err"
          tripped    \* entries whose testDialer has cancelled its other visits

raceVars == <<kind, race, winner, next, toTest, waitCh, parent, tst, results, visit, tripped>>

Entries == 1..NumEntries

RaceInit ==
  /\ kind \in {"dialers", "resolvers"}
  /\ race = "open" /\ winner = 0 /\ next = 0 /\ toTest = NumEntries
  /\ waitCh = "ready"                     \* newClosedChanel
  /\ parent = "live"
  /\ tst = [e \in Entries |-> "idle"]
  /\ results = <<>>
  /\ visit = [e \in Entries |-> [d \in Domains |-> "idle"]]
  /\ tripped = {}

\* raceCtx of findDNS, findTLS and findFallback: cancelled when they return.
RaceCtxDone == parent = "done" \/ race # "open"

CallerCancels == /\ parent = "live"
                 /\ parent' = "done"
                 /\ UNCHANGED <<kind, race, winner, next, toTest, waitCh, tst, results, visit, tripped>>

-------------------------------------------------------------------------------
\* The loop of raceTests. Its select picks any case that is ready.

Quit == /\ race = "open" /\ toTest > 0 /\ parent = "done"
        /\ race' = "cancelled"
        /\ UNCHANGED <<kind, winner, next, toTest, waitCh, parent, tst, results, visit, tripped>>

(* Variant: the timer does not end the wait. *)
WaitOverWithTest == IF next = 0 THEN waitCh = "ready"
                    ELSE waitCh # "nil" /\ (parent = "done" \/ tst[next] \in {"passed", "failed"})

\* waitCh is the context of the test started last: its timer, the end of that
\* test and the caller's context end it.
WaitOver == \/ waitCh = "ready"
            \/ /\ waitCh = "timer"
               /\ parent = "done" \/ tst[next] \in {"passed", "failed"}

\* The wait for the newest test expires (250 ms in every search).
WaitExpires == /\ race = "open" /\ waitCh = "timer"
               /\ waitCh' = "ready"
               /\ UNCHANGED <<kind, race, winner, next, toTest, parent, tst, results, visit, tripped>>

StartTest == /\ race = "open" /\ toTest > 0 /\ WaitOver
             /\ next' = next + 1
             /\ waitCh' = IF next + 1 = NumEntries THEN "nil" ELSE "timer"
             /\ tst' = [tst EXCEPT ![next + 1] = "make"]
             /\ UNCHANGED <<kind, race, winner, toTest, parent, results, visit, tripped>>

(* Variant: the first result ends the race, whatever it says. *)
TakeResultAny ==
  /\ race = "open" /\ toTest > 0 /\ results # <<>>
  /\ results' = Tail(results)
  /\ toTest' = toTest - 1
  /\ race' = "won" /\ winner' = Head(results)
  /\ UNCHANGED <<kind, next, waitCh, parent, tst, visit, tripped>>

TakeResult ==
  /\ race = "open" /\ toTest > 0 /\ results # <<>>
  /\ results' = Tail(results)
  /\ toTest' = toTest - 1
  /\ IF tst[Head(results)] = "passed"
     THEN race' = "won" /\ winner' = Head(results)
     ELSE UNCHANGED <<race, winner>>
  /\ UNCHANGED <<kind, next, waitCh, parent, tst, visit, tripped>>

\* "all tests failed"
Exhausted == /\ race = "open" /\ toTest = 0
             /\ race' = "failed"
             /\ UNCHANGED <<kind, winner, next, toTest, waitCh, parent, tst, results, visit, tripped>>

\* The end of a test's goroutine: the buffered channel takes every result, also
\* those that come when the race is over.
EndTest(e, r) == /\ tst' = [tst EXCEPT ![e] = r]
                 /\ results' = Append(results, e)

-------------------------------------------------------------------------------
\* The test of a dialer.

\* NewStreamDialer or makeDialerFromConfig does not accept the entry.
MakeFails(e) == /\ kind = "dialers" /\ tst[e] = "make" /\ e \notin Valid
                /\ EndTest(e, "failed")
                /\ UNCHANGED <<kind, race, winner, next, toTest, waitCh, parent, visit, tripped>>

\* The dialer is there; testDialer visits all domains in parallel.
Visits(e) == /\ kind = "dialers" /\ tst[e] = "make" /\ e \in Valid
             /\ tst' = [tst EXCEPT ![e] = "run"]
             /\ visit' = [visit EXCEPT ![e] = [d \in Domains |-> "dial"]]
             /\ UNCHANGED <<kind, race, winner, next, toTest, waitCh, parent, results, tripped>>

VisitStep(e, d, from, to) ==
  /\ kind = "dialers" /\ visit[e][d] = from
  /\ visit' = [visit EXCEPT ![e][d] = to]
  /\ UNCHANGED <<kind, race, winner, next, toTest, waitCh, parent, tst, results>>

Dialled(e, d) == VisitStep(e, d, "dial", "handshake") /\ UNCHANGED tripped

Secured(e, d) == VisitStep(e, d, "handshake", "read") /\ UNCHANGED tripped

\* http.ReadResponse has its answer; nothing but the server ends this wait.
Answered(e, d) == VisitStep(e, d, "read", "ok") /\ UNCHANGED tripped

\* A dial or a handshake fails, by itself, by TestTimeout or because its context
\* was cancelled; or the connection breaks before the response. The visit
\* cancels the others (cancelAll) and leaves its error in errCh.
VisitFails(e, d) == \E from \in {"dial", "handshake", "read"}:
                      VisitStep(e, d, from, "err") /\ tripped' = tripped \cup {e}

(* Variant: the test of a dialer passes with its first domain. *)
TestEndsFirst(e) ==
  /\ kind = "dialers" /\ tst[e] = "run"
  /\ \/ /\ \E d \in Domains: visit[e][d] = "err"
        /\ EndTest(e, "failed")
     \/ /\ \E d \in Domains: visit[e][d] = "ok"
        /\ EndTest(e, "passed")
  /\ UNCHANGED <<kind, race, winner, next, toTest, waitCh, parent, visit, tripped>>

\* testDialer returns the first error, or nil when errCh is closed because every
\* visit is over and none failed.
TestEnds(e) ==
  /\ kind = "dialers" /\ tst[e] = "run"
  /\ \/ /\ \E d \in Domains: visit[e][d] = "err"
        /\ EndTest(e, "failed")
     \/ /\ \A d \in Domains: visit[e][d] = "ok"
        /\ EndTest(e, "passed")
  /\ UNCHANGED <<kind, race, winner, next, toTest, waitCh, parent, visit, tripped>>

Loop == Quit \/ StartTest \/ TakeResult \/ Exhausted

DialerTest == \E e \in Entries:
                \/ MakeFails(e) \/ Visits(e) \/ TestEnds(e)
                \/ \E d \in Domains: Dialled(e, d) \/ Secured(e, d) \/ Answered(e, d) \/ VisitFails(e, d)

\* Dials and handshakes are bounded by TestTimeout and end at once when their
\* context is cancelled; the wait for a response is not, and nothing is assumed
\* of the servers.
RaceFairness == /\ WF_raceVars(Loop)
                /\ WF_raceVars(WaitExpires)

-------------------------------------------------------------------------------

\* What became of an entry: its dialer has passed when every visit was answered,
\* whatever its test has reported so far, and failed with its first failed visit.
Verdict(e) ==
  CASE \/ kind = "resolvers" /\ tst[e] \in {"passed", "failed"}
       \/ tst[e] = "failed"                                   -> tst[e]
    [] kind = "dialers" /\ \E d \in Domains: visit[e][d] = "err" -> "failed"
    [] kind = "dialers" /\ \A d \in Domains: visit[e][d] = "ok"  -> "passed"
    [] OTHER                                                   -> "none"

Contract == INSTANCE RaceContract WITH
              verdict <- [e \in Entries |-> Verdict(e)],
              outcome <- race,
              best <- winner

\* Whatever the tests do, the race is an honest one (module RaceContract).
IsHonestRace == Contract!ContractSpec

\* A test that never ends holds nobody up: all entries get their test unless the
\* race ends first, and a caller that gives up gets its answer ("that way you
\* bound the wait for a test", racer.go).
WaitBounded == /\ race = "open" ~> next = NumEntries \/ race # "open"
               /\ parent = "done" ~> race # "open"
===============================================================================
