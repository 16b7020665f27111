-------------------------- MODULE TransportProofs ---------------------------
(***************************************************************************)
(* Proofs about HappyEyeballs for every number of lookups, answers and     *)
(* connection attempts, SplitWriter for any splits and connections,        *)
(* Socks5 for replies of every size, TlsFragWriter for every record,       *)
(* stream and mix of calls, Teardown for every call and place it fails at, *)
(* and ConfigUrl for texts of any length and parts.                        *)
(***************************************************************************)
EXTENDS MCDialing, SplitWriter, TlsFragWriter, FiniteSetTheorems, SequenceTheorems,
        WellFoundedInduction, TLAPS

-----------------------------------------------------------------------------
(***************************************************************************)
(* HappyEyeballs: a dial fails only when everything has failed, and leaves *)
(* nothing behind.                                                         *)
(***************************************************************************)
(* Every variable keeps its type.                                          *)
LEMMA TypeInitially == Init => TypeOK
<1>1. Cardinality(Lookups) \in Nat
  BY LookupsAssumption, FS_CardinalityType
<1> QED
  BY <1>1, MaxAttemptsAssumption DEF Init, TypeOK, Outcome

(* Every step keeps the types.                                             *)
LEMMA TypeInductive == TypeOK /\ [Next]_vars => TypeOK'
<1> SUFFICES ASSUME TypeOK, [Next]_vars PROVE TypeOK'
  OBVIOUS
<1> USE DEF TypeOK, lookupVars, listVars, delayVars, attemptVars
<1>1. ASSUME NEW l \in Lookups, LookupReturns(l) PROVE TypeOK'
  <2>1. PICK a \in Answers[l] : resultsCh' = Append(resultsCh, a)
    BY <1>1 DEF LookupReturns
  <2>2. a \in Resolution
    BY AnswersAssumption
  <2> QED
    BY <1>1, <2>1, <2>2 DEF LookupReturns, OutsideResolver
<1>2. ASSUME NEW l \in Lookups, LookupEnds(l) PROVE TypeOK'
  BY <1>2 DEF LookupEnds, OutsideResolver
<1>3. CASE ReceiveLookup
  <2>1. Head(resultsCh) \in Resolution /\ Tail(resultsCh) \in Seq(Resolution)
    BY <1>3 DEF ReceiveLookup
  <2>2. PICK a \in Resolution : Take(a)
    BY <1>3, <2>1 DEF ReceiveLookup
  <2>3. a.v4 \in Nat /\ a.v6 \in Nat
    BY DEF Resolution
  <2>4. /\ ip4s' \in Nat /\ ip6s' \in Nat /\ opsPending' \in Int
        /\ lookupErr' \in Outcome
    BY <2>2, <2>3, SMTT(30) DEF Take, Outcome
  <2>5. /\ ctx' \in {"live", "done"}
        /\ result' \in {"none", "conn", "dialErr", "lookupErr", "noIPs", "canceled"}
    BY <1>3 DEF ReceiveLookup, NextTurn, Return, Exhausted
  <2> QED
    BY <1>3, <2>1, <2>4, <2>5 DEF ReceiveLookup
<1>4. CASE ReceiveLookupsDone
  BY <1>4 DEF ReceiveLookupsDone, NextTurn, Return, Exhausted
<1>5. CASE StartAttempt
  BY <1>5, MaxAttemptsAssumption DEF StartAttempt, ReadyToDial, PickIPv4, Attempts
<1>6. ASSUME NEW i \in Attempts, ReceiveAttempt(i) PROVE TypeOK'
  BY <1>6 DEF Outcome, ReceiveAttempt, NextTurn, Return, Exhausted
<1>7. ASSUME NEW i \in Attempts, DialReturns(i) \/ GiveUp(i) \/ EndAttempt(i) PROVE TypeOK'
  BY <1>7 DEF DialReturns, GiveUp, EndAttempt, OutsideAttempt
<1>8. CASE SeeCanceled \/ ResolutionDelayPasses \/ AttemptDelayPasses \/ Cancel \/ UNCHANGED vars
  BY <1>8 DEF SeeCanceled, Return, ResolutionDelayPasses, AttemptDelayPasses, Cancel, vars
<1> QED
  BY <1>1, <1>2, <1>3, <1>4, <1>5, <1>6, <1>7, <1>8 DEF Next, LoopStep, AttemptStep

(* Every variable keeps its type in every behaviour of the call.           *)
THEOREM TypeCorrect == Spec => []TypeOK
BY TypeInitially, TypeInductive, PTL DEF Spec

-----------------------------------------------------------------------------
(* The resolver: its counter is the number of lookups that have not ended, *)
(* it closes the channel with the last one, and the loop only gives the    *)
(* channel up once it is closed and drained.                               *)
Pending == {l \in Lookups : lookup[l] # "ended"}

ResolverInv == /\ pending = Cardinality(Pending)
               /\ closeOfCh = IF Pending = {} THEN 1 ELSE 0
               /\ resolutionCh = "nil" => closeOfCh > 0 /\ resultsCh = <<>>

(* There are finitely many pending lookups, and none is counted as none.   *)
LEMMA PendingFinite ==
    /\ IsFiniteSet(Pending) /\ Cardinality(Pending) \in Nat
    /\ Cardinality(Pending) = 0 <=> Pending = {}
<1>1. IsFiniteSet(Pending)
  BY LookupsAssumption, FS_Subset DEF Pending
<1> QED
  BY <1>1, FS_CardinalityType, FS_EmptySet

(* The steps after which the resolver is as it was.                        *)
LEMMA ResolverFrame ==
    ASSUME UNCHANGED <<lookup, pending, closeOfCh, resolutionCh, resultsCh>>, ResolverInv
    PROVE  ResolverInv'
BY DEF ResolverInv, Pending

(* ResolverInv is kept by every step.                                      *)
LEMMA ResolverInductive == TypeOK /\ ResolverInv /\ [Next]_vars => ResolverInv'
<1> SUFFICES ASSUME TypeOK, ResolverInv, [Next]_vars PROVE ResolverInv'
  OBVIOUS
<1> USE DEF lookupVars, listVars, delayVars, attemptVars, OutsideAttempt
<1>1. ASSUME NEW l \in Lookups, LookupReturns(l) PROVE ResolverInv'
  <2>1. Pending' = Pending /\ Pending # {}
    BY <1>1 DEF LookupReturns, Pending, TypeOK
  <2> QED
    BY <1>1, <2>1 DEF LookupReturns, OutsideResolver, ResolverInv, TypeOK
<1>2. ASSUME NEW l \in Lookups, LookupEnds(l) PROVE ResolverInv'
  <2>1. Pending' = Pending \ {l} /\ l \in Pending
    BY <1>2 DEF LookupEnds, Pending, TypeOK
  <2>2. IsFiniteSet(Pending') /\ Cardinality(Pending') = Cardinality(Pending) - 1
    BY <2>1, PendingFinite, FS_RemoveElement
  <2>3. Cardinality(Pending') = 0 <=> Pending' = {}
    BY <2>2, FS_EmptySet
  <2> QED
    BY <1>2, <2>1, <2>2, <2>3, PendingFinite
       DEF LookupEnds, OutsideResolver, ResolverInv, TypeOK
<1>3. CASE ReceiveLookup
  BY <1>3 DEF ReceiveLookup, ResolverInv, Pending
<1>4. CASE ReceiveLookupsDone
  BY <1>4 DEF ReceiveLookupsDone, ResolverInv, Pending
<1>5. ASSUME NEW i \in Attempts,
             ReceiveAttempt(i) \/ DialReturns(i) \/ GiveUp(i) \/ EndAttempt(i)
      PROVE  ResolverInv'
  BY <1>5, ResolverFrame DEF ReceiveAttempt, DialReturns, GiveUp, EndAttempt
<1>6. CASE StartAttempt \/ SeeCanceled \/ ResolutionDelayPasses \/ AttemptDelayPasses
           \/ Cancel \/ UNCHANGED vars
  BY <1>6, ResolverFrame
     DEF StartAttempt, SeeCanceled, ResolutionDelayPasses, AttemptDelayPasses, Cancel, vars
<1> QED
  BY <1>1, <1>2, <1>3, <1>4, <1>5, <1>6 DEF Next, LoopStep, AttemptStep

-----------------------------------------------------------------------------
(* The attempts: numbered in the order they start; a connection is there   *)
(* once the dial has returned, and is closed only after a cancellation.    *)
AttemptInv ==
    \A i \in Attempts :
        /\ i > started <=> attempt[i] = "none"
        /\ attempt[i] \in {"none", "dialing"} => conn[i] = "none"
        /\ attempt[i] = "dialed" => conn[i] # "closed"
        /\ conn[i] = "closed" => ctx = "done"

(* AttemptInv is kept by every step.                                       *)
LEMMA AttemptInductive == TypeOK /\ AttemptInv /\ [Next]_vars => AttemptInv'
<1> SUFFICES ASSUME TypeOK, AttemptInv, [Next]_vars PROVE AttemptInv'
  OBVIOUS
<1> USE DEF TypeOK, AttemptInv, Attempts, lookupVars, listVars, delayVars, attemptVars,
            OutsideResolver, OutsideAttempt
<1>1. ASSUME UNCHANGED attemptVars, ctx' = ctx \/ ctx' = "done" PROVE AttemptInv'
  BY <1>1
<1>2. ASSUME NEW l \in Lookups, LookupReturns(l) \/ LookupEnds(l) PROVE AttemptInv'
  BY <1>2, <1>1 DEF LookupReturns, LookupEnds
<1>3. CASE ReceiveLookup \/ ReceiveLookupsDone \/ SeeCanceled
  BY <1>3, <1>1 DEF ReceiveLookup, ReceiveLookupsDone, SeeCanceled, NextTurn, Return
<1>4. CASE StartAttempt
  BY <1>4, MaxAttemptsAssumption DEF StartAttempt
<1>5. ASSUME NEW i \in Attempts, ReceiveAttempt(i) PROVE AttemptInv'
  <2>1. ctx' = ctx \/ ctx' = "done"
    BY <1>5 DEF ReceiveAttempt, NextTurn, Return
  <2> QED
    BY <1>5, <2>1 DEF ReceiveAttempt
<1>6. ASSUME NEW i \in Attempts, DialReturns(i) \/ GiveUp(i) \/ EndAttempt(i)
      PROVE  AttemptInv'
  <2>1. CASE DialReturns(i)
    BY <2>1 DEF DialReturns
  <2>2. CASE GiveUp(i)
    BY <2>2 DEF GiveUp
  <2>3. CASE EndAttempt(i)
    BY <2>3 DEF EndAttempt
  <2> QED
    BY <1>6, <2>1, <2>2, <2>3
<1>7. CASE ResolutionDelayPasses \/ AttemptDelayPasses \/ Cancel \/ UNCHANGED vars
  BY <1>7, <1>1 DEF ResolutionDelayPasses, AttemptDelayPasses, Cancel, vars
<1> QED
  BY <1>2, <1>3, <1>4, <1>5, <1>6, <1>7 DEF Next, LoopStep, AttemptStep

-----------------------------------------------------------------------------
(* The connections that are open and out of the hands of their attempt.    *)
Left == {i \in Attempts : conn[i] = "open" /\ attempt[i] \in {"handed", "ended"}}

LeftInv == /\ result # "conn" => Left = {}
           /\ result = "conn" => \E w \in Attempts : Left = {w}
           /\ result # "none" => ctx = "done"

(* LeftInv is kept by every step.                                          *)
LEMMA LeftInductive == TypeOK /\ AttemptInv /\ LeftInv /\ [Next]_vars => LeftInv'
<1> SUFFICES ASSUME TypeOK, AttemptInv, LeftInv, [Next]_vars PROVE LeftInv'
  OBVIOUS
<1> USE DEF lookupVars, listVars, delayVars, attemptVars, OutsideResolver, OutsideAttempt
<1>0. ASSUME NEW r \in {"dialErr", "lookupErr", "noIPs", "canceled"},
             Left' = Left, result = "none",
             UNCHANGED <<ctx, result>> \/ Return(r)
      PROVE  LeftInv'
  BY <1>0 DEF Return, LeftInv
<1>1. ASSUME UNCHANGED <<attempt, conn, result>>, ctx' = ctx \/ ctx' = "done" PROVE LeftInv'
  BY <1>1 DEF LeftInv, Left
<1>2. ASSUME NEW l \in Lookups, LookupReturns(l) \/ LookupEnds(l) PROVE LeftInv'
  BY <1>2, <1>1 DEF LookupReturns, LookupEnds
<1>3. CASE ReceiveLookup \/ ReceiveLookupsDone \/ SeeCanceled
  <2>1. Left' = Left /\ result = "none"
    BY <1>3 DEF ReceiveLookup, ReceiveLookupsDone, SeeCanceled, Left
  <2> QED
    BY <1>0, <1>3, <2>1
       DEF ReceiveLookup, ReceiveLookupsDone, SeeCanceled, NextTurn, Exhausted
<1>4. CASE StartAttempt
  <2>1. Left' = Left
    BY <1>4, MaxAttemptsAssumption DEF StartAttempt, Left, AttemptInv, TypeOK, Attempts
  <2> QED
    BY <1>4, <2>1 DEF StartAttempt, LeftInv
<1>5. ASSUME NEW i \in Attempts, ReceiveAttempt(i) PROVE LeftInv'
  <2>1. Left = {} /\ result = "none"
    BY <1>5 DEF ReceiveAttempt, LeftInv
  <2>2. CASE conn[i] = "open"
    <3>1. Left' = {i}
      BY <1>5, <2>1, <2>2 DEF ReceiveAttempt, Left, TypeOK
    <3> QED
      BY <1>5, <2>2, <3>1 DEF ReceiveAttempt, Return, LeftInv
  <2>3. CASE conn[i] = "none"
    <3>1. Left' = Left
      BY <1>5, <2>3 DEF ReceiveAttempt, Left, TypeOK
    <3> QED
      BY <1>0, <1>5, <2>1, <2>3, <3>1 DEF ReceiveAttempt, NextTurn, Exhausted
  <2> QED
    BY <1>5, <2>2, <2>3 DEF ReceiveAttempt
<1>6. ASSUME NEW i \in Attempts, DialReturns(i) \/ GiveUp(i) \/ EndAttempt(i)
      PROVE  LeftInv'
  <2>1. Left' = Left
    BY <1>6 DEF DialReturns, GiveUp, EndAttempt, Left, TypeOK
  <2> QED
    BY <1>6, <2>1 DEF DialReturns, GiveUp, EndAttempt, LeftInv
<1>7. CASE ResolutionDelayPasses \/ AttemptDelayPasses \/ Cancel \/ UNCHANGED vars
  BY <1>7, <1>1 DEF ResolutionDelayPasses, AttemptDelayPasses, Cancel, vars
<1> QED
  BY <1>2, <1>3, <1>4, <1>5, <1>6, <1>7 DEF Next, LoopStep, AttemptStep

-----------------------------------------------------------------------------
(* What opsPending stands for: the lookup phase and the addresses to dial, *)
(* and the attempts that the loop has not heard of and may still hold or   *)
(* have held a connection.  An attempt that gave up keeps its claim when   *)
(* it had to close a connection.                                           *)
Ahead  == (IF resolutionCh = "open" THEN 1 ELSE 0) + ip4s + ip6s
Claims == {i \in Attempts : attempt[i] \in {"dialing", "dialed"} \/ conn[i] = "closed"}

Failures == {"dialErr", "lookupErr", "noIPs"}

OpsInv == /\ opsPending >= Ahead + Cardinality(Claims)
          /\ ctx = "live" => opsPending = Ahead + Cardinality(Claims)
          /\ dialErr = "nil" /\ result # "conn" => opsPending = Ahead + started
          /\ dialErr = "error" => started > 0
          /\ result = "none" => opsPending > 0
          /\ result \in Failures => /\ opsPending <= 0
                                    /\ result = "dialErr" <=> dialErr = "error"

(* There are finitely many claims, and none is counted as none.            *)
LEMMA ClaimsFinite ==
    /\ IsFiniteSet(Claims) /\ Cardinality(Claims) \in Nat
    /\ Cardinality(Claims) = 0 <=> Claims = {}
<1>1. IsFiniteSet(Attempts)
  BY FS_Interval, MaxAttemptsAssumption DEF Attempts
<1>2. IsFiniteSet(Claims)
  BY <1>1, FS_Subset DEF Claims
<1> QED
  BY <1>2, FS_CardinalityType, FS_EmptySet

(* Claims come and go with attempts.                                       *)
LEMMA ClaimsJoin ==
    ASSUME NEW i, i \notin Claims, Claims' = Claims \cup {i}
    PROVE  Cardinality(Claims') = Cardinality(Claims) + 1
BY ClaimsFinite, FS_AddElement

(* A claim that is dropped lowers the count by one.                        *)
LEMMA ClaimsLeave ==
    ASSUME NEW i, i \in Claims, Claims' = Claims \ {i}
    PROVE  Cardinality(Claims') = Cardinality(Claims) - 1
BY ClaimsFinite, FS_RemoveElement

(* The steps that leave the count and what it counts alone.                *)
LEMMA OpsFrame ==
    ASSUME OpsInv, Claims' = Claims,
           UNCHANGED <<resolutionCh, ip4s, ip6s, opsPending, dialErr, started, result>>,
           ctx' = ctx \/ ctx' = "done"
    PROVE  OpsInv'
BY DEF OpsInv, Ahead

(* A turn of the loop that changes the count by as much as what it counts. *)
LEMMA OpsTurn ==
    ASSUME TypeOK, NEW f, result = "none", NextTurn(f), f = dialErr',
           opsPending' \in Int,
           opsPending' >= Ahead' + Cardinality(Claims'),
           ctx = "live" => opsPending' = Ahead' + Cardinality(Claims'),
           dialErr' = "nil" => opsPending' = Ahead' + started',
           dialErr' = "error" => started' > 0
    PROVE  OpsInv'
<1>1. CASE opsPending' > 0 /\ UNCHANGED <<ctx, result>>
  BY <1>1 DEF OpsInv, Failures
<1>2. CASE opsPending' <= 0 /\ Return(Exhausted(f))
  BY <1>2 DEF OpsInv, Return, Exhausted, Failures
<1> QED
  BY <1>1, <1>2 DEF NextTurn

(* OpsInv is kept by every step: each changes opsPending as it changes     *)
(* what it counts.                                                         *)
LEMMA OpsInductive == TypeOK /\ AttemptInv /\ LeftInv /\ OpsInv /\ [Next]_vars => OpsInv'
<1> SUFFICES ASSUME TypeOK, AttemptInv, LeftInv, OpsInv, [Next]_vars PROVE OpsInv'
  OBVIOUS
<1> USE DEF lookupVars, listVars, delayVars, attemptVars, OutsideResolver, OutsideAttempt
<1>0. Cardinality(Claims) \in Nat
  BY ClaimsFinite
<1>1. ASSUME UNCHANGED <<attempt, conn>> PROVE Claims' = Claims
  BY <1>1 DEF Claims
<1>2. ASSUME NEW l \in Lookups, LookupReturns(l) \/ LookupEnds(l) PROVE OpsInv'
  BY <1>1, <1>2, OpsFrame DEF LookupReturns, LookupEnds
<1>3. CASE ReceiveLookup
  <2>1. Head(resultsCh) \in Resolution
    BY <1>3 DEF ReceiveLookup, TypeOK
  <2>2. PICK a \in Resolution : Take(a)
    BY <1>3, <2>1 DEF ReceiveLookup
  <2>3. a.v4 \in Nat /\ a.v6 \in Nat
    BY DEF Resolution
  <2>4. PICK n4 \in Nat, n6 \in Nat : /\ ip4s' = ip4s + n4 /\ ip6s' = ip6s + n6
                                      /\ opsPending' = opsPending + n4 + n6
    <3>1. CASE a.err = "error"
      BY <2>2, <3>1 DEF Take, TypeOK
    <3>2. CASE a.err = "nil"
      BY <2>2, <2>3, <3>2 DEF Take
    <3> QED
      BY <2>2, <3>1, <3>2 DEF Take
  <2>5. resolutionCh' = resolutionCh
    BY <1>3 DEF ReceiveLookup
  <2>6. /\ Ahead' = Ahead + (n4 + n6) /\ opsPending' = opsPending + (n4 + n6)
         /\ Ahead \in Nat /\ opsPending \in Int /\ started \in Int
    BY <2>4, <2>5, MaxAttemptsAssumption DEF Ahead, TypeOK
  <2>7. /\ Claims' = Claims /\ result = "none" /\ UNCHANGED <<dialErr, started>>
        /\ NextTurn(dialErr)
    BY <1>1, <1>3 DEF ReceiveLookup
  <2>8. /\ opsPending' >= Ahead' + Cardinality(Claims')
        /\ ctx = "live" => opsPending' = Ahead' + Cardinality(Claims')
        /\ dialErr' = "nil" => opsPending' = Ahead' + started'
        /\ dialErr' = "error" => started' > 0
    BY <1>0, <2>6, <2>7 DEF OpsInv
  <2> QED
    BY <2>6, <2>7, <2>8, OpsTurn
<1>4. CASE ReceiveLookupsDone
  <2>1. /\ Ahead' = Ahead - 1 /\ opsPending' = opsPending - 1
        /\ Ahead \in Nat /\ opsPending \in Int
    BY <1>4 DEF Ahead, ReceiveLookupsDone, TypeOK
  <2>2. /\ Claims' = Claims /\ result = "none" /\ UNCHANGED <<dialErr, started>>
        /\ NextTurn(dialErr)
    BY <1>1, <1>4 DEF ReceiveLookupsDone
  <2>3. /\ opsPending' >= Ahead' + Cardinality(Claims')
        /\ ctx = "live" => opsPending' = Ahead' + Cardinality(Claims')
        /\ dialErr' = "nil" => opsPending' = Ahead' + started'
        /\ dialErr' = "error" => started' > 0
    BY <1>0, <2>1, <2>2 DEF OpsInv, TypeOK
  <2> QED
    BY <2>1, <2>2, <2>3, OpsTurn
<1>5. CASE StartAttempt
  <2>1. started + 1 \in Attempts /\ attempt[started + 1] = "none" /\ conn[started + 1] = "none"
    BY <1>5, MaxAttemptsAssumption DEF StartAttempt, Attempts, AttemptInv, TypeOK
  <2>2. Claims' = Claims \cup {started + 1} /\ started + 1 \notin Claims
    BY <1>5, <2>1 DEF StartAttempt, Claims, TypeOK
  <2>3. Cardinality(Claims') = Cardinality(Claims) + 1
    BY <2>2, ClaimsJoin
  <2>4. Ahead' = Ahead - 1 /\ Ahead \in Nat
    <3>1. ip4s \in Nat /\ ip6s \in Nat /\ resolutionCh' = resolutionCh
      BY <1>5 DEF StartAttempt, TypeOK
    <3> DEFINE open == IF resolutionCh = "open" THEN 1 ELSE 0
    <3>2. Ahead = open + ip4s + ip6s /\ Ahead' = open + ip4s' + ip6s' /\ open \in Nat
      BY <3>1 DEF Ahead
    <3> HIDE DEF open
    <3>3. CASE PickIPv4
      <4>1. ip4s' = ip4s - 1 /\ ip6s' = ip6s
        BY <1>5, <3>3 DEF StartAttempt
      <4>2. Ahead' = open + (ip4s - 1) + ip6s
        BY <3>2, <4>1
      <4> QED
        BY <3>1, <3>2, <4>2
    <3>4. CASE ~PickIPv4
      <4>1. ip6s' = ip6s - 1 /\ ip4s' = ip4s
        BY <1>5, <3>4 DEF StartAttempt
      <4>2. Ahead' = open + ip4s + (ip6s - 1)
        BY <3>2, <4>1
      <4> QED
        BY <3>1, <3>2, <4>2
    <3> QED
      BY <3>3, <3>4
  <2> QED
    BY <1>0, <1>5, <2>3, <2>4, SMTT(30) DEF StartAttempt, OpsInv, Failures, TypeOK
<1>6. ASSUME NEW i \in Attempts, ReceiveAttempt(i) PROVE OpsInv'
  <2>1. Claims' = Claims \ {i} /\ i \in Claims
    BY <1>6 DEF ReceiveAttempt, Claims, AttemptInv, TypeOK
  <2>2. Cardinality(Claims') = Cardinality(Claims) - 1
    BY <2>1, ClaimsLeave
  <2>3. /\ Ahead' = Ahead /\ Ahead \in Nat /\ result = "none"
        /\ opsPending' = opsPending - 1 /\ opsPending \in Int
    BY <1>6 DEF ReceiveAttempt, Ahead, TypeOK
  <2>4. started' = started /\ started > 0
    BY <1>6 DEF ReceiveAttempt, AttemptInv, TypeOK, Attempts
  <2>5. CASE conn[i] = "open"
    BY <1>0, <1>6, <2>2, <2>3, <2>4, <2>5
       DEF ReceiveAttempt, Return, OpsInv, Failures, TypeOK
  <2>6. CASE conn[i] = "none"
    <3>1. dialErr' = "error" /\ NextTurn("error")
      BY <1>6, <2>6 DEF ReceiveAttempt
    <3>2. /\ opsPending' >= Ahead' + Cardinality(Claims')
          /\ ctx = "live" => opsPending' = Ahead' + Cardinality(Claims')
          /\ opsPending' \in Int
      BY <1>0, <2>2, <2>3 DEF OpsInv
    <3> QED
      BY <2>3, <2>4, <3>1, <3>2, OpsTurn
  <2> QED
    BY <1>6, <2>5, <2>6 DEF ReceiveAttempt
<1>7. ASSUME NEW i \in Attempts, GiveUp(i) PROVE OpsInv'
  <2>1. CASE conn[i] = "open"
    <3>1. Claims' = Claims
      BY <1>7, <2>1 DEF GiveUp, Claims, TypeOK
    <3> QED
      BY <1>7, <3>1, OpsFrame DEF GiveUp
  <2>2. CASE conn[i] # "open"
    <3>1. Claims' = Claims \ {i} /\ i \in Claims
      BY <1>7, <2>2 DEF GiveUp, Claims, AttemptInv, TypeOK
    <3>2. Cardinality(Claims') = Cardinality(Claims) - 1
      BY <3>1, ClaimsLeave
    <3>3. Ahead' = Ahead /\ Ahead \in Nat
      BY <1>7 DEF GiveUp, Ahead, TypeOK
    <3> QED
      BY <1>0, <1>7, <3>2, <3>3 DEF GiveUp, OpsInv, Failures, TypeOK
  <2> QED
    BY <2>1, <2>2
<1>8. ASSUME NEW i \in Attempts, DialReturns(i) \/ EndAttempt(i) PROVE OpsInv'
  <2>1. Claims' = Claims
    BY <1>8 DEF DialReturns, EndAttempt, Claims, AttemptInv, TypeOK
  <2> QED
    BY <1>8, <2>1, OpsFrame DEF DialReturns, EndAttempt
<1>9. CASE SeeCanceled
  <2>1. Claims' = Claims /\ Ahead' = Ahead
    BY <1>1, <1>9 DEF SeeCanceled, Ahead
  <2> QED
    BY <1>9, <2>1 DEF SeeCanceled, Return, OpsInv, Failures
<1>10. CASE ResolutionDelayPasses \/ AttemptDelayPasses \/ Cancel \/ UNCHANGED vars
  BY <1>1, <1>10, OpsFrame DEF ResolutionDelayPasses, AttemptDelayPasses, Cancel, vars
<1> QED
  BY <1>2, <1>3, <1>4, <1>5, <1>6, <1>7, <1>8, <1>9, <1>10 DEF Next, LoopStep, AttemptStep

-----------------------------------------------------------------------------
(* The inductive invariant of the call.                                    *)
IInv == TypeOK /\ ResolverInv /\ AttemptInv /\ LeftInv /\ OpsInv

(* It holds when the loop is entered.                                      *)
LEMMA IInvInitially == Init => IInv
<1> SUFFICES ASSUME Init PROVE IInv
  OBVIOUS
<1>1. TypeOK
  BY TypeInitially
<1>2. Pending = Lookups /\ Claims = {} /\ Left = {}
  BY DEF Init, Pending, Claims, Left
<1>3. ResolverInv
  BY <1>2 DEF Init, ResolverInv
<1>4. AttemptInv
  BY MaxAttemptsAssumption DEF Init, AttemptInv, Attempts
<1>5. LeftInv
  BY <1>2 DEF Init, LeftInv
<1>6. Cardinality(Claims) = 0 /\ Ahead = 1
  BY <1>2, FS_EmptySet DEF Init, Ahead
<1>7. OpsInv
  BY <1>6 DEF Init, OpsInv, Failures
<1> QED
  BY <1>1, <1>3, <1>4, <1>5, <1>7 DEF IInv

(* It holds throughout the call.                                           *)
THEOREM Invariance == Spec => []IInv
<1>1. IInv /\ [Next]_vars => IInv'
  BY TypeInductive, ResolverInductive, AttemptInductive, LeftInductive, OpsInductive DEF IInv
<1> QED
  BY <1>1, IInvInitially, PTL DEF Spec

(* opsPending counts exactly the outstanding work of the call and is       *)
(* positive while the loop runs.                                           *)
THEOREM CountIsExact == Spec => []OpsPendingExact
<1>1. IInv => OpsPendingExact
  <2> SUFFICES ASSUME IInv, result = "none" PROVE /\ opsPending >= Owed
                                                  /\ ctx = "live" => opsPending = Owed
                                                  /\ opsPending > 0
    BY DEF OpsPendingExact
  <2> USE DEF IInv
  <2>1. Outstanding \subseteq Claims /\ (ctx = "live" => Outstanding = Claims)
    BY DEF Outstanding, Claims, AttemptInv
  <2>2. /\ Cardinality(Outstanding) \in Nat /\ Cardinality(Claims) \in Nat
        /\ Cardinality(Outstanding) <= Cardinality(Claims)
    BY <2>1, ClaimsFinite, FS_Subset, FS_CardinalityType
  <2>3. Owed = Ahead + Cardinality(Outstanding) /\ Ahead \in Nat /\ opsPending \in Int
    BY <2>2 DEF Owed, Ahead, TypeOK
  <2>4. opsPending >= Owed
    BY <2>2, <2>3 DEF OpsInv
  <2>5. ctx = "live" => opsPending = Owed
    BY <2>1, <2>2, <2>3 DEF OpsInv
  <2> QED
    BY <2>4, <2>5 DEF OpsInv
<1> QED
  BY <1>1, Invariance, PTL

(* An error that blames the destination is returned only when every lookup *)
(* and every address has failed, for any number of them.                   *)
THEOREM NoEarlyError == Spec => []ErrorOnlyWhenExhausted
<1>1. IInv => ErrorOnlyWhenExhausted
  <2> SUFFICES ASSUME IInv, result \in Failures
               PROVE  /\ \A l \in Lookups : lookup[l] # "running"
                      /\ resultsCh = <<>> /\ ip4s + ip6s = 0
                      /\ \A i \in Attempts : conn[i] = "none" /\ attempt[i] \notin {"dialing", "dialed"}
                      /\ (result = "dialErr") <=> (started > 0)
    BY DEF ErrorOnlyWhenExhausted, Failures
  <2> USE DEF IInv
  <2>1. /\ Ahead \in Nat /\ Cardinality(Claims) \in Nat
        /\ opsPending \in Int /\ opsPending <= 0 /\ opsPending >= Ahead + Cardinality(Claims)
    BY ClaimsFinite DEF Ahead, TypeOK, OpsInv
  <2>2. Ahead = 0 /\ Cardinality(Claims) = 0 /\ opsPending = 0
    BY <2>1
  <2>3. resolutionCh = "nil" /\ ip4s = 0 /\ ip6s = 0
    BY <2>2 DEF Ahead, TypeOK
  <2>4. resultsCh = <<>> /\ Pending = {}
    BY <2>3 DEF ResolverInv
  <2>5. \A l \in Lookups : lookup[l] # "running"
    BY <2>4 DEF Pending
  <2>6. Claims = {} /\ Left = {}
    BY <2>2, ClaimsFinite DEF LeftInv, Failures
  <2>7. \A i \in Attempts : conn[i] = "none" /\ attempt[i] \notin {"dialing", "dialed"}
    BY <2>6 DEF Claims, Left, AttemptInv, TypeOK
  <2>8. result # "conn" /\ started \in Nat /\ dialErr \in {"nil", "error"}
    BY MaxAttemptsAssumption DEF Failures, TypeOK, Outcome
  <2>9. (result = "dialErr") <=> (started > 0)
    BY <2>2, <2>8 DEF OpsInv
  <2> QED
    BY <2>3, <2>4, <2>5, <2>7, <2>9
<1> QED
  BY <1>1, Invariance, PTL

(* A connection that is out of the hands of its attempt is the one that    *)
(* was returned, or closed.                                                *)
THEOREM NoConnIsLeaked == Spec => []NoConnLeak
<1>1. IInv => NoConnLeak
  <2> SUFFICES ASSUME IInv PROVE Cardinality(Left) = IF result = "conn" THEN 1 ELSE 0
    BY DEF NoConnLeak, Left
  <2>1. CASE result = "conn"
    BY <2>1, FS_Singleton DEF IInv, LeftInv
  <2>2. CASE result # "conn"
    BY <2>2, FS_EmptySet DEF IInv, LeftInv
  <2> QED
    BY <2>1, <2>2
<1> QED
  BY <1>1, Invariance, PTL

(* The results channel is closed exactly once, by the last lookup.         *)
THEOREM ChannelClosedLast == Spec => []ResultsClosedLast
<1>1. IInv => ResultsClosedLast
  BY DEF IInv, ResolverInv, Pending, ResultsClosedLast
<1> QED
  BY <1>1, Invariance, PTL

(* The parts together: a dial knows what it still waits for, fails only    *)
(* when everything failed, and leaves no connection behind, for any number *)
(* of addresses and either order of the lookups.                           *)
THEOREM DialIsSound == Spec => []DialSound
  BY CountIsExact, NoEarlyError, NoConnIsLeaked, ChannelClosedLast, PTL DEF DialSound

-----------------------------------------------------------------------------
(***************************************************************************)
(* SplitWriter: the segments are as asked.                                 *)
(***************************************************************************)
(* The split writer of a connection, and a segment.                        *)
WriterRecs == [next : Nat, cuts : SUBSET Nat, dialled : BOOLEAN]
SegmentRecs == [first : Nat, last : Nat, hops : Nat]

(* Every variable keeps its type.                                          *)
SplitTypeOK ==
  /\ iterator \in Seq(Nat \ {0})
  /\ sw \in [Conns -> WriterRecs]
  /\ dis \in [Conns -> [left : Int, hops : Nat]]
  /\ calls \in [Conns -> [kind : {"none", "write", "read"}, left : Nat]]
  /\ segments \in [Conns -> Seq(SegmentRecs)]
  /\ dead \in [Conns -> BOOLEAN]

(* The segments of a connection, and of its split points only the next one *)
(* ahead of them.                                                          *)
InRow(s) == \A i \in 1..Len(s) : s[i].first = IF i = 1 THEN 1 ELSE s[i - 1].last + 1
CutAt(s, cuts) == \A i \in 1..Len(s) : \A p \in cuts : ~(s[i].first =< p /\ p < s[i].last)
NoneBeyond(s, n) == \A i \in 1..Len(s) : s[i].last =< n
OneAhead(cuts, n, next) == \A p \in cuts : p =< n \/ (next > 0 /\ p = n + next)

CutInv == \A c \in Conns :
  /\ InRow(segments[c]) /\ CutAt(segments[c], sw[c].cuts)
  /\ NoneBeyond(segments[c], Accepted(c)) /\ OneAhead(sw[c].cuts, Accepted(c), sw[c].next)
  /\ ~sw[c].dialled => segments[c] = <<>> /\ sw[c].cuts = {}

(* The writes until the disordered one are counted down as long as none    *)
(* has failed, and the socket has its own hop limit between two writes.    *)
Disordered(s) == \A i \in 1..Len(s) : s[i].hops = IF i = DisorderAt + 1 THEN 1 ELSE DefaultHops
HopInv == \A c \in Conns :
  /\ Disordered(segments[c]) /\ dis[c].hops = DefaultHops
  /\ ~dead[c] => dis[c].left = IF Len(segments[c]) =< DisorderAt THEN DisorderAt - Len(segments[c]) ELSE -1

(* A call that runs has bytes left, on a connection that lives.            *)
CallInv == \A c \in Conns :
  calls[c].kind # "none" => ~dead[c] /\ calls[c].left > 0 /\ sw[c].dialled

(* The inductive invariant of the two writers.                             *)
SplitInv == SplitTypeOK /\ CutInv /\ HopInv /\ CallInv

(* The smaller of two numbers.                                             *)
LEMMA SmallerOf ==
  ASSUME NEW a \in Nat, NEW b \in Nat
  PROVE  Min({a, b}) = IF a <= b THEN a ELSE b
<1> DEFINE m == IF a <= b THEN a ELSE b
<1>1. m \in {a, b} /\ \A y \in {a, b} : m =< y
  OBVIOUS
<1>2. \A x \in {a, b} : (\A y \in {a, b} : x =< y) => x = m
  OBVIOUS
<1> HIDE DEF m
<1>3. Min({a, b}) = m
  BY <1>1, <1>2 DEF Min
<1> QED
  BY <1>3 DEF m

(* What the iterator still has is positive.                                *)
LEMMA IteratorDraws ==
  ASSUME iterator \in Seq(Nat \ {0})
  PROVE  /\ Upcoming \in Nat
         /\ Draw => iterator' \in Seq(Nat \ {0})
<1>1. CASE iterator = <<>>
  BY <1>1 DEF Upcoming, Draw
<1>2. CASE iterator # <<>>
  <2>1. Head(iterator) \in Nat \ {0} /\ Tail(iterator) \in Seq(Nat \ {0})
    BY <1>2, HeadTailProperties
  <2> QED
    BY <1>2, <2>1 DEF Upcoming, Draw
<1> QED
  BY <1>1, <1>2

(* What the socket has accepted, and its segments.                         *)
LEMMA AcceptedIs ==
  ASSUME NEW c \in Conns, segments \in [Conns -> Seq(SegmentRecs)]
  PROVE  /\ Accepted(c) \in Nat
         /\ segments[c] \in Seq(SegmentRecs) /\ Len(segments[c]) \in Nat
         /\ \A i \in 1..Len(segments[c]) : segments[c][i] \in SegmentRecs
<1>1. /\ segments[c] \in Seq(SegmentRecs) /\ Len(segments[c]) \in Nat
      /\ \A i \in 1..Len(segments[c]) : segments[c][i] \in SegmentRecs
  BY ElementOfSeq, LenProperties
<1>2. CASE segments[c] = <<>>
  BY <1>1, <1>2 DEF Accepted
<1>3. CASE segments[c] # <<>>
  <2>1. Len(segments[c]) \in 1..Len(segments[c])
    BY <1>1, <1>3, EmptySeq
  <2>2. segments[c][Len(segments[c])].last \in Nat
    BY <1>1, <2>1 DEF SegmentRecs
  <2> QED
    BY <1>1, <1>3, <2>2 DEF Accepted
<1> QED
  BY <1>2, <1>3

(* A segment is sent: it follows the others, up to the next split at most. *)
LEMMA SegmentJoins ==
  ASSUME NEW s \in Seq(SegmentRecs), NEW a \in Nat, NEW n \in Nat, n > 0,
         NEW h \in Nat, NEW cuts \in SUBSET Nat, NEW next \in Nat,
         s = <<>> => a = 0, s # <<>> => a = s[Len(s)].last,
         InRow(s), CutAt(s, cuts), NoneBeyond(s, a), OneAhead(cuts, a, next),
         next > 0 => n =< next
  PROVE  LET t == Append(s, [first |-> a + 1, last |-> a + n, hops |-> h])
         IN  /\ t \in Seq(SegmentRecs) /\ Len(t) = Len(s) + 1
             /\ \A i \in 1..Len(s) : t[i] = s[i]
             /\ t[Len(s) + 1] = [first |-> a + 1, last |-> a + n, hops |-> h]
             /\ t # <<>> /\ t[Len(t)].last = a + n
             /\ InRow(t) /\ CutAt(t, cuts) /\ NoneBeyond(t, a + n)
<1> DEFINE e == [first |-> a + 1, last |-> a + n, hops |-> h]
           t == Append(s, e)
<1>1. e \in SegmentRecs /\ e.first = a + 1 /\ e.last = a + n
  BY DEF SegmentRecs
<1> HIDE DEF e
<1>2. /\ t \in Seq(SegmentRecs) /\ Len(t) = Len(s) + 1 /\ Len(s) \in Nat
      /\ \A i \in 1..Len(s) : t[i] = s[i]
      /\ t[Len(s) + 1] = e
  <2>1. Len(s) \in Nat
    BY LenProperties
  <2>2. /\ t \in Seq(SegmentRecs) /\ Len(t) = Len(s) + 1
        /\ \A i \in 1..Len(s) : t[i] = s[i]
        /\ t[Len(s) + 1] = e
    BY <1>1, AppendProperties
  <2> QED
    BY <2>1, <2>2
<1>3. \A i \in 1..Len(s) : s[i].first \in Nat /\ s[i].last \in Nat
  <2>1. \A i \in 1..Len(s) : s[i] \in SegmentRecs
    BY ElementOfSeq
  <2> QED
    BY <2>1 DEF SegmentRecs
<1> HIDE DEF t
<1>4. InRow(t)
  <2> SUFFICES ASSUME NEW i \in 1..Len(t)
               PROVE  t[i].first = IF i = 1 THEN 1 ELSE t[i - 1].last + 1
    BY DEF InRow
  <2>1. CASE i \in 1..Len(s)
    <3>1. t[i] = s[i] /\ s[i].first = IF i = 1 THEN 1 ELSE s[i - 1].last + 1
      BY <1>2, <2>1 DEF InRow
    <3>2. i # 1 => i - 1 \in 1..Len(s)
      BY <1>2, <2>1
    <3>3. i # 1 => t[i - 1] = s[i - 1]
      BY <1>2, <3>2
    <3> QED
      BY <3>1, <3>3
  <2>2. CASE i = Len(s) + 1
    <3>1. CASE s = <<>>
      BY <1>1, <1>2, <2>2, <3>1, EmptySeq
    <3>2. CASE s # <<>>
      <4>1. Len(s) \in 1..Len(s)
        BY <1>2, <3>2, EmptySeq
      <4> QED
        BY <1>1, <1>2, <2>2, <3>2, <4>1
    <3> QED
      BY <3>1, <3>2
  <2> QED
    BY <1>2, <2>1, <2>2
<1>5. CutAt(t, cuts) /\ NoneBeyond(t, a + n)
  <2> SUFFICES ASSUME NEW i \in 1..Len(t)
               PROVE  t[i].last =< a + n /\ \A p \in cuts : ~(t[i].first =< p /\ p < t[i].last)
    BY DEF CutAt, NoneBeyond
  <2>1. CASE i \in 1..Len(s)
    BY <1>2, <1>3, <2>1 DEF CutAt, NoneBeyond
  <2>2. CASE i = Len(s) + 1
    BY <1>1, <1>2, <2>2 DEF OneAhead
  <2> QED
    BY <1>2, <2>1, <2>2
<1>6. t # <<>>
  BY <1>2, EmptySeq
<1> QED
  BY <1>1, <1>2, <1>4, <1>5, <1>6 DEF t, e

(* The writer r is s with a next split n bytes behind "at".                *)
IsNext(r, s, place, n) ==
  /\ r \in WriterRecs /\ r.next = n /\ r.dialled = s.dialled
  /\ r.cuts = IF n = 0 THEN s.cuts ELSE s.cuts \cup {place + n}

(* The writer with its next split.                                         *)
LEMMA NextIs ==
  ASSUME NEW s \in WriterRecs, NEW place \in Nat, NEW n \in Nat
  PROVE  IsNext(WithNext(s, place, n), s, place, n)
<1> USE DEF IsNext
<1>0. place + n \in Nat
  OBVIOUS
<1>1. CASE n = 0
  BY <1>1 DEF WithNext, WriterRecs
<1>2. CASE n # 0
  <2> DEFINE more == s.cuts \cup {place + n}
  <2>1. more \in SUBSET Nat
    BY <1>0 DEF WriterRecs
  <2>2. WithNext(s, place, n) = [s EXCEPT !.next = n, !.cuts = more]
    BY <1>2 DEF WithNext, WriterRecs
  <2> HIDE DEF more
  <2>3. WithNext(s, place, n) = [next |-> n, cuts |-> more, dialled |-> s.dialled]
    BY <2>2 DEF WriterRecs
  <2>4. s.dialled \in BOOLEAN
    BY DEF WriterRecs
  <2> QED
    BY <1>2, <2>1, <2>3, <2>4 DEF WriterRecs, more
<1> QED
  BY <1>1, <1>2

(* advance: the split points are those of before, and a next one when the  *)
(* split is used up.                                                       *)
LEMMA Advances ==
  ASSUME SplitTypeOK, NEW c \in Conns, sw[c].dialled, NEW n \in Nat, Advance(c, n),
         OneAhead(sw[c].cuts, Accepted(c), sw[c].next), sw[c].next > 0 => n =< sw[c].next
  PROVE  /\ iterator' \in Seq(Nat \ {0})
         /\ sw' \in [Conns -> WriterRecs]
         /\ \A x \in Conns : x # c => sw'[x] = sw[x]
         /\ sw'[c].dialled
         /\ OneAhead(sw'[c].cuts, Accepted(c) + n, sw'[c].next)
         /\ \A p \in sw'[c].cuts : p \in sw[c].cuts \/ p > Accepted(c) + n
<1>0. /\ iterator \in Seq(Nat \ {0})
      /\ sw \in [Conns -> WriterRecs]
      /\ segments \in [Conns -> Seq(SegmentRecs)]
  BY DEF SplitTypeOK
<1>1. /\ sw[c].next \in Nat /\ sw[c].cuts \in SUBSET Nat
      /\ sw[c].dialled \in BOOLEAN /\ Accepted(c) \in Nat
  BY <1>0, AcceptedIs DEF WriterRecs
<1>2. CASE sw[c].next = 0
  <2>1. UNCHANGED <<sw, iterator>>
    BY <1>2 DEF Advance
  <2>2. OneAhead(sw[c].cuts, Accepted(c) + n, sw[c].next)
    BY <1>1, <1>2 DEF OneAhead
  <2> QED
    BY <1>0, <2>1, <2>2
<1>3. CASE sw[c].next # 0 /\ n < sw[c].next
  <2> DEFINE r == [sw[c] EXCEPT !.next = sw[c].next - n]
  <2>1. sw' = [sw EXCEPT ![c] = r] /\ UNCHANGED iterator
    BY <1>3 DEF Advance
  <2>2. /\ r \in WriterRecs
        /\ r.next = sw[c].next - n /\ r.cuts = sw[c].cuts /\ r.dialled = sw[c].dialled
    <3>1. sw[c] \in WriterRecs /\ sw[c].next - n \in Nat
      BY <1>0, <1>1, <1>3
    <3> QED
      BY <3>1 DEF WriterRecs
  <2> HIDE DEF r
  <2>3. OneAhead(r.cuts, Accepted(c) + n, r.next)
    BY <1>1, <1>3, <2>2 DEF OneAhead
  <2> QED
    BY <1>0, <2>1, <2>2, <2>3
<1>4. CASE sw[c].next # 0 /\ ~(n < sw[c].next)
  <2> DEFINE r == WithNext(sw[c], Accepted(c) + n, Upcoming)
  <2>1. sw' = [sw EXCEPT ![c] = r] /\ Draw
    BY <1>4 DEF Advance
  <2>2. n = sw[c].next
    BY <1>1, <1>4
  <2>3. Upcoming \in Nat /\ iterator' \in Seq(Nat \ {0})
    BY <1>0, <2>1, IteratorDraws
  <2>4. /\ r \in WriterRecs
        /\ r.next = Upcoming /\ r.dialled = sw[c].dialled
        /\ r.cuts = IF Upcoming = 0 THEN sw[c].cuts ELSE sw[c].cuts \cup {Accepted(c) + n + Upcoming}
    <3> DEFINE place == Accepted(c) + n
               q == sw[c]
    <3>1. q \in WriterRecs /\ place \in Nat
      BY <1>0, <1>1
    <3> HIDE DEF place, q
    <3>2. /\ WithNext(q, place, Upcoming) \in WriterRecs /\ WithNext(q, place, Upcoming).next = Upcoming
          /\ WithNext(q, place, Upcoming).dialled = q.dialled
          /\ WithNext(q, place, Upcoming).cuts
               = IF Upcoming = 0 THEN q.cuts ELSE q.cuts \cup {place + Upcoming}
      <4>1. IsNext(WithNext(q, place, Upcoming), q, place, Upcoming)
        BY <2>3, <3>1, NextIs
      <4> QED
        BY <4>1 DEF IsNext
    <3> QED
      BY <3>2 DEF place, q
  <2> HIDE DEF r
  <2>5. OneAhead(r.cuts, Accepted(c) + n, r.next)
    BY <1>1, <2>2, <2>3, <2>4 DEF OneAhead
  <2>6. \A p \in r.cuts : p \in sw[c].cuts \/ p > Accepted(c) + n
    BY <1>1, <2>3, <2>4
  <2> QED
    BY <1>0, <2>1, <2>3, <2>4, <2>5, <2>6
<1> QED
  BY <1>2, <1>3, <1>4

(* A write of the socket in a call of the split writer.                    *)
(* A write to the socket, of either way to write.                          *)
LEMMA WroteKeeps ==
  ASSUME SplitInv, SplitSizes, NEW c \in Conns, calls[c].kind # "none", NEW len \in Nat, len > 0,
         len =< calls[c].left, sw[c].next > 0 => len =< sw[c].next,
         NEW n \in 0 .. len, Wrote(c, len, n)
  PROVE  SplitInv'
<1> DEFINE a == Accepted(c)
           s == segments[c]
           h == IF dis[c].left = 0 THEN 1 ELSE dis[c].hops
           e == [first |-> a + 1, last |-> a + n, hops |-> h]
           t == segments'[c]
<1>0. /\ SplitTypeOK /\ CutInv /\ HopInv /\ CallInv
      /\ segments \in [Conns -> Seq(SegmentRecs)]
      /\ dis \in [Conns -> [left : Int, hops : Nat]] /\ dead \in [Conns -> BOOLEAN]
      /\ calls \in [Conns -> [kind : {"none", "write", "read"}, left : Nat]]
      /\ SplitStreamLen \in Nat /\ DefaultHops \in Nat /\ DisorderAt \in Nat
  BY SplitSizes DEF SplitInv, SplitTypeOK
<1>1. /\ a \in Nat /\ s \in Seq(SegmentRecs) /\ Len(s) \in Nat
      /\ sw[c].next \in Nat /\ sw[c].cuts \in SUBSET Nat /\ dis[c].hops = DefaultHops /\ dis[c].left \in Int
      /\ h \in Nat /\ sw[c].dialled /\ ~dead[c] /\ n \in Nat
  <2>1. a \in Nat /\ s \in Seq(SegmentRecs) /\ Len(s) \in Nat
    BY <1>0, AcceptedIs
  <2>2. sw[c].next \in Nat /\ sw[c].cuts \in SUBSET Nat /\ dis[c].left \in Int
    BY <1>0 DEF SplitTypeOK, WriterRecs
  <2>3. sw[c].dialled /\ ~dead[c] /\ dis[c].hops = DefaultHops
    BY <1>0 DEF CallInv, HopInv
  <2> QED
    BY <1>0, <2>1, <2>2, <2>3
<1>2. /\ InRow(s) /\ CutAt(s, sw[c].cuts) /\ NoneBeyond(s, a) /\ OneAhead(sw[c].cuts, a, sw[c].next)
      /\ Disordered(s)
      /\ dis[c].left = IF Len(s) =< DisorderAt THEN DisorderAt - Len(s) ELSE -1
  BY <1>0, <1>1 DEF CutInv, HopInv
<1>3. /\ segments' = IF n = 0 THEN segments ELSE [segments EXCEPT ![c] = Append(s, e)]
      /\ dead' = [dead EXCEPT ![c] = n < len]
      /\ Advance(c, n)
      /\ IF n < len \/ n = calls[c].left THEN CallEnds(c) ELSE calls' = [calls EXCEPT ![c].left = @ - n]
  BY DEF Wrote, SocketWrite
<1>4. /\ dis' \in [Conns -> [left : Int, hops : Nat]]
      /\ dis'[c].left = IF dis[c].left > -1 THEN dis[c].left - 1 ELSE dis[c].left
      /\ dis'[c].hops = dis[c].hops
      /\ \A x \in Conns : x # c => dis'[x] = dis[x]
  <2> DEFINE left == IF dis[c].left > -1 THEN dis[c].left - 1 ELSE dis[c].left
             r == [left |-> left, hops |-> dis[c].hops]
  <2>1. left \in Int /\ dis[c].hops \in Nat
    BY <1>0, <1>1
  <2>2. dis' = [dis EXCEPT ![c] = r]
    BY <1>0 DEF Wrote, SocketWrite, HopsAfter
  <2> HIDE DEF left
  <2>3. r \in [left : Int, hops : Nat] /\ r.left = left /\ r.hops = dis[c].hops
    BY <2>1
  <2> HIDE DEF r
  <2> QED
    BY <1>0, <2>2, <2>3 DEF left
<1> HIDE DEF a, h, e
<1>5. /\ iterator' \in Seq(Nat \ {0})
      /\ sw' \in [Conns -> WriterRecs]
      /\ \A x \in Conns : x # c => sw'[x] = sw[x]
      /\ sw'[c].dialled
      /\ OneAhead(sw'[c].cuts, a + n, sw'[c].next)
      /\ \A p \in sw'[c].cuts : p \in sw[c].cuts \/ p > a + n
  <2>1. sw[c].next > 0 => n =< sw[c].next
    BY <1>1
  <2> QED
    BY <1>0, <1>1, <1>2, <1>3, <2>1, Advances DEF a
<1>6. /\ t \in Seq(SegmentRecs) /\ InRow(t) /\ CutAt(t, sw[c].cuts) /\ NoneBeyond(t, a + n)
      /\ Accepted(c)' = a + n /\ Disordered(t)
      /\ n > 0 => Len(t) = Len(s) + 1
      /\ segments' \in [Conns -> Seq(SegmentRecs)]
      /\ \A x \in Conns : x # c => segments'[x] = segments[x]
  <2>1. CASE n = 0
    <3>1. segments' = segments /\ a + n = a
      BY <1>1, <1>3, <2>1
    <3>2. Accepted(c)' = a
      BY <3>1 DEF Accepted, a
    <3> QED
      BY <1>0, <1>1, <1>2, <2>1, <3>1, <3>2
  <2>2. CASE n # 0
    <3>1. n > 0 /\ (sw[c].next > 0 => n =< sw[c].next)
      BY <1>1, <2>2
    <3>2. (s = <<>> => a = 0) /\ (s # <<>> => a = s[Len(s)].last)
      BY DEF Accepted, a
    <3> DEFINE u == Append(s, e)
    <3>3. /\ u \in Seq(SegmentRecs) /\ Len(u) = Len(s) + 1
          /\ \A i \in 1..Len(s) : u[i] = s[i]
          /\ u[Len(s) + 1] = e
          /\ u # <<>> /\ u[Len(u)].last = a + n
          /\ InRow(u) /\ CutAt(u, sw[c].cuts) /\ NoneBeyond(u, a + n)
      BY <1>1, <1>2, <3>1, <3>2, SegmentJoins DEF e
    <3> HIDE DEF u
    <3>4. t = u /\ segments' = [segments EXCEPT ![c] = u]
      BY <1>0, <1>3, <2>2 DEF u
    <3>5. Accepted(c)' = a + n
      BY <3>3, <3>4 DEF Accepted
    <3>6. Disordered(u)
      <4> SUFFICES ASSUME NEW i \in 1..Len(u)
                   PROVE  u[i].hops = IF i = DisorderAt + 1 THEN 1 ELSE DefaultHops
        BY DEF Disordered
      <4>1. CASE i \in 1..Len(s)
        BY <1>2, <3>3, <4>1 DEF Disordered
      <4>2. CASE i = Len(s) + 1
        <5>1. u[i].hops = IF dis[c].left = 0 THEN 1 ELSE DefaultHops
          BY <1>1, <3>3, <4>2 DEF e, h
        <5>2. dis[c].left = 0 <=> Len(s) = DisorderAt
          BY <1>0, <1>1, <1>2
        <5> QED
          BY <1>0, <1>1, <4>2, <5>1, <5>2
      <4> QED
        BY <1>1, <3>3, <4>1, <4>2
    <3> QED
      BY <1>0, <3>3, <3>4, <3>5, <3>6
  <2> QED
    BY <2>1, <2>2
<1>7. /\ calls' \in [Conns -> [kind : {"none", "write", "read"}, left : Nat]]
      /\ \A x \in Conns : x # c => calls'[x] = calls[x]
      /\ calls'[c].kind # "none" => n = len /\ calls'[c].left > 0
  <2>1. calls[c].left \in Nat
    BY <1>0
  <2>2. CASE n < len \/ n = calls[c].left
    <3>1. calls' = [calls EXCEPT ![c] = NoCallRuns]
      BY <1>3, <2>2 DEF CallEnds
    <3>2. /\ NoCallRuns \in [kind : {"none", "write", "read"}, left : Nat]
          /\ NoCallRuns.kind = "none"
      BY DEF NoCallRuns
    <3> QED
      BY <1>0, <3>1, <3>2
  <2>3. CASE ~(n < len \/ n = calls[c].left)
    <3>1. n = len /\ n # calls[c].left /\ n =< calls[c].left /\ n \in Nat
      BY <1>1, <2>1, <2>3
    <3>3. calls[c].left - n \in Nat /\ calls[c].left - n > 0
      BY <2>1, <3>1
    <3>2. calls' = [calls EXCEPT ![c].left = calls[c].left - n]
      BY <1>3, <2>3
    <3> QED
      BY <1>0, <3>1, <3>2, <3>3
  <2> QED
    BY <2>2, <2>3
<1> HIDE DEF t
<1>8. SplitTypeOK'
  <2>1. dead' \in [Conns -> BOOLEAN]
    BY <1>0, <1>3
  <2> QED
    BY <1>4, <1>5, <1>6, <1>7, <2>1 DEF SplitTypeOK
<1>9. \A x \in Conns : x # c => Accepted(x)' = Accepted(x)
  BY <1>6 DEF Accepted
<1>10. CutInv'
  <2> SUFFICES ASSUME NEW x \in Conns
               PROVE  /\ InRow(segments'[x]) /\ CutAt(segments'[x], sw'[x].cuts)
                      /\ NoneBeyond(segments'[x], Accepted(x)')
                      /\ OneAhead(sw'[x].cuts, Accepted(x)', sw'[x].next)
                      /\ ~sw'[x].dialled => segments'[x] = <<>> /\ sw'[x].cuts = {}
    BY DEF CutInv, InRow, CutAt, NoneBeyond, OneAhead
  <2>1. CASE x # c
    BY <1>0, <1>5, <1>6, <1>9, <2>1 DEF CutInv
  <2>2. CASE x = c
    <3>1. CutAt(t, sw'[c].cuts)
      <4>1. \A i \in 1..Len(t) : t[i].last =< a + n /\ t[i].last \in Nat /\ t[i].first \in Nat
        <5>1. \A i \in 1..Len(t) : t[i] \in SegmentRecs
          BY <1>6, ElementOfSeq
        <5> QED
          BY <1>6, <5>1 DEF NoneBeyond, SegmentRecs
      <4>2. \A p \in sw'[c].cuts : p \in Nat
        BY <1>5 DEF WriterRecs
      <4> SUFFICES ASSUME NEW i \in 1..Len(t), NEW p \in sw'[c].cuts
                   PROVE  ~(t[i].first =< p /\ p < t[i].last)
        BY DEF CutAt
      <4>3. CASE p \in sw[c].cuts
        BY <1>6, <4>3 DEF CutAt
      <4>4. CASE p > a + n
        <5>1. t[i].last \in Nat /\ t[i].last =< a + n /\ p \in Nat /\ a + n \in Nat
          BY <1>1, <4>1, <4>2
        <5> QED
          BY <4>4, <5>1
      <4> QED
        BY <1>5, <4>3, <4>4
    <3> QED
      BY <1>5, <1>6, <2>2, <3>1 DEF t
  <2> QED
    BY <2>1, <2>2
<1>11. HopInv'
  <2> SUFFICES ASSUME NEW x \in Conns
               PROVE  /\ Disordered(segments'[x]) /\ dis'[x].hops = DefaultHops
                      /\ ~dead'[x] => dis'[x].left =
                           IF Len(segments'[x]) =< DisorderAt THEN DisorderAt - Len(segments'[x]) ELSE -1
    BY DEF HopInv, Disordered
  <2>1. CASE x # c
    BY <1>0, <1>3, <1>4, <1>6, <2>1 DEF HopInv
  <2>2. CASE x = c
    <3>1. ~dead'[c] => n = len
      <4>1. dead'[c] <=> n < len
        BY <1>0, <1>3
      <4> QED
        BY <4>1
    <3>2. n = len => Len(t) = Len(s) + 1
      BY <1>6
    <3>3. n = len => dis'[c].left = IF Len(t) =< DisorderAt THEN DisorderAt - Len(t) ELSE -1
      <4>1. Len(s) =< DisorderAt => dis[c].left \in Nat /\ dis[c].left = DisorderAt - Len(s)
        BY <1>0, <1>1, <1>2
      <4>2. Len(s) > DisorderAt => dis[c].left = -1
        BY <1>0, <1>1, <1>2
      <4>3. CASE Len(s) =< DisorderAt
        <5>1. dis'[c].left = DisorderAt - Len(s) - 1
          BY <1>4, <4>1, <4>3
        <5> SUFFICES ASSUME n = len
                     PROVE  dis'[c].left = IF Len(t) =< DisorderAt THEN DisorderAt - Len(t) ELSE -1
          OBVIOUS
        <5>2. Len(t) = Len(s) + 1
          BY <3>2
        <5>3. Len(s) + 1 =< DisorderAt => DisorderAt - (Len(s) + 1) = DisorderAt - Len(s) - 1
          BY <1>0, <1>1
        <5>4. ~(Len(s) + 1 =< DisorderAt) => DisorderAt - Len(s) - 1 = -1
          BY <1>0, <1>1, <4>3
        <5> QED
          BY <5>1, <5>2, <5>3, <5>4
      <4>4. CASE Len(s) > DisorderAt
        <5>1. dis'[c].left = -1
          BY <1>4, <4>2, <4>4
        <5> QED
          BY <1>0, <1>1, <3>2, <4>4, <5>1
      <4> QED
        BY <1>0, <1>1, <4>3, <4>4
    <3> QED
      BY <1>1, <1>4, <1>6, <2>2, <3>1, <3>3 DEF t
  <2> QED
    BY <2>1, <2>2
<1>12. CallInv'
  <2> SUFFICES ASSUME NEW x \in Conns, calls'[x].kind # "none"
               PROVE  ~dead'[x] /\ calls'[x].left > 0 /\ sw'[x].dialled
    BY DEF CallInv
  <2>1. CASE x # c
    BY <1>0, <1>3, <1>5, <1>7, <2>1 DEF CallInv
  <2>2. CASE x = c
    BY <1>0, <1>1, <1>3, <1>5, <1>7, <2>2
  <2> QED
    BY <2>1, <2>2
<1> QED
  BY <1>8, <1>10, <1>11, <1>12 DEF SplitInv

(* The inductive invariant of any number of connections of one dialer.     *)
THEOREM SplitInvariance == SplitSpec => []SplitInv
<1>1. SplitInit => SplitInv
  <2> SUFFICES ASSUME SplitInit PROVE SplitInv
    OBVIOUS
  <2>0. SplitStreamLen \in Nat /\ DefaultHops \in Nat /\ DisorderAt \in Nat /\ SplitLengths \in Seq(Nat \ {0})
    BY SplitSizes
  <2>1. \A c \in Conns : segments[c] = <<>> /\ Len(segments[c]) = 0 /\ Accepted(c) = 0
    BY DEF SplitInit, Accepted
  <2>2. SplitTypeOK
    BY <2>0, EmptySeq DEF SplitInit, SplitTypeOK, NoSegments, NoCallRuns, WriterRecs
  <2>3. CutInv
    BY <2>1 DEF SplitInit, CutInv, NoSegments, InRow, CutAt, NoneBeyond, OneAhead
  <2>4. HopInv /\ CallInv
    BY <2>0, <2>1 DEF SplitInit, HopInv, CallInv, Disordered, NoCallRuns
  <2> QED
    BY <2>2, <2>3, <2>4 DEF SplitInv
<1>2. SplitInv /\ [SplitNext]_splitVars => SplitInv'
  <2> SUFFICES ASSUME SplitInv, [SplitNext]_splitVars PROVE SplitInv'
    OBVIOUS
  <2>0. SplitTypeOK /\ CutInv /\ HopInv /\ CallInv
    BY DEF SplitInv
  <2>1. ASSUME NEW c \in Conns, DialStream(c) PROVE SplitInv'
    <3> DEFINE r == WithNext([sw[c] EXCEPT !.dialled = TRUE], 0, Upcoming)
    <3>1. /\ sw' = [sw EXCEPT ![c] = r] /\ Draw /\ UNCHANGED <<dis, calls, segments, dead>>
          /\ ~sw[c].dialled
      BY <2>1 DEF DialStream
    <3>2. /\ Upcoming \in Nat /\ iterator' \in Seq(Nat \ {0})
          /\ sw \in [Conns -> WriterRecs]
      BY <2>0, <3>1, IteratorDraws DEF SplitTypeOK
    <3>3. segments[c] = <<>> /\ sw[c].cuts = {} /\ Accepted(c) = 0
      BY <2>0, <3>1 DEF CutInv, Accepted
    <3>4. /\ r \in WriterRecs
          /\ r.next = Upcoming /\ r.dialled
          /\ r.cuts = IF Upcoming = 0 THEN {} ELSE {0 + Upcoming}
      <4> DEFINE q == [sw[c] EXCEPT !.dialled = TRUE]
      <4>0. 0 \in Nat
        OBVIOUS
      <4>1. sw[c] \in WriterRecs
        BY <3>2
      <4>2. q \in WriterRecs /\ q.cuts = sw[c].cuts /\ q.dialled
        BY <4>1 DEF WriterRecs
      <4> HIDE DEF q
      <4>3. /\ WithNext(q, 0, Upcoming) \in WriterRecs /\ WithNext(q, 0, Upcoming).next = Upcoming
            /\ WithNext(q, 0, Upcoming).dialled = q.dialled
            /\ WithNext(q, 0, Upcoming).cuts
                 = IF Upcoming = 0 THEN q.cuts ELSE q.cuts \cup {0 + Upcoming}
        <5>1. IsNext(WithNext(q, 0, Upcoming), q, 0, Upcoming)
          BY <3>2, <4>0, <4>2, NextIs
        <5> QED
          BY <5>1 DEF IsNext
      <4> QED
        BY <3>3, <4>2, <4>3 DEF q
    <3> HIDE DEF r
    <3>5. SplitTypeOK'
      BY <2>0, <3>1, <3>2, <3>4 DEF SplitTypeOK
    <3>6. \A x \in Conns : Accepted(x)' = Accepted(x)
      BY <3>1 DEF Accepted
    <3>7. CutInv'
      <4> SUFFICES ASSUME NEW x \in Conns
                   PROVE  /\ InRow(segments[x]) /\ CutAt(segments[x], sw'[x].cuts)
                          /\ NoneBeyond(segments[x], Accepted(x))
                          /\ OneAhead(sw'[x].cuts, Accepted(x), sw'[x].next)
                          /\ ~sw'[x].dialled => segments[x] = <<>> /\ sw'[x].cuts = {}
        BY <3>1, <3>6 DEF CutInv, InRow, CutAt, NoneBeyond, OneAhead
      <4>1. CASE x # c
        BY <2>0, <3>1, <3>2, <4>1 DEF CutInv
      <4>2. CASE x = c
        <5>1. sw'[c] = r
          BY <3>1, <3>2
        <5>2. OneAhead(r.cuts, 0, r.next)
          BY <3>2, <3>4 DEF OneAhead
        <5>3. \A cuts : InRow(<<>>) /\ CutAt(<<>>, cuts) /\ NoneBeyond(<<>>, 0)
          BY DEF InRow, CutAt, NoneBeyond
        <5> QED
          BY <3>3, <3>4, <4>2, <5>1, <5>2, <5>3
      <4> QED
        BY <4>1, <4>2
    <3>8. HopInv'
      BY <2>0, <3>1 DEF HopInv
    <3>9. CallInv'
      BY <2>0, <3>1, <3>2, <3>4 DEF CallInv
    <3> QED
      BY <3>5, <3>7, <3>8, <3>9 DEF SplitInv
  <2>2. ASSUME NEW c \in Conns, BeginCall(c) PROVE SplitInv'
    <3>1. PICK k \in {"write", "read"}, n \in 1 .. SplitStreamLen - Accepted(c) :
            calls' = [calls EXCEPT ![c] = [kind |-> k, left |-> n]]
      BY <2>2 DEF BeginCall
    <3>2. /\ UNCHANGED <<iterator, sw, dis, segments, dead>> /\ sw[c].dialled /\ ~dead[c]
      BY <2>2 DEF BeginCall
    <3>3. n \in Nat /\ n > 0
      <4>1. Accepted(c) \in Nat /\ SplitStreamLen \in Nat
        BY <2>0, AcceptedIs, SplitSizes DEF SplitTypeOK
      <4> QED
        BY <4>1
    <3>4. SplitTypeOK'
      BY <2>0, <3>1, <3>2, <3>3 DEF SplitTypeOK
    <3>5. CutInv' /\ HopInv'
      BY <2>0, <3>2 DEF CutInv, HopInv, Accepted
    <3>6. CallInv'
      BY <2>0, <3>1, <3>2, <3>3 DEF CallInv, SplitTypeOK
    <3> QED
      BY <3>4, <3>5, <3>6 DEF SplitInv
  <2>3. ASSUME NEW c \in Conns, WriteSegment(c) PROVE SplitInv'
    <3> DEFINE len == IF 0 < sw[c].next /\ sw[c].next < calls[c].left THEN sw[c].next ELSE calls[c].left
    <3>1. sw[c].next \in Nat /\ calls[c].left \in Nat
      BY <2>0 DEF SplitTypeOK, WriterRecs
    <3>2. calls[c].kind # "none" /\ calls[c].left > 0
      BY <2>0, <2>3 DEF WriteSegment, CallInv
    <3>3. len \in Nat /\ len > 0 /\ len =< calls[c].left /\ (sw[c].next > 0 => len =< sw[c].next)
      BY <3>1, <3>2
    <3>4. PICK n \in 0 .. len : Wrote(c, len, n)
      BY <2>3 DEF WriteSegment
    <3> HIDE DEF len
    <3> QED
      BY <3>2, <3>3, <3>4, SplitSizes, WroteKeeps
  <2>4. ASSUME NEW c \in Conns, ReadFromSegment(c) PROVE SplitInv'
    <3>1. sw[c].next \in Nat /\ calls[c].left \in Nat
      BY <2>0 DEF SplitTypeOK, WriterRecs
    <3>2. calls[c].kind # "none" /\ calls[c].left > 0
      BY <2>0, <2>4 DEF ReadFromSegment, CallInv
    <3> DEFINE most == IF sw[c].next > 0 THEN Min({sw[c].next, calls[c].left}) ELSE calls[c].left
    <3>3. most \in Nat /\ most =< calls[c].left /\ (sw[c].next > 0 => most =< sw[c].next)
      BY <3>1, SmallerOf
    <3>4. PICK len \in 1 .. most : \E n \in {0, len} : Wrote(c, len, n)
      BY <2>4 DEF ReadFromSegment
    <3> HIDE DEF most
    <3>5. len \in Nat /\ len > 0 /\ len =< calls[c].left /\ (sw[c].next > 0 => len =< sw[c].next)
      BY <3>1, <3>3
    <3>6. PICK n \in 0 .. len : Wrote(c, len, n)
      BY <3>4, <3>5
    <3> QED
      BY <3>2, <3>5, <3>6, SplitSizes, WroteKeeps
  <2>5. CASE UNCHANGED splitVars
    BY <2>0, <2>5 DEF splitVars, SplitInv, SplitTypeOK, CutInv, HopInv, CallInv, Accepted
  <2> QED
    BY <2>1, <2>2, <2>3, <2>4, <2>5 DEF SplitNext
<1> QED
  BY <1>1, <1>2, PTL DEF SplitSpec

(* The writers of transport/split and x/disorder stacked: no segment       *)
(* crosses a split point, and the one segment that is to be disordered,    *)
(* and no other, goes out with a hop limit of 1, for any splits, any       *)
(* writes, partial and failed ones too, and any number of connections.     *)
THEOREM SegmentsAreAsAsked == SplitSpec => []SegmentsAsAsked
<1>1. SplitInv => SegmentsAsAsked
  <2> SUFFICES ASSUME SplitInv PROVE SegmentsAsAsked
    OBVIOUS
  <2>1. \A c \in Conns : DOMAIN segments[c] = 1..Len(segments[c])
    BY LenProperties DEF SplitInv, SplitTypeOK
  <2>2. NoSegmentCrossesSplit
    BY <2>1 DEF NoSegmentCrossesSplit, SplitInv, CutInv, InRow, CutAt
  <2>3. OnlyOneSegmentDisordered
    BY <2>1 DEF OnlyOneSegmentDisordered, SplitInv, HopInv, Disordered
  <2> QED
    BY <2>2, <2>3 DEF SegmentsAsAsked
<1> QED
  BY <1>1, SplitInvariance, PTL

-----------------------------------------------------------------------------
(***************************************************************************)
(* Socks5: how far a request has read, by the field it reads next.         *)
(***************************************************************************)
ReplyAt == IF cred = "none" THEN 2 ELSE 4

(* Every variable keeps its type.                                          *)
SocksTypeOK ==
  /\ cred \in {"none", "userpass"} /\ script \in Scripts(cred)
  /\ granted = GrantLength(script)
  /\ arrived \in 0 .. Len(script) /\ pos \in 0 .. arrived

(* The reply grants the request.                                           *)
Grants == ReplyAt + 3 <= pos /\ script[ReplyAt + 2] = "rep0"

(* The field read next tells how far the client has read and what it saw.  *)
FieldInv ==
  /\ expect = "method" => pos = 0
  /\ expect = "auth" => pos = 2 /\ cred = "userpass"
  /\ expect = "reply" => pos = ReplyAt
  /\ expect = "atyp" => pos = ReplyAt + 3 /\ Grants
  /\ expect = "length" => pos = ReplyAt + 4 /\ Grants /\ script[ReplyAt + 4] = "name"
  /\ expect \in {"ip4", "ip6"} => pos = ReplyAt + 4 /\ Grants /\ script[ReplyAt + 4] = expect
  /\ expect \in {"len1", "len3"} => /\ pos = ReplyAt + 5 /\ Grants
                                    /\ script[ReplyAt + 4] = "name" /\ script[pos] = expect
  /\ expect = "port" => Grants /\ pos = granted - 2
  /\ expect = "done" => Grants /\ pos = granted

(* The inductive invariant of a SOCKS5 connection.                         *)
SocksInv == SocksTypeOK /\ FieldInv /\ DatagramIsWhole

(* u is s with t behind it.                                                *)
IsJoin(u, s, t) ==
  /\ Len(u) = Len(s) + Len(t)
  /\ \A i \in 1 .. Len(s) : u[i] = s[i]
  /\ \A i \in 1 .. Len(t) : u[Len(s) + i] = t[i]

(* What the operator of sequences makes of two.                            *)
LEMMA Join ==
  ASSUME NEW S, NEW s \in Seq(S), NEW t \in Seq(S)
  PROVE  s \o t \in Seq(S) /\ IsJoin(s \o t, s, t)
<1>1. s \o t \in Seq(S) /\ Len(s \o t) = Len(s) + Len(t)
  BY ConcatProperties
<1>2. Len(s) \in Nat /\ Len(t) \in Nat
  OBVIOUS
<1>3. ASSUME NEW i \in 1 .. Len(s) PROVE (s \o t)[i] = s[i]
  BY <1>2, <1>3, ConcatProperties
<1>4. ASSUME NEW i \in 1 .. Len(t) PROVE (s \o t)[Len(s) + i] = t[i]
  <2>1. Len(s) + i \in 1 .. Len(s) + Len(t) /\ ~(Len(s) + i <= Len(s)) /\ (Len(s) + i) - Len(s) = i
    BY <1>2
  <2> QED BY <2>1, ConcatProperties
<1> QED BY <1>1, <1>3, <1>4 DEF IsJoin

(* The bytes by name.                                                      *)
Octet == {"v4", "v5", "v1", "m0", "m2", "mFF", "ok", "bad", "rep0", "refused", "rsv", "data",
          "ip4", "ip6", "name", "len1", "len3", "x", "p", "0", "frag0"}

(* A run of one byte.                                                      *)
LEMMA BytesRun ==
  ASSUME NEW b \in Octet, NEW n \in Nat
  PROVE  Bytes(b, n) \in Seq(Octet) /\ Len(Bytes(b, n)) = n /\ \A i \in 1 .. n : Bytes(b, n)[i] = b
<1>1. Bytes(b, n) \in [1 .. n -> Octet]
  BY DEF Bytes
<1>2. Bytes(b, n) \in Seq(Octet)
  BY <1>1, IsASeq
<1>3. Len(Bytes(b, n)) = n
  BY <1>1, <1>2, LenProperties
<1> QED BY <1>2, <1>3 DEF Bytes

(* A header, a run of bytes and two more: how every address is laid out.   *)
LEMMA AddressLayout ==
  ASSUME NEW h \in Seq(Octet), NEW n \in Nat
  PROVE  /\ h \o Bytes("x", n) \o Bytes("p", 2) \in Seq(Octet)
         /\ Len(h \o Bytes("x", n) \o Bytes("p", 2)) = Len(h) + n + 2
         /\ \A i \in 1 .. Len(h) : (h \o Bytes("x", n) \o Bytes("p", 2))[i] = h[i]
<1> DEFINE x == Bytes("x", n)
           p == Bytes("p", 2)
           hx == h \o x
           addr == hx \o p
<1>1. x \in Seq(Octet) /\ Len(x) = n /\ p \in Seq(Octet) /\ Len(p) = 2
  BY BytesRun DEF Octet
<1> HIDE DEF x, p
<1>2. hx \in Seq(Octet) /\ IsJoin(hx, h, x)
  BY <1>1, Join
<1> HIDE DEF hx
<1>3. addr \in Seq(Octet) /\ IsJoin(addr, hx, p)
  BY <1>1, <1>2, Join
<1> HIDE DEF addr
<1>4. Len(h) \in Nat
  OBVIOUS
<1>5. Len(addr) = Len(h) + n + 2
  BY <1>1, <1>2, <1>3, <1>4 DEF IsJoin
<1>6. ASSUME NEW i \in 1 .. Len(h) PROVE addr[i] = h[i]
  BY <1>1, <1>2, <1>3, <1>4 DEF IsJoin
<1> QED BY <1>3, <1>5, <1>6 DEF addr, hx, x, p

(* An address is a sequence of bytes whose first two tell its length.      *)
LEMMA Addresses ==
  /\ AddrKinds = {"ip4", "ip6", "name", "unit"}
  /\ \A k \in AddrKinds : Addr[k] \in Seq(Octet)
  /\ Len(Addr["ip4"]) = 7 /\ Addr["ip4"][1] = "ip4"
  /\ Len(Addr["ip6"]) = 19 /\ Addr["ip6"][1] = "ip6"
  /\ Len(Addr["name"]) = 7 /\ Addr["name"][1] = "name" /\ Addr["name"][2] = "len3"
  /\ Len(Addr["unit"]) = 5 /\ Addr["unit"][1] = "name" /\ Addr["unit"][2] = "len1"
<1>1. AddrKinds = {"ip4", "ip6", "name", "unit"}
  BY DEF AddrKinds, Addr
<1>2. /\ Addr["ip4"] \in Seq(Octet) /\ Len(Addr["ip4"]) = 7 /\ Addr["ip4"][1] = "ip4"
  <2> DEFINE h == <<"ip4">>
  <2>1. h \in Seq(Octet) /\ Len(h) = 1 /\ h[1] = "ip4"
    BY DEF Octet
  <2> DEFINE a == h \o Bytes("x", 4) \o Bytes("p", 2)
  <2>2. Addr["ip4"] = a
    BY DEF Addr
  <2> HIDE DEF h
  <2>3. a \in Seq(Octet) /\ Len(a) = Len(h) + 4 + 2 /\ \A i \in 1 .. Len(h) : a[i] = h[i]
    BY <2>1, AddressLayout
  <2>4. 1 \in 1 .. Len(h) /\ Len(h) \in 1 .. Len(h)
    BY <2>1
  <2> HIDE DEF a
  <2> QED BY <2>1, <2>2, <2>3, <2>4
<1>3. /\ Addr["ip6"] \in Seq(Octet) /\ Len(Addr["ip6"]) = 19 /\ Addr["ip6"][1] = "ip6"
  <2> DEFINE h == <<"ip6">>
  <2>1. h \in Seq(Octet) /\ Len(h) = 1 /\ h[1] = "ip6"
    BY DEF Octet
  <2> DEFINE a == h \o Bytes("x", 16) \o Bytes("p", 2)
  <2>2. Addr["ip6"] = a
    BY DEF Addr
  <2> HIDE DEF h
  <2>3. a \in Seq(Octet) /\ Len(a) = Len(h) + 16 + 2 /\ \A i \in 1 .. Len(h) : a[i] = h[i]
    BY <2>1, AddressLayout
  <2>4. 1 \in 1 .. Len(h) /\ Len(h) \in 1 .. Len(h)
    BY <2>1
  <2> HIDE DEF a
  <2> QED BY <2>1, <2>2, <2>3, <2>4
<1>4. /\ Addr["name"] \in Seq(Octet) /\ Len(Addr["name"]) = 7
      /\ Addr["name"][1] = "name" /\ Addr["name"][2] = "len3"
  <2> DEFINE h == <<"name", "len3">>
  <2>1. h \in Seq(Octet) /\ Len(h) = 2 /\ h[1] = "name" /\ h[2] = "len3"
    BY DEF Octet
  <2> DEFINE a == h \o Bytes("x", 3) \o Bytes("p", 2)
  <2>2. Addr["name"] = a
    BY DEF Addr
  <2> HIDE DEF h
  <2>3. a \in Seq(Octet) /\ Len(a) = Len(h) + 3 + 2 /\ \A i \in 1 .. Len(h) : a[i] = h[i]
    BY <2>1, AddressLayout
  <2>4. 1 \in 1 .. Len(h) /\ Len(h) \in 1 .. Len(h)
    BY <2>1
  <2> HIDE DEF a
  <2> QED BY <2>1, <2>2, <2>3, <2>4
<1>5. /\ Addr["unit"] \in Seq(Octet) /\ Len(Addr["unit"]) = 5
      /\ Addr["unit"][1] = "name" /\ Addr["unit"][2] = "len1"
  <2> DEFINE h == <<"name", "len1">>
  <2>1. h \in Seq(Octet) /\ Len(h) = 2 /\ h[1] = "name" /\ h[2] = "len1"
    BY DEF Octet
  <2> DEFINE a == h \o Bytes("x", 1) \o Bytes("p", 2)
  <2>2. Addr["unit"] = a
    BY DEF Addr
  <2> HIDE DEF h
  <2>3. a \in Seq(Octet) /\ Len(a) = Len(h) + 1 + 2 /\ \A i \in 1 .. Len(h) : a[i] = h[i]
    BY <2>1, AddressLayout
  <2>4. 1 \in 1 .. Len(h) /\ Len(h) \in 1 .. Len(h)
    BY <2>1
  <2> HIDE DEF a
  <2> QED BY <2>1, <2>2, <2>3, <2>4
<1> QED BY <1>1, <1>2, <1>3, <1>4, <1>5

(* What the first two bytes of an address say about its length.            *)
LEMMA AddressKind ==
  ASSUME NEW k \in AddrKinds
  PROVE  /\ Len(Addr[k]) \in Nat /\ Len(Addr[k]) >= 5
         /\ \/ Addr[k][1] = "ip4" /\ Len(Addr[k]) = 7
            \/ Addr[k][1] = "ip6" /\ Len(Addr[k]) = 19
            \/ Addr[k][1] = "name" /\ Addr[k][2] = "len3" /\ Len(Addr[k]) = 7
            \/ Addr[k][1] = "name" /\ Addr[k][2] = "len1" /\ Len(Addr[k]) = 5
<1>1. k = "ip4" \/ k = "ip6" \/ k = "name" \/ k = "unit"
  BY Addresses
<1>2. CASE k = "ip4"
  BY <1>2, Addresses
<1>3. CASE k = "ip6"
  BY <1>3, Addresses
<1>4. CASE k = "name"
  BY <1>4, Addresses
<1>5. CASE k = "unit"
  BY <1>5, Addresses
<1> QED BY <1>1, <1>2, <1>3, <1>4, <1>5

-----------------------------------------------------------------------------
(* What the server sends.                                                  *)

(* What goes before the reply of a server that accepts the client.         *)
HeadOf(c) == IF c = "none" THEN <<"v5", "m0">> \o <<>> ELSE <<"v5", "m2">> \o <<"v1", "ok">>

(* Where the reply begins.                                                 *)
LEMMA Heads ==
  ASSUME NEW c \in {"none", "userpass"}
  PROVE  /\ HeadOf(c) \in Seq(Octet) /\ Len(HeadOf(c)) = IF c = "none" THEN 2 ELSE 4
         /\ HeadOf(c)[1] = "v5" /\ HeadOf(c)[2] = IF c = "none" THEN "m0" ELSE "m2"
<1>1. CASE c = "none"
  <2> DEFINE m == <<"v5", "m0">>
  <2>1. m \in Seq(Octet) /\ Len(m) = 2 /\ m[1] = "v5" /\ m[2] = "m0"
    BY DEF Octet
  <2>2. HeadOf(c) = m \o <<>>
    BY <1>1 DEF HeadOf
  <2> HIDE DEF m
  <2>3. m \o <<>> = m
    BY <2>1, ConcatEmptySeq
  <2> QED BY <1>1, <2>1, <2>2, <2>3
<1>2. CASE c = "userpass"
  <2> DEFINE m == <<"v5", "m2">>
             a == <<"v1", "ok">>
  <2>1. m \in Seq(Octet) /\ Len(m) = 2 /\ m[1] = "v5" /\ m[2] = "m2" /\ a \in Seq(Octet) /\ Len(a) = 2
    BY DEF Octet
  <2> DEFINE h == m \o a
  <2>2. HeadOf(c) = h
    BY <1>2 DEF HeadOf
  <2> HIDE DEF m, a
  <2>3. h \in Seq(Octet) /\ IsJoin(h, m, a)
    BY <2>1, Join
  <2> HIDE DEF h
  <2>4. Len(h) = 4 /\ h[1] = m[1] /\ h[2] = m[2]
    BY <2>1, <2>3 DEF IsJoin
  <2> QED BY <1>2, <2>1, <2>2, <2>3, <2>4
<1> QED BY <1>1, <1>2

(* The reply carries its code and the address behind it.                   *)
LEMMA Replies ==
  ASSUME NEW k \in AddrKinds, NEW rep \in {"rep0", "refused"}
  PROVE  /\ Reply(rep, k) \in Seq(Octet) /\ Len(Reply(rep, k)) = 3 + Len(Addr[k])
         /\ Reply(rep, k)[2] = rep
         /\ \A i \in 1 .. Len(Addr[k]) : Reply(rep, k)[3 + i] = Addr[k][i]
<1> DEFINE h == <<"v5", rep, "rsv">>
           a == Addr[k]
           r == h \o a
<1>1. h \in Seq(Octet) /\ Len(h) = 3 /\ h[2] = rep
  BY DEF Octet
<1>2. a \in Seq(Octet)
  BY Addresses
<1>3. Reply(rep, k) = r
  BY DEF Reply
<1> HIDE DEF h, a
<1>4. r \in Seq(Octet) /\ IsJoin(r, h, a)
  BY <1>1, <1>2, Join
<1> HIDE DEF r
<1>5. Len(r) = 3 + Len(a) /\ r[2] = rep /\ \A i \in 1 .. Len(a) : r[3 + i] = a[i]
  BY <1>1, <1>2, <1>4 DEF IsJoin
<1> QED BY <1>3, <1>4, <1>5 DEF a

(* Where a granting reply ends, and how long the address in it is, can be read off it.*)
GrantOK(s, n) ==
  \E k \in AddrKinds : /\ Len(s) = n + 3 + Len(Addr[k]) + 2
                       /\ s[n + 2] = "rep0"
                       /\ s[n + 4] = Addr[k][1] /\ s[n + 5] = Addr[k][2]

(* A script selects a method the client offers, and when it grants the     *)
(* request its end can be told.                                            *)
ScriptOK(s, c, n) ==
  /\ s \in Seq(Octet)
  /\ s[1] = "v5" /\ s[2] = "m0" => c = "none"
  /\ s[1] = "v5" /\ s[2] = "m2" => c = "userpass"
  /\ n + 3 <= Len(s) /\ s[n + 2] = "rep0" => GrantOK(s, n)

(* A server that grants the request.                                       *)
LEMMA GrantingScript ==
  ASSUME NEW c \in {"none", "userpass"}, NEW k \in AddrKinds
  PROVE  ScriptOK(HeadOf(c) \o Reply("rep0", k) \o Bytes("data", 2), c, IF c = "none" THEN 2 ELSE 4)
<1> DEFINE h == HeadOf(c)
           r == Reply("rep0", k)
           d == Bytes("data", 2)
           hr == h \o r
           s == hr \o d
           n == IF c = "none" THEN 2 ELSE 4
           size == Len(Addr[k])
<1>1. h \in Seq(Octet) /\ Len(h) = n /\ h[1] = "v5" /\ h[2] = IF c = "none" THEN "m0" ELSE "m2"
  BY Heads
<1>2. /\ r \in Seq(Octet) /\ Len(r) = 3 + size /\ r[2] = "rep0"
      /\ \A i \in 1 .. size : r[3 + i] = Addr[k][i]
  <2>1. "rep0" \in {"rep0", "refused"}
    OBVIOUS
  <2> QED BY <2>1, Replies
<1>3. size \in Nat /\ size >= 2
  BY AddressKind
<1>4. d \in Seq(Octet) /\ Len(d) = 2
  BY BytesRun DEF Octet
<1> HIDE DEF h, r, d, size
<1>5. hr \in Seq(Octet) /\ IsJoin(hr, h, r)
  BY <1>1, <1>2, Join
<1> HIDE DEF hr
<1>6. s \in Seq(Octet) /\ IsJoin(s, hr, d)
  BY <1>4, <1>5, Join
<1> HIDE DEF s
<1>7. n \in {2, 4}
  OBVIOUS
<1>8. r[4] = Addr[k][1] /\ r[5] = Addr[k][2]
  BY <1>2, <1>3
<1> SUFFICES ScriptOK(s, c, n)
  BY DEF s, hr, h, r, d
<1> HIDE DEF n
<1>9. Len(hr) = n + 3 + size /\ Len(s) = n + 3 + size + 2
  <2>1. Len(hr) = Len(h) + Len(r) /\ Len(s) = Len(hr) + Len(d)
    BY <1>5, <1>6 DEF IsJoin
  <2> QED BY <2>1, <1>1, <1>2, <1>3, <1>4, <1>7
<1>10. \A i \in 1 .. n : hr[i] = h[i] /\ s[i] = hr[i]
  <2> SUFFICES ASSUME NEW i \in 1 .. n PROVE hr[i] = h[i] /\ s[i] = hr[i]
    OBVIOUS
  <2>1. hr[i] = h[i]
    BY <1>1, <1>5 DEF IsJoin
  <2>2. i \in 1 .. Len(hr)
    BY <1>3, <1>7, <1>9
  <2> QED BY <2>1, <2>2, <1>6 DEF IsJoin
<1>11. \A i \in 1 .. 3 + size : hr[n + i] = r[i] /\ s[n + i] = hr[n + i]
  <2> SUFFICES ASSUME NEW i \in 1 .. 3 + size
               PROVE  hr[n + i] = r[i] /\ s[n + i] = hr[n + i]
    OBVIOUS
  <2>1. hr[n + i] = r[i]
    BY <1>1, <1>2, <1>5 DEF IsJoin
  <2>2. n + i \in 1 .. Len(hr)
    BY <1>3, <1>7, <1>9
  <2> QED BY <2>1, <2>2, <1>6 DEF IsJoin
<1>12. s[n + 2] = "rep0" /\ s[n + 4] = Addr[k][1] /\ s[n + 5] = Addr[k][2]
  BY <1>2, <1>3, <1>8, <1>11
<1>13. GrantOK(s, n)
  BY <1>9, <1>12 DEF GrantOK, size
<1>14. s[1] = "v5" /\ s[2] = IF c = "none" THEN "m0" ELSE "m2"
  BY <1>1, <1>7, <1>10
<1> QED BY <1>6, <1>13, <1>14 DEF ScriptOK

(* A server that refuses the request.                                      *)
LEMMA RefusingScript ==
  ASSUME NEW c \in {"none", "userpass"}
  PROVE  ScriptOK(HeadOf(c) \o Reply("refused", "ip4"), c, IF c = "none" THEN 2 ELSE 4)
<1> DEFINE h == HeadOf(c)
           r == Reply("refused", "ip4")
           s == h \o r
           n == IF c = "none" THEN 2 ELSE 4
<1>1. h \in Seq(Octet) /\ Len(h) = n /\ h[1] = "v5" /\ h[2] = IF c = "none" THEN "m0" ELSE "m2"
  BY Heads
<1>2. r \in Seq(Octet) /\ Len(r) >= 3 /\ Len(r) \in Nat /\ r[2] = "refused"
  <2>1. "ip4" \in AddrKinds /\ Len(Addr["ip4"]) = 7
    BY Addresses
  <2> QED BY <2>1, Replies
<1> HIDE DEF h, r
<1>3. s \in Seq(Octet) /\ IsJoin(s, h, r)
  BY <1>1, <1>2, Join
<1> HIDE DEF s
<1> SUFFICES ScriptOK(s, c, n)
  BY DEF s, h, r
<1>4. n \in {2, 4}
  OBVIOUS
<1> HIDE DEF n
<1>5. s[1] = h[1] /\ s[2] = h[2] /\ s[n + 2] = r[2]
  BY <1>1, <1>2, <1>3, <1>4 DEF IsJoin
<1> QED BY <1>1, <1>2, <1>3, <1>5 DEF ScriptOK

(* A server that refuses the method or speaks another version.             *)
LEMMA ShortScript ==
  ASSUME NEW c \in {"none", "userpass"}, NEW a \in Octet, NEW b \in Octet,
         a = "v5" => b \notin {"m0", "m2"}
  PROVE  ScriptOK(<<a, b>>, c, IF c = "none" THEN 2 ELSE 4)
<1> DEFINE s == <<a, b>>
<1>1. s \in Seq(Octet) /\ Len(s) = 2 /\ s[1] = a /\ s[2] = b
  OBVIOUS
<1> HIDE DEF s
<1>2. ScriptOK(s, c, IF c = "none" THEN 2 ELSE 4)
  BY <1>1 DEF ScriptOK
<1> QED BY <1>2 DEF s

(* A server that refuses the credentials.                                  *)
LEMMA BadAuthScript == ScriptOK(<<"v5", "m2">> \o <<"v1", "bad">>, "userpass", 4)
<1> DEFINE m == <<"v5", "m2">>
           a == <<"v1", "bad">>
           s == m \o a
<1>1. m \in Seq(Octet) /\ Len(m) = 2 /\ m[1] = "v5" /\ m[2] = "m2" /\ a \in Seq(Octet) /\ Len(a) = 2
  BY DEF Octet
<1> HIDE DEF m, a
<1>2. s \in Seq(Octet) /\ IsJoin(s, m, a)
  BY <1>1, Join
<1> HIDE DEF s
<1>3. ScriptOK(s, "userpass", 4)
  BY <1>1, <1>2 DEF ScriptOK, IsJoin
<1> QED BY <1>3 DEF s, m, a

(* Whatever a server sends.                                                *)
LEMMA ScriptsOK ==
  ASSUME NEW c \in {"none", "userpass"}, NEW s \in Scripts(c)
  PROVE  ScriptOK(s, c, IF c = "none" THEN 2 ELSE 4)
<1>1. \/ s = <<"v5", "mFF">> \/ s = <<"v4", "m0">>
      \/ s = HeadOf(c) \o Reply("refused", "ip4")
      \/ c = "userpass" /\ s = <<"v5", "m2">> \o <<"v1", "bad">>
      \/ \E k \in AddrKinds : s = HeadOf(c) \o Reply("rep0", k) \o Bytes("data", 2)
  <2>1. CASE c = "none"
    BY <2>1, SMTT(60) DEF Scripts, HeadOf
  <2>2. CASE c = "userpass"
    BY <2>2, SMTT(60) DEF Scripts, HeadOf
  <2> QED BY <2>1, <2>2
<1>2. CASE s = <<"v5", "mFF">>
  BY <1>2, ShortScript DEF Octet
<1>3. CASE s = <<"v4", "m0">>
  BY <1>3, ShortScript DEF Octet
<1>4. CASE s = HeadOf(c) \o Reply("refused", "ip4")
  BY <1>4, RefusingScript
<1>5. CASE c = "userpass" /\ s = <<"v5", "m2">> \o <<"v1", "bad">>
  BY <1>5, BadAuthScript
<1>6. CASE \E k \in AddrKinds : s = HeadOf(c) \o Reply("rep0", k) \o Bytes("data", 2)
  BY <1>6, GrantingScript
<1> QED BY <1>1, <1>2, <1>3, <1>4, <1>5, <1>6

-----------------------------------------------------------------------------
(* The request.                                                            *)

(* The script of this connection.                                          *)
LEMMA ScriptNow ==
  ASSUME SocksTypeOK
  PROVE  /\ ScriptOK(script, cred, ReplyAt) /\ ReplyAt \in {2, 4}
         /\ Len(script) \in Nat /\ arrived \in Nat /\ pos \in Nat
         /\ pos <= arrived /\ arrived <= Len(script)
<1>1. ScriptOK(script, cred, ReplyAt)
  BY ScriptsOK DEF SocksTypeOK, ReplyAt
<1>2. ReplyAt \in {2, 4}
  BY DEF ReplyAt
<1>3. Len(script) \in Nat
  BY <1>1 DEF ScriptOK
<1> QED BY <1>1, <1>2, <1>3 DEF SocksTypeOK

(* A request that is granted ends behind the address of the reply.         *)
LEMMA GrantNow ==
  ASSUME SocksTypeOK, Grants
  PROVE  /\ granted = Len(script) - 2 /\ granted \in Nat /\ granted > 0
         /\ \/ script[ReplyAt + 4] = "ip4" /\ granted = ReplyAt + 10
            \/ script[ReplyAt + 4] = "ip6" /\ granted = ReplyAt + 22
            \/ /\ script[ReplyAt + 4] = "name" /\ script[ReplyAt + 5] = "len3"
               /\ granted = ReplyAt + 10
            \/ /\ script[ReplyAt + 4] = "name" /\ script[ReplyAt + 5] = "len1"
               /\ granted = ReplyAt + 8
<1>1. /\ ScriptOK(script, cred, ReplyAt) /\ ReplyAt \in {2, 4} /\ Len(script) \in Nat
      /\ ReplyAt + 3 <= Len(script)
  BY ScriptNow DEF Grants
<1>2. PICK k \in AddrKinds : /\ Len(script) = ReplyAt + 3 + Len(Addr[k]) + 2
                             /\ script[ReplyAt + 4] = Addr[k][1]
                             /\ script[ReplyAt + 5] = Addr[k][2]
  BY <1>1 DEF ScriptOK, Grants, GrantOK
<1>3. "rep0" \in Range(script)
  <2>1. ReplyAt + 2 \in DOMAIN script
    BY <1>1 DEF ScriptOK
  <2> QED BY <2>1 DEF Grants, Range
<1>4. granted = Len(script) - 2
  BY <1>3 DEF SocksTypeOK, GrantLength
<1> DEFINE size == Len(Addr[k])
           type == Addr[k][1]
           next == Addr[k][2]
<1>5. /\ size \in Nat
      /\ \/ type = "ip4" /\ size = 7
         \/ type = "ip6" /\ size = 19
         \/ type = "name" /\ next = "len3" /\ size = 7
         \/ type = "name" /\ next = "len1" /\ size = 5
  BY AddressKind
<1>6. Len(script) = ReplyAt + 3 + size + 2 /\ script[ReplyAt + 4] = type /\ script[ReplyAt + 5] = next
  BY <1>2
<1> HIDE DEF size, type, next
<1>7. granted = ReplyAt + 3 + size
  BY <1>1, <1>4, <1>5, <1>6
<1> QED BY <1>1, <1>4, <1>5, <1>6, <1>7

(* The bytes of the field read next.                                       *)
LEMMA FieldBytes ==
  ASSUME SocksTypeOK, NEW n \in Nat, pos + n <= arrived, NEW i \in 1 .. n
  PROVE  SubSeq(script, pos + 1, pos + n)[i] = script[pos + i]
<1>1. pos + 1 \in Nat /\ pos + n \in Nat /\ pos + n <= Len(script) /\ script \in Seq(Octet)
  BY ScriptNow DEF ScriptOK
<1>2. pos + 1 \in Int /\ pos + n \in Int /\ (pos + 1) + i - 1 = pos + i
  BY <1>1, ScriptNow
<1>3. i \in 1 .. (pos + n) - (pos + 1) + 1
  BY ScriptNow
<1>4. \A j \in pos + 1 .. pos + n : script[j] \in Octet
  BY <1>1, ScriptNow
<1> QED BY <1>2, <1>3, <1>4, SubSeqProperties

(* What a read leaves alone.                                               *)
LEMMA ReadFrame ==
  ASSUME SocksInv, NEW n \in Nat, pos' \in {pos, pos + n},
         pos' = pos + n => pos + n <= arrived,
         UNCHANGED <<cred, script, granted, arrived, closed, datagram, outcome>>
  PROVE  /\ SocksTypeOK' /\ DatagramIsWhole' /\ ReplyAt' = ReplyAt
         /\ pos' = pos + n /\ Grants => Grants'
<1>1. SocksTypeOK'
  BY ScriptNow DEF SocksInv, SocksTypeOK
<1>2. DatagramIsWhole'
  BY DEF SocksInv, DatagramIsWhole
<1>3. ReplyAt' = ReplyAt
  BY DEF ReplyAt
<1>4. pos' = pos + n /\ Grants => Grants'
  BY <1>3, ScriptNow DEF SocksInv, Grants
<1> QED BY <1>1, <1>2, <1>3, <1>4

(* A read that ends the request with an error.                             *)
LEMMA ReadFails ==
  ASSUME SocksInv, pos' = pos, expect' = "failed",
         UNCHANGED <<cred, script, granted, arrived, closed, datagram, outcome>>
  PROVE  SocksInv'
<1>1. SocksTypeOK' /\ DatagramIsWhole'
  <2>1. 0 \in Nat /\ pos + 0 = pos /\ pos <= arrived
    BY ScriptNow DEF SocksInv
  <2> QED BY <2>1, ReadFrame
<1>2. FieldInv'
  BY DEF FieldInv
<1> QED BY <1>1, <1>2 DEF SocksInv

(* readMethod: version and method.                                         *)
LEMMA MethodRead == ASSUME SocksInv, ReadsField("method", 2, AfterMethod) PROVE SocksInv'
<1> DEFINE b == SubSeq(script, pos + 1, pos + 2)
<1>0. expect = "method" /\ UNCHANGED <<cred, script, granted, arrived, closed, datagram, outcome>>
  BY DEF ReadsField
<1>1. CASE arrived - pos >= 2
  <2>1. pos' = pos + 2 /\ expect' = AfterMethod(b)
    BY <1>1 DEF ReadsField
  <2>2. pos + 2 <= arrived /\ pos = 0
    BY <1>0, <1>1, ScriptNow DEF SocksInv, FieldInv
  <2>3. b[1] = script[1] /\ b[2] = script[2]
    BY <2>2, FieldBytes DEF SocksInv
  <2>4. SocksTypeOK' /\ DatagramIsWhole' /\ ReplyAt' = ReplyAt
    BY <1>0, <2>1, <2>2, ReadFrame
  <2> HIDE DEF b
  <2>5. expect' = "failed" \/ (expect' = "reply" /\ cred = "none") \/ (expect' = "auth" /\ cred = "userpass")
    BY <2>1, <2>3, ScriptNow DEF AfterMethod, SocksInv, ScriptOK
  <2>6. FieldInv'
    BY <1>0, <2>1, <2>2, <2>5 DEF FieldInv, ReplyAt
  <2> QED BY <2>4, <2>6 DEF SocksInv
<1>2. CASE ~(arrived - pos >= 2)
  BY <1>0, <1>2, ReadFails DEF ReadsField
<1> QED BY <1>1, <1>2

(* The answer to the credentials.                                          *)
LEMMA AuthRead == ASSUME SocksInv, ReadsField("auth", 2, AfterAuth) PROVE SocksInv'
<1> DEFINE b == SubSeq(script, pos + 1, pos + 2)
<1>0. expect = "auth" /\ UNCHANGED <<cred, script, granted, arrived, closed, datagram, outcome>>
  BY DEF ReadsField
<1>1. CASE arrived - pos >= 2
  <2>1. pos' = pos + 2 /\ expect' = AfterAuth(b)
    BY <1>1 DEF ReadsField
  <2>2. pos + 2 <= arrived /\ pos = 2 /\ cred = "userpass"
    BY <1>0, <1>1, ScriptNow DEF SocksInv, FieldInv
  <2>3. SocksTypeOK' /\ DatagramIsWhole' /\ ReplyAt' = ReplyAt
    BY <1>0, <2>1, <2>2, ReadFrame
  <2> HIDE DEF b
  <2>4. expect' \in {"failed", "reply"}
    BY <2>1 DEF AfterAuth
  <2>5. FieldInv'
    BY <1>0, <2>1, <2>2, <2>4 DEF FieldInv, ReplyAt
  <2> QED BY <2>3, <2>5 DEF SocksInv
<1>2. CASE ~(arrived - pos >= 2)
  BY <1>0, <1>2, ReadFails DEF ReadsField
<1> QED BY <1>1, <1>2

(* Version, reply code and reserved byte.                                  *)
LEMMA ReplyRead == ASSUME SocksInv, ReadsField("reply", 3, AfterReply) PROVE SocksInv'
<1> DEFINE b == SubSeq(script, pos + 1, pos + 3)
<1>0. expect = "reply" /\ UNCHANGED <<cred, script, granted, arrived, closed, datagram, outcome>>
  BY DEF ReadsField
<1>1. CASE arrived - pos >= 3
  <2>1. pos' = pos + 3 /\ expect' = AfterReply(b)
    BY <1>1 DEF ReadsField
  <2>2. pos + 3 <= arrived /\ pos = ReplyAt
    BY <1>0, <1>1, ScriptNow DEF SocksInv, FieldInv
  <2>3. b[2] = script[ReplyAt + 2]
    <3>1. 2 \in 1 .. 3 /\ 3 \in Nat
      OBVIOUS
    <3>2. b[2] = script[pos + 2]
      BY <2>2, <3>1, FieldBytes DEF SocksInv
    <3> QED BY <2>2, <3>2
  <2>4. SocksTypeOK' /\ DatagramIsWhole' /\ ReplyAt' = ReplyAt
    BY <1>0, <2>1, <2>2, ReadFrame
  <2> HIDE DEF b
  <2>5. expect' = "failed" \/ (expect' = "atyp" /\ script[ReplyAt + 2] = "rep0")
    BY <2>1, <2>3 DEF AfterReply
  <2>6. FieldInv'
    BY <1>0, <2>1, <2>2, <2>4, <2>5, ScriptNow DEF FieldInv, Grants, SocksInv
  <2> QED BY <2>4, <2>6 DEF SocksInv
<1>2. CASE ~(arrived - pos >= 3)
  BY <1>0, <1>2, ReadFails DEF ReadsField
<1> QED BY <1>1, <1>2

(* The type of the address.                                                *)
LEMMA TypeRead == ASSUME SocksInv, ReadsField("atyp", 1, AfterType) PROVE SocksInv'
<1> DEFINE b == SubSeq(script, pos + 1, pos + 1)
<1>0. expect = "atyp" /\ UNCHANGED <<cred, script, granted, arrived, closed, datagram, outcome>>
  BY DEF ReadsField
<1>1. CASE arrived - pos >= 1
  <2>1. pos' = pos + 1 /\ expect' = AfterType(b)
    BY <1>1 DEF ReadsField
  <2>2. pos + 1 <= arrived /\ pos = ReplyAt + 3 /\ Grants
    BY <1>0, <1>1, ScriptNow DEF SocksInv, FieldInv
  <2>3. b[1] = script[ReplyAt + 4]
    <3>0. 1 \in 1 .. 1 /\ 1 \in Nat
      OBVIOUS
    <3>1. b[1] = script[pos + 1]
      BY <2>2, <3>0, FieldBytes DEF SocksInv
    <3>2. pos + 1 = ReplyAt + 4
      BY <2>2, ScriptNow DEF SocksInv
    <3> QED BY <3>1, <3>2
  <2>4. SocksTypeOK' /\ DatagramIsWhole' /\ ReplyAt' = ReplyAt /\ Grants'
    BY <1>0, <2>1, <2>2, ReadFrame
  <2> HIDE DEF b
  <2>5. \/ expect' = "failed"
        \/ expect' \in {"ip4", "ip6"} /\ script[ReplyAt + 4] = expect'
        \/ expect' = "length" /\ script[ReplyAt + 4] = "name"
    BY <2>1, <2>3 DEF AfterType
  <2>6. pos' = ReplyAt + 4
    BY <2>1, <2>2, ScriptNow DEF SocksInv
  <2>7. FieldInv'
    BY <1>0, <2>4, <2>5, <2>6 DEF FieldInv
  <2> QED BY <2>4, <2>7 DEF SocksInv
<1>2. CASE ~(arrived - pos >= 1)
  BY <1>0, <1>2, ReadFails DEF ReadsField
<1> QED BY <1>1, <1>2

(* The length of a name.                                                   *)
LEMMA LengthRead == ASSUME SocksInv, ReadsField("length", 1, AfterLength) PROVE SocksInv'
<1> DEFINE b == SubSeq(script, pos + 1, pos + 1)
<1>0. expect = "length" /\ UNCHANGED <<cred, script, granted, arrived, closed, datagram, outcome>>
  BY DEF ReadsField
<1>1. CASE arrived - pos >= 1
  <2>1. pos' = pos + 1 /\ expect' = AfterLength(b)
    BY <1>1 DEF ReadsField
  <2>2. pos + 1 <= arrived /\ pos = ReplyAt + 4 /\ Grants /\ script[ReplyAt + 4] = "name"
    BY <1>0, <1>1, ScriptNow DEF SocksInv, FieldInv
  <2>3. pos' = ReplyAt + 5
    BY <2>1, <2>2, ScriptNow DEF SocksInv
  <2>4. b[1] = script[ReplyAt + 5]
    <3>0. 1 \in 1 .. 1 /\ 1 \in Nat
      OBVIOUS
    <3>1. b[1] = script[pos + 1]
      BY <2>2, <3>0, FieldBytes DEF SocksInv
    <3> QED BY <2>1, <2>3, <3>1
  <2>5. SocksTypeOK' /\ DatagramIsWhole' /\ ReplyAt' = ReplyAt /\ Grants'
    BY <1>0, <2>1, <2>2, ReadFrame
  <2> HIDE DEF b
  <2>6. expect' = script[ReplyAt + 5] /\ expect' \in {"len1", "len3"}
    BY <2>1, <2>2, <2>4, GrantNow DEF AfterLength, SocksInv
  <2>7. FieldInv'
    BY <1>0, <2>2, <2>3, <2>5, <2>6 DEF FieldInv
  <2> QED BY <2>5, <2>7 DEF SocksInv
<1>2. CASE ~(arrived - pos >= 1)
  BY <1>0, <1>2, ReadFails DEF ReadsField
<1> QED BY <1>1, <1>2

(* What is left of the address when its length is known.                   *)
AddressLeft(f) == CASE f = "ip4" -> 4 [] f = "ip6" -> 16 [] f = "len1" -> 1 [] f = "len3" -> 3

(* The address, whatever its kind.                                         *)
LEMMA AddressRead ==
  ASSUME SocksInv, NEW f \in {"ip4", "ip6", "len1", "len3"},
         ReadsField(f, AddressLeft(f), ToPort)
  PROVE  SocksInv'
<1> DEFINE n == AddressLeft(f)
<1>0. expect = f /\ UNCHANGED <<cred, script, granted, arrived, closed, datagram, outcome>>
  BY DEF ReadsField
<1>1. n \in Nat
  BY DEF AddressLeft
<1>2. CASE arrived - pos >= n
  <2>1. pos' = pos + n /\ expect' = "port"
    BY <1>2 DEF ReadsField, ToPort
  <2>2. pos + n <= arrived
    BY <1>1, <1>2, ScriptNow DEF SocksInv
  <2>3. Grants /\ pos + n = granted - 2
    <3>0. ReplyAt \in {2, 4} /\ pos \in Nat /\ granted \in Int
      <4>1. Grants
        BY <1>0 DEF SocksInv, FieldInv
      <4> QED BY <4>1, GrantNow, ScriptNow DEF SocksInv
    <3>1. CASE f \in {"ip4", "ip6"}
      <4>1. Grants /\ pos = ReplyAt + 4 /\ script[ReplyAt + 4] = f
        BY <1>0, <3>1 DEF SocksInv, FieldInv
      <4>2. \/ f = "ip4" /\ granted = ReplyAt + 10 /\ n = 4
            \/ f = "ip6" /\ granted = ReplyAt + 22 /\ n = 16
        BY <3>1, <4>1, GrantNow DEF SocksInv, AddressLeft
      <4> HIDE DEF n
      <4> QED BY <3>0, <4>1, <4>2
    <3>2. CASE f \in {"len1", "len3"}
      <4>1. /\ Grants /\ pos = ReplyAt + 5 /\ script[ReplyAt + 4] = "name"
            /\ script[ReplyAt + 5] = f
        BY <1>0, <3>2 DEF SocksInv, FieldInv
      <4>2. \/ f = "len3" /\ granted = ReplyAt + 10 /\ n = 3
            \/ f = "len1" /\ granted = ReplyAt + 8 /\ n = 1
        BY <3>2, <4>1, GrantNow DEF SocksInv, AddressLeft
      <4> HIDE DEF n
      <4> QED BY <3>0, <4>1, <4>2
    <3> QED BY <3>1, <3>2
  <2> HIDE DEF n
  <2>4. SocksTypeOK' /\ DatagramIsWhole' /\ ReplyAt' = ReplyAt /\ Grants'
    BY <1>0, <1>1, <2>1, <2>2, <2>3, ReadFrame
  <2>5. FieldInv'
    BY <1>0, <2>1, <2>3, <2>4 DEF FieldInv
  <2> QED BY <2>4, <2>5 DEF SocksInv
<1>3. CASE ~(arrived - pos >= n)
  BY <1>0, <1>3, ReadFails DEF ReadsField
<1> QED BY <1>2, <1>3

(* The port ends the request.                                              *)
LEMMA PortRead == ASSUME SocksInv, ReadsField("port", 2, AfterPort) PROVE SocksInv'
<1>0. expect = "port" /\ UNCHANGED <<cred, script, granted, arrived, closed, datagram, outcome>>
  BY DEF ReadsField
<1>1. CASE arrived - pos >= 2
  <2>1. pos' = pos + 2 /\ expect' = "done"
    BY <1>1 DEF ReadsField, AfterPort
  <2>2. pos + 2 <= arrived /\ Grants /\ pos = granted - 2
    BY <1>0, <1>1, ScriptNow DEF SocksInv, FieldInv
  <2>3. SocksTypeOK' /\ DatagramIsWhole' /\ ReplyAt' = ReplyAt /\ Grants'
    BY <1>0, <2>1, <2>2, ReadFrame
  <2>4. pos' = granted
    BY <2>1, <2>2, GrantNow DEF SocksInv
  <2>5. FieldInv'
    BY <1>0, <2>1, <2>3, <2>4 DEF FieldInv
  <2> QED BY <2>3, <2>5 DEF SocksInv
<1>2. CASE ~(arrived - pos >= 2)
  BY <1>0, <1>2, ReadFails DEF ReadsField
<1> QED BY <1>1, <1>2

-----------------------------------------------------------------------------
(* Datagrams.                                                              *)

(* The header of a datagram tells its own length; the payload is behind it.*)
LEMMA Packed ==
  ASSUME NEW k \in AddrKinds, NEW p \in Payloads
  PROVE  /\ Pack(k, p) \in Seq(Octet \cup Range(p)) /\ Len(p) \in Nat
         /\ Len(Pack(k, p)) = 3 + Len(Addr[k]) + Len(p)
         /\ HeaderLength(Pack(k, p)) = 3 + Len(Addr[k])
         /\ SubSeq(Pack(k, p), 3 + Len(Addr[k]) + 1, 3 + Len(Addr[k]) + Len(p)) = p
<1> DEFINE S == Octet \cup Range(p)
           h == <<"0", "0", "frag0">>
           a == Addr[k]
           ha == h \o a
           d == ha \o p
           size == Len(a)
<1>1. p \in Seq(Range(p)) /\ Len(p) \in Nat
  BY SocksAssumption
<1>2. p \in Seq(S)
  BY <1>1, SeqMonotonic
<1>3. a \in Seq(S)
  <2>1. a \in Seq(Octet)
    <3>1. k = "ip4" \/ k = "ip6" \/ k = "name" \/ k = "unit"
      BY Addresses
    <3> QED BY <3>1, Addresses
  <2> QED BY <2>1, SeqMonotonic
<1>4. h \in Seq(S) /\ Len(h) = 3
  BY DEF Octet
<1>5. /\ size \in Nat /\ size >= 5
      /\ \/ a[1] = "ip4" /\ size = 7
         \/ a[1] = "ip6" /\ size = 19
         \/ a[1] = "name" /\ a[2] = "len3" /\ size = 7
         \/ a[1] = "name" /\ a[2] = "len1" /\ size = 5
  BY AddressKind
<1>6. Pack(k, p) = d
  BY DEF Pack
<1> HIDE DEF S, h, a
<1>7. ha \in Seq(S) /\ IsJoin(ha, h, a)
  BY <1>3, <1>4, Join
<1> HIDE DEF ha
<1>8. d \in Seq(S) /\ IsJoin(d, ha, p)
  BY <1>2, <1>7, Join
<1> HIDE DEF d
<1>9. size = Len(a)
  OBVIOUS
<1> HIDE DEF size
<1>10. Len(ha) = 3 + size /\ Len(d) = 3 + size + Len(p)
  BY <1>1, <1>4, <1>5, <1>7, <1>8, <1>9 DEF IsJoin
<1>11. d[4] = a[1] /\ d[5] = a[2]
  <2>1. 1 \in 1 .. Len(a) /\ 2 \in 1 .. Len(a) /\ 4 \in 1 .. Len(ha) /\ 5 \in 1 .. Len(ha)
    BY <1>5, <1>9, <1>10
  <2>2. ha[3 + 1] = a[1] /\ ha[3 + 2] = a[2]
    BY <2>1, <1>4, <1>7 DEF IsJoin
  <2> QED BY <2>1, <2>2, <1>8 DEF IsJoin
<1>12. HeaderLength(d) = 3 + size
  BY <1>5, <1>11 DEF HeaderLength, IpLength, NameLength
<1>13. SubSeq(d, 3 + size + 1, 3 + size + Len(p)) = p
  <2> DEFINE from == 3 + size + 1
             to == 3 + size + Len(p)
             q == SubSeq(d, from, to)
  <2>1. from \in Int /\ to \in Int /\ \A i \in from .. to : d[i] \in S
    BY <1>1, <1>5, <1>8, <1>10
  <2>2. /\ q \in Seq(S) /\ Len(q) = IF from <= to THEN to - from + 1 ELSE 0
        /\ \A i \in 1 .. to - from + 1 : q[i] = d[from + i - 1]
    <3> HIDE DEF from, to
    <3> QED BY <2>1, SubSeqProperties
  <2> HIDE DEF q
  <2>3. Len(q) = Len(p)
    BY <2>2, <1>1, <1>5
  <2>4. ASSUME NEW i \in 1 .. Len(p) PROVE q[i] = p[i]
    <3>1. d[Len(ha) + i] = p[i]
      BY <1>8 DEF IsJoin
    <3>2. i \in 1 .. to - from + 1 /\ from + i - 1 = Len(ha) + i
      BY <1>1, <1>5, <1>10
    <3> QED BY <2>2, <3>1, <3>2
  <2>5. q = p
    BY <2>2, <2>3, <2>4, <1>2, SeqEqual
  <2> QED BY <2>5 DEF q
<1>14. /\ d \in Seq(S) /\ Len(p) \in Nat /\ Len(d) = 3 + Len(a) + Len(p)
       /\ HeaderLength(d) = 3 + Len(a)
       /\ SubSeq(d, 3 + Len(a) + 1, 3 + Len(a) + Len(p)) = p
  BY <1>1, <1>8, <1>9, <1>10, <1>12, <1>13
<1> QED BY <1>6, <1>14 DEF S, a

(* What ReadFrom makes of a datagram.                                      *)
LEMMA ReadFromIs ==
  ASSUME NEW pkt, NEW size, NEW n \in Nat, NEW h \in Nat, NEW p, NEW l \in Nat,
         NEW S, pkt \in Seq(S), Len(pkt) = n, n <= BufSize, HeaderLength(pkt) = h,
         SubSeq(pkt, h + 1, n) = p, Len(p) = l, h + l = n, size \in Nat
  PROVE  ReadFrom(pkt, size) = IF n < 10 \/ l > size THEN Refused ELSE [ok |-> TRUE, payload |-> p]
<1>1. BufSize \in Nat
  BY SocksAssumption
<1>2. SubSeq(pkt, 1, n) = pkt
  BY SubSeqFull
<1>3. (IF n < BufSize THEN n ELSE BufSize) = n
  BY <1>1
<1>4. SubSeq(pkt, 1, IF Len(pkt) < BufSize THEN Len(pkt) ELSE BufSize) = pkt
  BY <1>2, <1>3
<1>5. ~(h > n)
  OBVIOUS
<1> HIDE DEF HeaderLength, Refused
<1> QED BY <1>4, <1>5 DEF ReadFrom

(* A datagram arrives and is read.                                         *)
LEMMA ReceiveKeeps == ASSUME SocksInv, Receive PROVE SocksInv'
<1>1. UNCHANGED <<cred, script, granted, arrived, closed, pos, expect>>
  BY DEF Receive
<1>2. SocksTypeOK' /\ FieldInv'
  BY <1>1 DEF SocksInv, SocksTypeOK, FieldInv, ReplyAt, Grants
<1>3. DatagramIsWhole'
  <2>1. PICK k \in AddrKinds, p \in Payloads, size \in ReadSizes :
            /\ datagram' = [addr |-> k, payload |-> p]
            /\ outcome' = ReadFrom(Pack(k, p), size)
    BY DEF Receive
  <2> DEFINE h == 3 + Len(Addr[k])
             n == 3 + Len(Addr[k]) + Len(p)
             pkt == Pack(k, p)
  <2>2. datagram'.addr = k /\ datagram'.payload = p
    BY <2>1
  <2>3. SUFFICES ASSUME n <= BufSize
                 PROVE  /\ outcome'.ok => outcome'.payload = p
                        /\ (\A s \in ReadSizes : Len(p) <= s) /\ n >= 10 => outcome'.ok
    BY <2>2 DEF DatagramIsWhole
  <2>4. Len(Addr[k]) \in Nat
    BY AddressKind
  <2>5. /\ pkt \in Seq(Octet \cup Range(p)) /\ Len(p) \in Nat /\ Len(pkt) = n
        /\ HeaderLength(pkt) = h /\ SubSeq(pkt, h + 1, n) = p
    BY Packed
  <2>6. h \in Nat /\ n \in Nat /\ h + Len(p) = n
    BY <2>4, <2>5
  <2>7. size \in Nat
    BY SocksAssumption
  <2> HIDE DEF h, pkt
  <2> DEFINE m == n
  <2> HIDE DEF m, n
  <2>8. outcome' = IF n < 10 \/ Len(p) > size THEN Refused ELSE [ok |-> TRUE, payload |-> p]
    BY <2>1, <2>3, <2>5, <2>6, <2>7, ReadFromIs DEF pkt
  <2>9. CASE n < 10 \/ Len(p) > size
    BY <2>5, <2>6, <2>7, <2>8, <2>9 DEF Refused
  <2>10. CASE ~(n < 10 \/ Len(p) > size)
    BY <2>8, <2>10
  <2> QED BY <2>9, <2>10
<1> QED BY <1>2, <1>3 DEF SocksInv

(* Nothing of the connection changes.                                      *)
LEMMA SocksFrame ==
  ASSUME SocksInv, UNCHANGED <<cred, script, granted, pos, expect, datagram, outcome>>
  PROVE  FieldInv' /\ DatagramIsWhole'
<1>1. FieldInv'
  BY DEF SocksInv, FieldInv, ReplyAt, Grants
<1>2. DatagramIsWhole'
  BY DEF SocksInv, DatagramIsWhole
<1> QED BY <1>1, <1>2

(* More bytes arrive, or the server closes.                                *)
LEMMA ArriveKeeps == ASSUME SocksInv, Arrive PROVE SocksInv'
<1>1. /\ UNCHANGED <<cred, script, granted, closed, pos, expect, datagram, outcome>>
      /\ \E n \in (arrived + 1) .. Len(script) : arrived' = n
  BY DEF Arrive
<1>2. SocksTypeOK'
  BY <1>1, ScriptNow DEF SocksInv, SocksTypeOK
<1>3. FieldInv' /\ DatagramIsWhole'
  BY <1>1, SocksFrame
<1> QED BY <1>2, <1>3 DEF SocksInv

(* It holds before any byte arrives.                                       *)
LEMMA SocksInitially == SocksInit => SocksInv
<1> SUFFICES ASSUME SocksInit PROVE SocksInv
  OBVIOUS
<1>1. script \in Seq(Octet)
  BY ScriptsOK DEF SocksInit, ScriptOK
<1>2. SocksTypeOK
  BY <1>1 DEF SocksInit, SocksTypeOK
<1>3. FieldInv /\ DatagramIsWhole
  BY DEF SocksInit, FieldInv, DatagramIsWhole
<1> QED BY <1>2, <1>3 DEF SocksInv

(* Every step of the connection keeps it.                                  *)
LEMMA SocksInductive == SocksInv /\ [SocksNext]_socksVars => SocksInv'
<1> SUFFICES ASSUME SocksInv, [SocksNext]_socksVars PROVE SocksInv'
  OBVIOUS
<1>1. CASE UNCHANGED socksVars
  BY <1>1, SocksFrame DEF socksVars, SocksInv, SocksTypeOK
<1>2. CASE Arrive
  BY <1>2, ArriveKeeps
<1>3. CASE ServerCloses
  BY <1>3, SocksFrame DEF ServerCloses, SocksInv, SocksTypeOK
<1>4. CASE Request
  BY <1>4, MethodRead, AuthRead, ReplyRead DEF Request
<1>5. CASE ReadAddress
  <2>1. ASSUME NEW k \in {"ip4", "ip6"}, ReadsField(k, IpLength[k], ToPort) PROVE SocksInv'
    <3>1. IpLength[k] = AddressLeft(k)
      BY DEF IpLength, AddressLeft
    <3> QED BY <2>1, <3>1, AddressRead
  <2>2. ASSUME NEW l \in DOMAIN NameLength, ReadsField(l, NameLength[l], ToPort) PROVE SocksInv'
    <3>1. l \in {"len1", "len3"}
      BY DEF NameLength
    <3>2. NameLength[l] = AddressLeft(l)
      BY <3>1 DEF NameLength, AddressLeft
    <3> QED BY <2>2, <3>1, <3>2, AddressRead
  <2> QED BY <1>5, <2>1, <2>2 DEF ReadAddress
<1>6. CASE BoundAddress
  BY <1>5, <1>6, TypeRead, LengthRead, PortRead DEF BoundAddress
<1>7. CASE Receive
  BY <1>7, ReceiveKeeps
<1> QED BY <1>1, <1>2, <1>3, <1>4, <1>6, <1>7 DEF SocksNext

(* A SOCKS5 connection is handed out exactly where the target's bytes      *)
(* begin, however the server's answer is cut into packets and whatever kind*)
(* of address is in it, and a datagram that ReadFrom returns is whole: the *)
(* lengths that readAddr and appendSOCKS5Address compute agree.            *)
THEOREM SocksReadsExactly == SocksSpec => []SocksIsExact
<1>1. SocksInv => SocksIsExact
  <2> SUFFICES ASSUME SocksInv, expect = "done" PROVE granted > 0 /\ pos = granted
    BY DEF SocksInv, SocksIsExact, StreamStartsAtTarget
  <2> QED BY GrantNow DEF SocksInv, FieldInv
<1> QED BY <1>1, SocksInitially, SocksInductive, PTL DEF SocksSpec

-----------------------------------------------------------------------------
(***************************************************************************)
(* TlsFragWriter: the base sees the two records, whatever the calls.       *)
(***************************************************************************)
(* Bytes, and what each byte of the two streams is.                        *)
StreamByte == [h : Int, len : Int]

PlainByte == [i \in Nat |-> IF i <= HeaderLen THEN [h |-> i, len |-> conf.len] ELSE [h |-> 0, len |-> i]]

CutByte ==
  [i \in Nat |->
     IF i <= HeaderLen THEN [h |-> i, len |-> conf.split]
     ELSE IF i <= HeaderLen + conf.split THEN [h |-> 0, len |-> i]
     ELSE IF i <= 2 * HeaderLen + conf.split
          THEN [h |-> i - HeaderLen - conf.split, len |-> conf.len - conf.split]
     ELSE [h |-> 0, len |-> i - HeaderLen]]

Confs == {k \in [kind : Kinds, valid : BOOLEAN, len : 1 .. MaxRecord, split : 0 .. MaxRecord] :
            ~k.valid => k.len = 1 /\ k.split = 0}

(* The configuration in numbers.                                           *)
LEMMA ConfNumbers ==
  ASSUME conf \in Confs
  PROVE  /\ HeaderLen \in Nat /\ HeaderLen > 0 /\ FragStreamLen \in Nat
         /\ conf.len \in Nat /\ conf.len > 0 /\ conf.split \in Nat
         /\ conf.kind \in {"len", "hello"} /\ conf.valid \in BOOLEAN
         /\ Splits => conf.split > 0 /\ conf.split < conf.len /\ conf.valid
<1>1. conf.kind \in Kinds /\ conf.valid \in BOOLEAN /\ conf.len \in 1 .. MaxRecord /\ conf.split \in 0 .. MaxRecord
  BY DEF Confs
<1>2. Splits => conf.split > 0 /\ conf.split < conf.len /\ conf.valid
  BY DEF Splits
<1>3. HeaderLen \in Nat /\ HeaderLen > 0 /\ FragStreamLen \in Nat
  BY FragSizes
<1>5. conf.kind \in {"len", "hello"}
  BY <1>1, FragSizes
<1>4. conf.len \in Nat /\ conf.len > 0 /\ conf.split \in Nat
  BY <1>1, FragSizes
<1> QED BY <1>1, <1>2, <1>3, <1>4, <1>5

(* A header and a stretch of the stream, byte by byte.                     *)
LEMMA HeaderBytes ==
  ASSUME HeaderLen \in Nat, NEW n \in Int
  PROVE  /\ Header(n) \in Seq(StreamByte) /\ Len(Header(n)) = HeaderLen
         /\ \A i \in 1 .. HeaderLen : Header(n)[i] = [h |-> i, len |-> n]
<1>1. Header(n) \in [1 .. HeaderLen -> StreamByte]
  BY DEF Header, StreamByte
<1>2. Header(n) \in Seq(StreamByte)
  BY <1>1, IsASeq
<1>3. Len(Header(n)) = HeaderLen
  BY <1>1, <1>2, LenProperties
<1> QED BY <1>2, <1>3 DEF Header

(* A stretch of the stream, byte by byte.                                  *)
LEMMA Stretch ==
  ASSUME NEW a \in Nat, NEW b \in Int, b >= a
  PROVE  /\ StreamBytes(a + 1, b) \in Seq(StreamByte) /\ Len(StreamBytes(a + 1, b)) = b - a
         /\ \A i \in 1 .. b - a : StreamBytes(a + 1, b)[i] = [h |-> 0, len |-> a + i]
<1> DEFINE n == b - a
<1>1. n \in Nat /\ b - (a + 1) + 1 = n
  OBVIOUS
<1>2. \A i \in 1 .. n : (a + 1) + i - 1 = a + i
  OBVIOUS
<1>3. StreamBytes(a + 1, b) = [i \in 1 .. n |-> [h |-> 0, len |-> a + i]]
  BY <1>1, <1>2 DEF StreamBytes
<1> HIDE DEF n
<1>4. StreamBytes(a + 1, b) \in [1 .. n -> StreamByte]
  BY <1>3 DEF StreamByte
<1>5. StreamBytes(a + 1, b) \in Seq(StreamByte)
  BY <1>1, <1>4, IsASeq
<1>6. Len(StreamBytes(a + 1, b)) = n
  BY <1>1, <1>4, <1>5, LenProperties
<1> QED BY <1>3, <1>5, <1>6 DEF n

(* A stretch that ends before it begins is empty.                          *)
LEMMA NoStretch ==
  ASSUME NEW a \in Nat, NEW b \in Int, b < a
  PROVE  StreamBytes(a, b) \in Seq(StreamByte) /\ Len(StreamBytes(a, b)) = 0
<1>1. 1 .. b - a + 1 = 1 .. 0
  OBVIOUS
<1>2. StreamBytes(a, b) \in [1 .. 0 -> StreamByte]
  BY <1>1 DEF StreamBytes, StreamByte
<1>3. StreamBytes(a, b) \in Seq(StreamByte)
  BY <1>2, IsASeq
<1> QED BY <1>2, <1>3, LenProperties

(* The stream of the caller.                                               *)
LEMMA PlainBytes ==
  ASSUME conf \in Confs
  PROVE  /\ PlainStream \in Seq(StreamByte)
         /\ Len(PlainStream) \in Nat /\ Len(PlainStream) >= FragStreamLen
         /\ \A i \in 1 .. Len(PlainStream) : PlainStream[i] = PlainByte[i]
<1> DEFINE h == Header(conf.len)
           t == StreamBytes(HeaderLen + 1, FragStreamLen)
           H == HeaderLen
           n == IF FragStreamLen < H THEN 0 ELSE FragStreamLen - H
           s == h \o t
<1>1. H \in Nat /\ FragStreamLen \in Nat /\ conf.len \in Int /\ n \in Nat /\ H + n >= FragStreamLen
  BY ConfNumbers
<1>2. h \in Seq(StreamByte) /\ Len(h) = H /\ \A i \in 1 .. H : h[i] = [h |-> i, len |-> conf.len]
  BY <1>1, HeaderBytes
<1>3. t \in Seq(StreamByte) /\ Len(t) = n /\ \A i \in 1 .. n : t[i] = [h |-> 0, len |-> H + i]
  <2>1. H + 1 \in Nat /\ FragStreamLen \in Int
    BY <1>1
  <2>2. CASE FragStreamLen < H
    <3>1. n = 0 /\ FragStreamLen < H + 1
      BY <1>1, <2>2
    <3> QED BY <2>1, <3>1, NoStretch
  <2>3. CASE FragStreamLen >= H
    <3>1. n = FragStreamLen - H
      BY <1>1, <2>3
    <3>2. t = StreamBytes(H + 1, FragStreamLen)
      OBVIOUS
    <3> HIDE DEF n, H, t
    <3> QED BY <1>1, <2>1, <2>3, <3>1, <3>2, Stretch
  <2> QED BY <1>1, <2>2, <2>3
<1>4. PlainStream = s
  BY DEF PlainStream
<1>5. PlainByte = [i \in Nat |-> IF i <= H THEN [h |-> i, len |-> conf.len] ELSE [h |-> 0, len |-> i]]
  BY DEF PlainByte
<1> HIDE DEF h, t, n, H
<1>6. s \in Seq(StreamByte) /\ IsJoin(s, h, t)
  BY <1>2, <1>3, Join
<1> HIDE DEF s
<1>7. Len(s) = H + n
  BY <1>2, <1>3, <1>6 DEF IsJoin
<1>8. ASSUME NEW i \in 1 .. Len(s) PROVE s[i] = PlainByte[i]
  <2>1. i \in Nat /\ i >= 1 /\ i <= H + n
    BY <1>1, <1>7
  <2>2. CASE i <= H
    <3>1. i \in 1 .. H
      BY <1>1, <2>1, <2>2
    <3> QED BY <1>2, <1>5, <1>6, <2>1, <2>2, <3>1 DEF IsJoin
  <2>3. CASE ~(i <= H)
    <3>1. i - H \in 1 .. n /\ H + (i - H) = i
      BY <1>1, <2>1, <2>3
    <3>2. s[H + (i - H)] = t[i - H]
      BY <1>2, <1>3, <1>6, <3>1 DEF IsJoin
    <3> QED BY <1>3, <1>5, <2>1, <2>3, <3>1, <3>2
  <2> QED BY <2>2, <2>3
<1> QED BY <1>1, <1>4, <1>6, <1>7, <1>8

(* The stream with its first record cut in two.                            *)
LEMMA CutBytes ==
  ASSUME conf \in Confs, Splits
  PROVE  /\ FragmentedStream \in Seq(StreamByte)
         /\ Len(FragmentedStream) \in Nat /\ Len(FragmentedStream) >= FragStreamLen + HeaderLen
         /\ Len(FragmentedStream) >= 2 * HeaderLen + conf.split
         /\ \A i \in 1 .. Len(FragmentedStream) : FragmentedStream[i] = CutByte[i]
<1> DEFINE H == HeaderLen
           c == conf.split
           d == conf.len - conf.split
           h1 == Header(c)
           t1 == StreamBytes(H + 1, H + c)
           h2 == Header(d)
           t2 == StreamBytes(H + c + 1, FragStreamLen)
           n == IF FragStreamLen < H + c THEN 0 ELSE FragStreamLen - (H + c)
           r1 == h1 \o t1
           r2 == r1 \o h2
           s == r2 \o t2
<1>1. H \in Nat /\ FragStreamLen \in Nat /\ c \in Nat /\ d \in Int /\ n \in Nat /\ H + c + n >= FragStreamLen
  BY ConfNumbers
<1>2. h1 \in Seq(StreamByte) /\ Len(h1) = H /\ \A i \in 1 .. H : h1[i] = [h |-> i, len |-> c]
  BY <1>1, HeaderBytes
<1>3. t1 \in Seq(StreamByte) /\ Len(t1) = c /\ \A i \in 1 .. c : t1[i] = [h |-> 0, len |-> H + i]
  <2>1. H + c \in Int /\ H + c >= H /\ (H + c) - H = c
    BY <1>1
  <2> HIDE DEF c, H
  <2> QED BY <1>1, <2>1, Stretch
<1>4. h2 \in Seq(StreamByte) /\ Len(h2) = H /\ \A i \in 1 .. H : h2[i] = [h |-> i, len |-> d]
  BY <1>1, HeaderBytes
<1>5. t2 \in Seq(StreamByte) /\ Len(t2) = n /\ \A i \in 1 .. n : t2[i] = [h |-> 0, len |-> H + c + i]
  <2> DEFINE a == H + c
  <2>1. a \in Nat /\ a + 1 \in Nat /\ FragStreamLen \in Int
    BY <1>1
  <2>2. CASE FragStreamLen < H + c
    <3>1. n = 0 /\ FragStreamLen < a + 1
      BY <1>1, <2>2
    <3> QED BY <2>1, <3>1, NoStretch
  <2>3. CASE FragStreamLen >= H + c
    <3>1. n = FragStreamLen - a /\ FragStreamLen >= a
      BY <1>1, <2>3
    <3>2. t2 = StreamBytes(a + 1, FragStreamLen)
      OBVIOUS
    <3> HIDE DEF n, t2, a
    <3>3. t2 \in Seq(StreamByte) /\ Len(t2) = n /\ \A i \in 1 .. n : t2[i] = [h |-> 0, len |-> a + i]
      BY <2>1, <3>1, <3>2, Stretch
    <3> QED BY <3>3 DEF a
  <2> QED BY <1>1, <2>2, <2>3
<1>6. FragmentedStream = s
  BY DEF FragmentedStream
<1>7. CutByte = [i \in Nat |-> IF i <= H THEN [h |-> i, len |-> c]
                               ELSE IF i <= H + c THEN [h |-> 0, len |-> i]
                               ELSE IF i <= 2 * H + c THEN [h |-> i - H - c, len |-> d]
                               ELSE [h |-> 0, len |-> i - H]]
  BY DEF CutByte
<1> HIDE DEF H, c, d, h1, t1, h2, t2, n
<1>8. r1 \in Seq(StreamByte) /\ IsJoin(r1, h1, t1)
  BY <1>2, <1>3, Join
<1> HIDE DEF r1
<1>9. r2 \in Seq(StreamByte) /\ IsJoin(r2, r1, h2)
  BY <1>4, <1>8, Join
<1> HIDE DEF r2
<1>10. s \in Seq(StreamByte) /\ IsJoin(s, r2, t2)
  BY <1>5, <1>9, Join
<1> HIDE DEF s
<1>11. Len(r1) = H + c
  BY <1>2, <1>3, <1>8 DEF IsJoin
<1>12. Len(r2) = 2 * H + c
  BY <1>1, <1>4, <1>9, <1>11 DEF IsJoin
<1>13. Len(s) = 2 * H + c + n
  BY <1>1, <1>5, <1>10, <1>12 DEF IsJoin
<1>14. ASSUME NEW i \in 1 .. Len(s) PROVE s[i] = CutByte[i]
  <2>1. i \in Nat /\ i >= 1 /\ i <= 2 * H + c + n
    BY <1>1, <1>13
  <2>2. CASE i <= H
    <3>1. i \in 1 .. H /\ i \in 1 .. H + c /\ i \in 1 .. 2 * H + c
      BY <1>1, <2>1, <2>2
    <3>2. s[i] = r2[i] /\ r2[i] = r1[i] /\ r1[i] = h1[i]
      BY <1>2, <1>8, <1>9, <1>10, <1>11, <1>12, <3>1 DEF IsJoin
    <3> QED BY <1>2, <1>7, <2>1, <2>2, <3>1, <3>2
  <2>3. CASE ~(i <= H) /\ i <= H + c
    <3> DEFINE j == i - H
    <3>1. j \in 1 .. c /\ H + j = i /\ i \in 1 .. H + c /\ i \in 1 .. 2 * H + c
      BY <1>1, <2>1, <2>3
    <3> HIDE DEF j
    <3>2. s[i] = r2[i] /\ r2[i] = r1[i]
      BY <1>9, <1>10, <1>11, <1>12, <3>1 DEF IsJoin
    <3>3. r1[H + j] = t1[j]
      BY <1>2, <1>3, <1>8, <3>1 DEF IsJoin
    <3> QED BY <1>3, <1>7, <2>1, <2>3, <3>1, <3>2, <3>3
  <2>4. CASE ~(i <= H + c) /\ i <= 2 * H + c
    <3> DEFINE j == i - (H + c)
    <3>1. /\ j \in 1 .. H /\ (H + c) + j = i /\ i \in 1 .. 2 * H + c
          /\ ~(i <= H) /\ j = i - H - c
      BY <1>1, <2>1, <2>4
    <3> HIDE DEF j
    <3>2. s[i] = r2[i]
      BY <1>10, <1>12, <3>1 DEF IsJoin
    <3>3. r2[(H + c) + j] = h2[j]
      BY <1>4, <1>9, <1>11, <3>1 DEF IsJoin
    <3>4. CutByte[i] = [h |-> i - H - c, len |-> d]
      BY <1>7, <2>1, <2>4, <3>1
    <3> QED BY <1>4, <3>1, <3>2, <3>3, <3>4
  <2>5. CASE ~(i <= 2 * H + c)
    <3> DEFINE j == i - (2 * H + c)
    <3>1. j \in 1 .. n /\ (2 * H + c) + j = i /\ ~(i <= H) /\ ~(i <= H + c) /\ H + c + j = i - H
      BY <1>1, <2>1, <2>5
    <3> HIDE DEF j
    <3>2. s[(2 * H + c) + j] = t2[j]
      BY <1>5, <1>10, <1>12, <3>1 DEF IsJoin
    <3>3. CutByte[i] = [h |-> 0, len |-> i - H]
      BY <1>7, <2>1, <2>5, <3>1
    <3> QED BY <1>5, <3>1, <3>2, <3>3
  <2> QED BY <1>1, <2>1, <2>2, <2>3, <2>4, <2>5
<1>15. Len(s) \in Nat /\ Len(s) >= FragStreamLen + H /\ Len(s) >= 2 * H + c
  BY <1>1, <1>13
<1> QED BY <1>6, <1>10, <1>14, <1>15 DEF H, c

(* The record is cut, the bytes the base is to see, and a piece of them.    *)
IsCut == Splits /\ (conf.kind = "hello" => frag.cut)

Expected == IF IsCut THEN CutByte ELSE PlainByte

Follows(bs, n) == bs \in Seq(StreamByte) /\ \A i \in 1 .. Len(bs) : bs[i] = Expected[n + i]

(* The bytes of the two records and of what is behind them.                *)
LEMMA ExpectedBytes ==
  ASSUME conf \in Confs, NEW i \in Nat
  PROVE  /\ i > HeaderLen => PlainByte[i] = [h |-> 0, len |-> i]
         /\ ~IsCut /\ i <= HeaderLen => Expected[i] = [h |-> i, len |-> conf.len]
         /\ ~IsCut /\ i > HeaderLen => Expected[i] = [h |-> 0, len |-> i]
         /\ IsCut /\ i <= HeaderLen => Expected[i] = [h |-> i, len |-> conf.split]
         /\ IsCut /\ i > HeaderLen /\ i <= HeaderLen + conf.split => Expected[i] = [h |-> 0, len |-> i]
         /\ IsCut /\ i > HeaderLen + conf.split /\ i <= 2 * HeaderLen + conf.split
              => Expected[i] = [h |-> i - HeaderLen - conf.split, len |-> conf.len - conf.split]
         /\ IsCut /\ i > 2 * HeaderLen + conf.split => Expected[i] = [h |-> 0, len |-> i - HeaderLen]
<1>1. HeaderLen \in Nat /\ conf.split \in Nat
  BY ConfNumbers
<1>2. CASE IsCut
  <2>1. Expected[i] = CutByte[i]
    BY <1>2 DEF Expected
  <2>2. CutByte[i] = IF i <= HeaderLen THEN [h |-> i, len |-> conf.split]
                     ELSE IF i <= HeaderLen + conf.split THEN [h |-> 0, len |-> i]
                     ELSE IF i <= 2 * HeaderLen + conf.split
                          THEN [h |-> i - HeaderLen - conf.split, len |-> conf.len - conf.split]
                     ELSE [h |-> 0, len |-> i - HeaderLen]
    BY DEF CutByte
  <2> QED BY <1>1, <1>2, <2>1, <2>2 DEF PlainByte
<1>3. CASE ~IsCut
  <2>1. Expected[i] = PlainByte[i]
    BY <1>3 DEF Expected
  <2> QED BY <1>1, <1>3, <2>1 DEF PlainByte
<1> QED BY <1>2, <1>3

(* The caller's bytes of a call.                                           *)
LEMMA CallBytesAre ==
  ASSUME conf \in Confs, taken \in Nat, NEW n \in Nat, taken + n <= FragStreamLen
  PROVE  /\ CallBytes(n) \in Seq(StreamByte) /\ Len(CallBytes(n)) = n
         /\ \A i \in 1 .. n : CallBytes(n)[i] = PlainByte[taken + i]
<1> DEFINE s == PlainStream
<1>1. s \in Seq(StreamByte) /\ Len(s) \in Nat /\ taken + n <= Len(s) /\ \A i \in 1 .. Len(s) : s[i] = PlainByte[i]
  BY PlainBytes, ConfNumbers
<1>2. CallBytes(n) = SubSeq(s, taken + 1, taken + n)
  BY DEF CallBytes
<1> HIDE DEF s
<1>3. taken + 1 \in Int /\ taken + n \in Int /\ (taken + n) - (taken + 1) + 1 = n
  OBVIOUS
<1>4. \A i \in taken + 1 .. taken + n : s[i] \in StreamByte
  BY <1>1
<1>5. \A i \in 1 .. n : taken + i \in 1 .. Len(s) /\ (taken + 1) + i - 1 = taken + i
  BY <1>1
<1>6. /\ SubSeq(s, taken + 1, taken + n) \in Seq(StreamByte)
      /\ Len(SubSeq(s, taken + 1, taken + n)) = IF taken + 1 <= taken + n THEN n ELSE 0
      /\ \A i \in 1 .. n : SubSeq(s, taken + 1, taken + n)[i] = s[(taken + 1) + i - 1]
  BY <1>3, <1>4, SubSeqProperties
<1>7. (IF taken + 1 <= taken + n THEN n ELSE 0) = n
  OBVIOUS
<1>8. \A i \in 1 .. n : SubSeq(s, taken + 1, taken + n)[i] = PlainByte[taken + i]
  BY <1>1, <1>5, <1>6
<1> QED BY <1>2, <1>6, <1>7, <1>8

(* The bytes of a header behind the first a and up to b.                   *)
IsHeaderPart(s, n, a, b) ==
  s \in Seq(StreamByte) /\ Len(s) = b - a /\ \A i \in 1 .. b - a : s[i] = [h |-> a + i, len |-> n]

(* A part of a header, byte by byte.                                       *)
LEMMA HeaderPart ==
  ASSUME HeaderLen \in Nat, NEW n \in Int, NEW a \in Nat, NEW b \in Nat, a <= b, b <= HeaderLen
  PROVE  IsHeaderPart(SubSeq(Header(n), a + 1, b), n, a, b)
<1> DEFINE s == Header(n)
<1>1. s \in Seq(StreamByte) /\ Len(s) = HeaderLen /\ \A i \in 1 .. HeaderLen : s[i] = [h |-> i, len |-> n]
  BY HeaderBytes
<1> HIDE DEF s
<1>2. a + 1 \in Int /\ b \in Int /\ b - (a + 1) + 1 = b - a
  OBVIOUS
<1>3. \A i \in a + 1 .. b : s[i] \in StreamByte
  BY <1>1
<1>4. \A i \in 1 .. b - a : a + i \in 1 .. HeaderLen /\ (a + 1) + i - 1 = a + i
  OBVIOUS
<1>5. /\ SubSeq(s, a + 1, b) \in Seq(StreamByte)
      /\ Len(SubSeq(s, a + 1, b)) = IF a + 1 <= b THEN b - a ELSE 0
      /\ \A i \in 1 .. b - a : SubSeq(s, a + 1, b)[i] = s[(a + 1) + i - 1]
  BY <1>2, <1>3, SubSeqProperties
<1> QED BY <1>1, <1>4, <1>5 DEF s, IsHeaderPart

(* The first part of a sequence.                                           *)
LEMMA FirstPart ==
  ASSUME NEW S, NEW s \in Seq(S), NEW k \in 0 .. Len(s)
  PROVE  /\ SubSeq(s, 1, k) \in Seq(S) /\ Len(SubSeq(s, 1, k)) = k
         /\ \A i \in 1 .. k : SubSeq(s, 1, k)[i] = s[i]
<1>1. 1 \in Int /\ k \in Int /\ k - 1 + 1 = k /\ \A i \in 1 .. k : s[i] \in S /\ 1 + i - 1 = i
  OBVIOUS
<1>2. /\ SubSeq(s, 1, k) \in Seq(S)
      /\ Len(SubSeq(s, 1, k)) = IF 1 <= k THEN k - 1 + 1 ELSE 0
      /\ \A i \in 1 .. k - 1 + 1 : SubSeq(s, 1, k)[i] = s[1 + i - 1]
  BY <1>1, SubSeqProperties
<1> QED BY <1>1, <1>2

(* What follows, up to a point, and two pieces one behind the other.       *)
LEMMA PartFollows ==
  ASSUME NEW s \in Seq(StreamByte), NEW n \in Nat, NEW k \in 0 .. Len(s),
         \A i \in 1 .. k : s[i] = Expected[n + i]
  PROVE  Follows(SubSeq(s, 1, k), n) /\ Len(SubSeq(s, 1, k)) = k
BY FirstPart DEF Follows

(* Two pieces that follow one another follow as one.                       *)
LEMMA JoinFollows ==
  ASSUME NEW s, NEW t, NEW n \in Nat, Follows(s, n), Follows(t, n + Len(s))
  PROVE  Follows(s \o t, n) /\ Len(s \o t) = Len(s) + Len(t)
<1> DEFINE u == s \o t
<1>1. s \in Seq(StreamByte) /\ t \in Seq(StreamByte) /\ Len(s) \in Nat /\ Len(t) \in Nat
  BY DEF Follows
<1>2. u \in Seq(StreamByte) /\ IsJoin(u, s, t)
  BY <1>1, Join
<1> HIDE DEF u
<1>3. ASSUME NEW i \in 1 .. Len(s) + Len(t) PROVE u[i] = Expected[n + i]
  <2>1. CASE i <= Len(s)
    <3>1. i \in 1 .. Len(s)
      BY <1>1, <2>1
    <3> QED BY <1>2, <3>1 DEF IsJoin, Follows
  <2>2. CASE ~(i <= Len(s))
    <3> DEFINE j == i - Len(s)
    <3>1. j \in 1 .. Len(t) /\ Len(s) + j = i /\ (n + Len(s)) + j = n + i
      BY <1>1, <2>2
    <3> HIDE DEF j
    <3>2. u[Len(s) + j] = t[j] /\ t[j] = Expected[(n + Len(s)) + j]
      BY <1>2, <3>1 DEF IsJoin, Follows
    <3> QED BY <3>1, <3>2
  <2> QED BY <2>1, <2>2
<1>4. Len(u) = Len(s) + Len(t)
  BY <1>2 DEF IsJoin
<1>5. Follows(u, n)
  BY <1>2, <1>3, <1>4 DEF Follows
<1> QED BY <1>4, <1>5 DEF u

(* What a write to the base adds to what it has seen.                      *)
LEMMA Sends ==
  ASSUME NEW bs, NEW sent, Follows(out, 0), Follows(bs, Len(out)), BaseWrite(bs, sent)
  PROVE  /\ sent \in 0 .. Len(bs) /\ Len(out') = Len(out) + sent
         /\ out' \in Seq(StreamByte) /\ \A i \in 1 .. Len(out') : out'[i] = Expected[i]
         /\ ~baseDown' /\ (conf.kind \notin Resumers \/ op.kind = "read") => sent = Len(bs)
<1> DEFINE p == SubSeq(bs, 1, sent)
           u == out \o p
<1>1. bs \in Seq(StreamByte) /\ out \in Seq(StreamByte) /\ Len(bs) \in Nat /\ Len(out) \in Nat
  BY DEF Follows
<1>2. sent \in 0 .. Len(bs) /\ out' = u
  BY DEF BaseWrite
<1>3. \A i \in 1 .. sent : bs[i] = Expected[Len(out) + i]
  <2>1. \A i \in 1 .. sent : i \in 1 .. Len(bs)
    BY <1>1, <1>2
  <2>2. \A i \in 1 .. Len(bs) : bs[i] = Expected[Len(out) + i]
    BY DEF Follows
  <2> QED BY <2>1, <2>2
<1>4. Follows(p, Len(out)) /\ Len(p) = sent
  BY <1>1, <1>2, <1>3, PartFollows
<1> HIDE DEF p
<1>5. 0 \in Nat /\ 0 + Len(out) = Len(out)
  BY <1>1
<1>6. Follows(u, 0) /\ Len(u) = Len(out) + Len(p)
  BY <1>4, <1>5, JoinFollows
<1> HIDE DEF u
<1>7. \A i \in 1 .. Len(u) : 0 + i = i
  OBVIOUS
<1>8. u \in Seq(StreamByte) /\ \A i \in 1 .. Len(u) : u[i] = Expected[i]
  BY <1>6, <1>7 DEF Follows
<1>9. ~baseDown' /\ (conf.kind \notin Resumers \/ op.kind = "read") => sent = Len(bs)
  <2>1. baseDown' = (sent < Len(bs) /\ (conf.kind \notin Resumers \/ op.kind = "read"))
    BY DEF BaseWrite
  <2>2. sent < Len(bs) \/ sent = Len(bs)
    BY <1>1, <1>2
  <2> QED BY <2>1, <2>2
<1> QED BY <1>2, <1>4, <1>6, <1>8, <1>9

(* What is behind the records goes through unchanged.                      *)
LEMMA RestFollows ==
  ASSUME conf \in Confs, taken \in Nat, NEW n \in Nat, taken + n <= FragStreamLen, NEW p \in Nat,
         IsCut => p = taken + HeaderLen /\ taken >= HeaderLen + conf.split,
         ~IsCut => p = taken
  PROVE  Follows(CallBytes(n), p) /\ Len(CallBytes(n)) = n
<1>1. HeaderLen \in Nat /\ conf.split \in Nat
  BY ConfNumbers
<1> DEFINE s == CallBytes(n)
<1>2. s \in Seq(StreamByte) /\ Len(s) = n /\ \A i \in 1 .. n : s[i] = PlainByte[taken + i]
  BY CallBytesAre
<1> HIDE DEF s
<1>3. ASSUME NEW i \in 1 .. n PROVE s[i] = Expected[p + i]
  <2>1. p + i \in Nat /\ taken + i \in Nat
    OBVIOUS
  <2>2. CASE IsCut
    <3>1. taken + i > HeaderLen /\ p + i > 2 * HeaderLen + conf.split /\ (p + i) - HeaderLen = taken + i
      BY <1>1, <2>2
    <3>2. Expected[p + i] = [h |-> 0, len |-> (p + i) - HeaderLen]
      BY <2>1, <2>2, <3>1, ExpectedBytes
    <3>3. PlainByte[taken + i] = [h |-> 0, len |-> taken + i]
      BY <2>1, <3>1, ExpectedBytes
    <3> QED BY <1>2, <3>1, <3>2, <3>3
  <2>3. CASE ~IsCut
    BY <1>2, <2>3 DEF Expected
  <2> QED BY <2>2, <2>3
<1>4. Follows(s, p)
  BY <1>2, <1>3 DEF Follows
<1> QED BY <1>2, <1>4 DEF s

(* Every variable has its type while the base works.                       *)
Writers == [done : BOOLEAN, hdr : Nat, tls : BOOLEAN, announced : Int, r1Size : Int, r1Written : Nat,
            r2Size : Int, record : Seq(StreamByte), cut : BOOLEAN]

Places == {"idle", "fill", "firstRecord", "header", "rest", "firstReader", "secondReader",
           "buffer", "flush"}

FragTypeOK ==
  /\ conf \in Confs /\ frag \in Writers
  /\ op \in [kind : {"none", "write", "read", "readErr"}, at : Places, left : Nat]
  /\ op.at = "idle" => op = NoCall
  /\ taken \in Nat /\ taken + op.left <= FragStreamLen
  /\ frag.done => frag.tls

(* recordLenFragWriter: the header is incomplete, the first record is on   *)
(* its way, or it is out, and then one header at most is left to write.    *)
LenFilling ==
  ~frag.tls => /\ out = <<>> /\ taken = frag.hdr /\ frag.hdr < HeaderLen /\ frag.r1Written = 0
               /\ frag.announced = conf.len
               /\ op.at \in {"idle", "fill", "firstReader", "secondReader"}

LenFirstRecord ==
  frag.tls /\ ~frag.done =>
    /\ Splits /\ frag.hdr = HeaderLen /\ frag.announced = conf.split
    /\ frag.r1Size = conf.split + HeaderLen /\ frag.r2Size = conf.len - conf.split + HeaderLen
    /\ frag.r1Written < frag.r1Size /\ Len(out) = frag.r1Written
    /\ taken = IF frag.r1Written < HeaderLen THEN HeaderLen ELSE frag.r1Written
    /\ op.at # "firstReader" => frag.r1Written = 0 \/ frag.r1Written >= HeaderLen
    /\ op.at \in {"idle", "fill", "firstRecord", "firstReader", "secondReader"}

LenBehind ==
  frag.done =>
    /\ frag.hdr <= HeaderLen
    /\ op.at \in {"idle", "fill", "header", "rest", "firstReader", "secondReader"}
    /\ op.at = "rest" => frag.hdr = 0
    /\ Splits => /\ frag.announced = conf.len - conf.split
                 /\ Len(out) = taken + HeaderLen - frag.hdr /\ taken >= HeaderLen + conf.split
                 /\ frag.hdr > 0 => taken = HeaderLen + conf.split
    /\ ~Splits => /\ frag.announced = conf.len
                  /\ Len(out) = taken - frag.hdr /\ taken >= HeaderLen
                  /\ frag.hdr > 0 => taken = HeaderLen

LenInv == FragTypeOK /\ Follows(out, 0) /\ LenFilling /\ LenFirstRecord /\ LenBehind

(* clientHelloFragWriter: the record is collected, cut, written, out.      *)
HelloInv ==
  /\ FragTypeOK /\ Follows(out, 0)
  /\ op.at \in {"idle", "buffer", "flush", "rest"}
  /\ ~frag.tls => /\ out = <<>> /\ taken = frag.hdr /\ frag.record = <<>> /\ ~frag.cut
                  /\ frag.hdr < IF conf.valid THEN HeaderLen + conf.len ELSE HeaderLen
                  /\ op.at \in {"idle", "buffer"}
  /\ frag.tls => /\ Len(out) + Len(frag.record) = taken + HeaderAdded
                 /\ Follows(frag.record, Len(out))
                 /\ frag.cut => taken >= HeaderLen + conf.len
  /\ frag.done => frag.record = <<>>
  /\ op.at = "rest" => frag.done
  /\ op.at = "flush" => ~frag.done

(* The inductive invariant of both writers.                                *)
FragInv == ~baseDown => \/ conf.kind = "len" /\ LenInv
                        \/ conf.kind = "hello" /\ HelloInv

(* The header of a record follows: of the first, and of the one behind.    *)
LEMMA FirstHeaderFollows ==
  ASSUME conf \in Confs, IsCut, NEW a \in Nat, NEW b \in Nat, a <= b, b <= HeaderLen
  PROVE  /\ Follows(SubSeq(Header(conf.split), a + 1, b), a)
         /\ Len(SubSeq(Header(conf.split), a + 1, b)) = b - a
<1> DEFINE s == SubSeq(Header(conf.split), a + 1, b)
<1>1. HeaderLen \in Nat /\ conf.split \in Int
  BY ConfNumbers
<1>2. s \in Seq(StreamByte) /\ Len(s) = b - a /\ \A i \in 1 .. b - a : s[i] = [h |-> a + i, len |-> conf.split]
  BY <1>1, HeaderPart DEF IsHeaderPart
<1> HIDE DEF s
<1>3. ASSUME NEW i \in 1 .. b - a PROVE s[i] = Expected[a + i]
  <2>1. a + i \in Nat /\ a + i <= HeaderLen
    BY <1>1
  <2> QED BY <1>2, <2>1, ExpectedBytes
<1> QED BY <1>2, <1>3 DEF Follows, s

(* What is left of the header behind the first record follows.             *)
LEMMA NextHeaderFollows ==
  ASSUME conf \in Confs, frag \in Writers, frag.hdr <= HeaderLen, NEW p \in Nat,
         IsCut => p = 2 * HeaderLen + conf.split - frag.hdr /\ frag.announced = conf.len - conf.split,
         ~IsCut => p = HeaderLen - frag.hdr /\ frag.announced = conf.len
  PROVE  Follows(HdrLeft, p) /\ Len(HdrLeft) = frag.hdr
<1> DEFINE s == HdrLeft
           n == frag.announced
           a == HeaderLen - frag.hdr
<1>0. n \in Int /\ frag.hdr \in Nat
  BY DEF Writers
<1> HIDE DEF n
<1>1. /\ HeaderLen \in Nat /\ conf.split \in Nat /\ conf.len \in Nat
      /\ a \in Nat /\ a <= HeaderLen /\ HeaderLen - a = frag.hdr
  BY <1>0, ConfNumbers
<1>2. s = SubSeq(Header(n), a + 1, HeaderLen)
  BY DEF HdrLeft, n
<1> HIDE DEF s
<1>3. s \in Seq(StreamByte) /\ Len(s) = frag.hdr /\ \A i \in 1 .. frag.hdr : s[i] = [h |-> a + i, len |-> n]
  <2> HIDE DEF a
  <2> DEFINE b == HeaderLen
  <2>1. b \in Nat /\ b <= HeaderLen /\ a <= b /\ b - a = frag.hdr
    BY <1>1
  <2>2. HeaderLen \in Nat /\ a \in Nat
    BY <1>1
  <2> HIDE DEF b
  <2>3. IsHeaderPart(SubSeq(Header(n), a + 1, b), n, a, b)
    BY <1>0, <2>1, <2>2, HeaderPart
  <2>4. s = SubSeq(Header(n), a + 1, b)
    BY <1>2 DEF b
  <2> QED BY <2>1, <2>3, <2>4 DEF IsHeaderPart
<1>4. ASSUME NEW i \in 1 .. frag.hdr PROVE s[i] = Expected[p + i]
  <2>1. p + i \in Nat
    BY <1>0, <1>1
  <2>2. CASE IsCut
    <3>1. /\ p + i > HeaderLen + conf.split /\ p + i <= 2 * HeaderLen + conf.split
          /\ (p + i) - HeaderLen - conf.split = a + i
      BY <1>1, <2>2
    <3>2. Expected[p + i] = [h |-> (p + i) - HeaderLen - conf.split, len |-> conf.len - conf.split]
      BY <2>1, <2>2, <3>1, ConfNumbers, ExpectedBytes
    <3> QED BY <1>3, <2>2, <3>1, <3>2 DEF n
  <2>3. CASE ~IsCut
    <3>1. p + i <= HeaderLen /\ p + i = a + i
      BY <1>1, <2>3
    <3>2. Expected[p + i] = [h |-> p + i, len |-> conf.len]
      BY <2>1, <2>3, <3>1, ExpectedBytes
    <3> QED BY <1>3, <2>3, <3>1, <3>2 DEF n
  <2> QED BY <2>2, <2>3
<1> QED BY <1>3, <1>4 DEF Follows, s

(* The payload of the first record.                                        *)
LEMMA FirstPayload ==
  ASSUME conf \in Confs, IsCut, taken \in Nat, taken >= HeaderLen, NEW n \in Nat, taken + n <= FragStreamLen,
         taken + n <= HeaderLen + conf.split
  PROVE  Follows(CallBytes(n), taken) /\ Len(CallBytes(n)) = n
<1> DEFINE s == CallBytes(n)
<1>1. HeaderLen \in Nat /\ HeaderLen > 0 /\ conf.split \in Nat
  BY ConfNumbers
<1>2. s \in Seq(StreamByte) /\ Len(s) = n /\ \A i \in 1 .. n : s[i] = PlainByte[taken + i]
  BY CallBytesAre
<1> HIDE DEF s
<1>3. ASSUME NEW i \in 1 .. n PROVE s[i] = Expected[taken + i]
  <2>1. taken + i \in Nat /\ taken + i > HeaderLen /\ taken + i <= HeaderLen + conf.split
    BY <1>1
  <2> QED BY <1>2, <2>1, ExpectedBytes
<1> QED BY <1>2, <1>3 DEF Follows, s

(* What the base has seen is the beginning of the one stream or the other. *)
LEMMA PrefixOf ==
  ASSUME NEW S, NEW s \in Seq(S), NEW t \in Seq(S), Len(s) <= Len(t), \A i \in 1 .. Len(s) : s[i] = t[i]
  PROVE  IsPrefix(s, t)
<1> DEFINE n == Len(s)
           u == SubSeq(s, 1, n)
           v == SubSeq(t, 1, n)
<1>1. n \in Nat /\ n \in 0 .. Len(s) /\ n \in 0 .. Len(t)
  OBVIOUS
<1>2. u \in Seq(S) /\ Len(u) = n /\ \A i \in 1 .. n : u[i] = s[i]
  BY <1>1, FirstPart
<1>3. v \in Seq(S) /\ Len(v) = n /\ \A i \in 1 .. n : v[i] = t[i]
  BY <1>1, FirstPart
<1>4. IsPrefix(s, t) <=> n <= Len(t) /\ u = v
  BY DEF IsPrefix
<1> HIDE DEF u, v
<1>5. \A i \in 1 .. n : u[i] = v[i]
  BY <1>2, <1>3
<1>6. u = v
  BY <1>2, <1>3, <1>5, SeqEqual
<1> QED BY <1>4, <1>6

(* What follows from the first byte on is the beginning of a stream.       *)
LEMMA FollowedStream ==
  ASSUME conf \in Confs, Follows(out, 0), taken \in Nat, taken <= FragStreamLen,
         IsCut => Len(out) <= taken + HeaderLen \/ Len(out) <= 2 * HeaderLen + conf.split,
         ~IsCut => Len(out) <= taken
  PROVE  \/ IsPrefix(out, FragmentedStream)
         \/ conf.kind = "hello" /\ ~frag.cut /\ IsPrefix(out, PlainStream)
<1>1. out \in Seq(StreamByte) /\ Len(out) \in Nat /\ \A i \in 1 .. Len(out) : out[i] = Expected[0 + i]
  BY DEF Follows
<1>2. \A i \in 1 .. Len(out) : out[i] = Expected[i]
  <2>1. \A i \in 1 .. Len(out) : 0 + i = i
    OBVIOUS
  <2> QED BY <1>1, <2>1
<1>3. HeaderLen \in Nat /\ FragStreamLen \in Nat /\ conf.split \in Nat
  BY ConfNumbers
<1>4. CASE IsCut
  <2>1. Splits
    BY <1>4 DEF IsCut
  <2> DEFINE s == FragmentedStream
  <2>2. /\ s \in Seq(StreamByte) /\ Len(s) \in Nat /\ Len(s) >= FragStreamLen + HeaderLen
        /\ Len(s) >= 2 * HeaderLen + conf.split /\ \A i \in 1 .. Len(s) : s[i] = CutByte[i]
    BY <2>1, CutBytes
  <2> HIDE DEF s
  <2>3. Len(out) <= Len(s) /\ Expected = CutByte
    BY <1>1, <1>3, <1>4, <2>2 DEF Expected
  <2>4. \A i \in 1 .. Len(out) : out[i] = s[i]
    BY <1>1, <1>2, <2>2, <2>3
  <2> QED BY <1>1, <2>2, <2>3, <2>4, PrefixOf DEF s
<1>5. CASE ~IsCut
  <2> DEFINE s == PlainStream
  <2>1. ~Splits => s = FragmentedStream
    BY DEF FragmentedStream
  <2>2. s \in Seq(StreamByte) /\ Len(s) \in Nat /\ Len(s) >= FragStreamLen /\ \A i \in 1 .. Len(s) : s[i] = PlainByte[i]
    BY PlainBytes
  <2> HIDE DEF s
  <2>3. Len(out) <= Len(s) /\ Expected = PlainByte
    BY <1>1, <1>3, <1>5, <2>2 DEF Expected
  <2>4. \A i \in 1 .. Len(out) : out[i] = s[i]
    BY <1>1, <1>2, <2>2, <2>3
  <2>5. IsPrefix(out, s)
    BY <1>1, <2>2, <2>3, <2>4, PrefixOf
  <2> QED BY <1>5, <2>1, <2>5 DEF s, IsCut
<1> QED BY <1>4, <1>5

(* The invariant says what the property promises.                          *)
LEMMA LenOutput ==
  ASSUME LenInv, conf.kind = "len"
  PROVE  /\ \/ IsPrefix(out, FragmentedStream)
            \/ conf.kind = "hello" /\ ~frag.cut /\ IsPrefix(out, PlainStream)
         /\ Len(out) + HeldBack = taken + HeaderAdded
<1>1. /\ conf \in Confs /\ Follows(out, 0) /\ taken \in Nat /\ taken <= FragStreamLen
      /\ HeaderLen \in Nat /\ conf.split \in Nat /\ frag.hdr \in Nat /\ frag.r1Written \in Nat
  BY ConfNumbers DEF LenInv, FragTypeOK, Writers
<1>2. IsCut <=> Splits
  BY DEF IsCut
<1>3. CASE ~frag.tls
  <2>1. out = <<>> /\ taken = frag.hdr /\ frag.hdr < HeaderLen /\ frag.r1Written = 0 /\ ~frag.done
    BY <1>3 DEF LenInv, LenFilling, FragTypeOK
  <2>2. Len(out) = 0
    BY <2>1
  <2>3. HeldBack = frag.hdr /\ HeaderAdded = 0
    <3>1. Min({frag.r1Written, HeaderLen}) = 0
      BY <1>1, <2>1, SmallerOf
    <3> QED BY <1>1, <2>1, <3>1 DEF HeldBack, HeaderAdded
  <2> QED BY <1>1, <2>1, <2>2, <2>3, FollowedStream
<1>4. CASE frag.tls /\ ~frag.done
  <2>1. /\ Splits /\ frag.hdr = HeaderLen /\ frag.r1Written < conf.split + HeaderLen
        /\ Len(out) = frag.r1Written
        /\ taken = IF frag.r1Written < HeaderLen THEN HeaderLen ELSE frag.r1Written
    BY <1>4 DEF LenInv, LenFirstRecord
  <2>2. HeldBack = (IF frag.r1Written < HeaderLen THEN HeaderLen - frag.r1Written ELSE 0) /\ HeaderAdded = 0
    <3>1. Min({frag.r1Written, HeaderLen}) = IF frag.r1Written <= HeaderLen THEN frag.r1Written ELSE HeaderLen
      BY <1>1, SmallerOf
    <3> QED BY <1>1, <1>4, <2>1, <3>1 DEF HeldBack, HeaderAdded
  <2>3. Len(out) <= taken + HeaderLen
    BY <1>1, <2>1
  <2>4. Len(out) + HeldBack = taken + HeaderAdded
    BY <1>1, <2>1, <2>2
  <2> QED BY <1>1, <1>2, <2>1, <2>3, <2>4, FollowedStream
<1>5. CASE frag.done
  <2>1. HeldBack = frag.hdr /\ HeaderAdded = IF Splits THEN HeaderLen ELSE 0
    BY <1>5 DEF HeldBack, HeaderAdded
  <2>2. /\ Splits => Len(out) = taken + HeaderLen - frag.hdr
        /\ ~Splits => Len(out) = taken - frag.hdr
    BY <1>5 DEF LenInv, LenBehind
  <2>3. /\ IsCut => Len(out) <= taken + HeaderLen
        /\ ~IsCut => Len(out) <= taken
    BY <1>1, <1>2, <2>2
  <2>4. Len(out) + HeldBack = taken + HeaderAdded
    BY <1>1, <2>1, <2>2
  <2> QED BY <1>1, <2>3, <2>4, FollowedStream
<1> QED BY <1>3, <1>4, <1>5

(* The same of the writer that collects the record.                        *)
LEMMA HelloOutput ==
  ASSUME HelloInv, conf.kind = "hello"
  PROVE  /\ \/ IsPrefix(out, FragmentedStream)
            \/ conf.kind = "hello" /\ ~frag.cut /\ IsPrefix(out, PlainStream)
         /\ Len(out) + HeldBack = taken + HeaderAdded
<1>1. /\ conf \in Confs /\ Follows(out, 0) /\ taken \in Nat /\ taken <= FragStreamLen
      /\ HeaderLen \in Nat /\ conf.split \in Nat /\ frag.hdr \in Nat
      /\ frag.record \in Seq(StreamByte) /\ out \in Seq(StreamByte)
  BY ConfNumbers DEF HelloInv, FragTypeOK, Writers, Follows
<1>2. HeaderAdded = IF IsCut THEN HeaderLen ELSE 0
  BY DEF IsCut, HeaderAdded
<1> DEFINE n == Len(out)
           r == Len(frag.record)
<1>3. n \in Nat /\ r \in Nat
  BY <1>1
<1>4. n + HeldBack = taken + HeaderAdded /\ n <= taken + HeaderAdded
  <2>1. CASE ~frag.tls
    <3>1. out = <<>> /\ taken = frag.hdr /\ ~frag.cut
      BY <2>1 DEF HelloInv
    <3>2. HeldBack = frag.hdr /\ HeaderAdded = 0
      BY <2>1, <3>1 DEF HeldBack, HeaderAdded
    <3>3. n = 0
      BY <3>1
    <3> QED BY <1>1, <3>1, <3>2, <3>3
  <2>2. CASE frag.tls
    <3>1. n + r = taken + HeaderAdded /\ HeldBack = r
      BY <2>2 DEF HelloInv, HeldBack
    <3> QED BY <1>1, <1>2, <1>3, <3>1
  <2> QED BY <2>1, <2>2
<1>5. /\ IsCut => n <= taken + HeaderLen
      /\ ~IsCut => n <= taken
  BY <1>1, <1>2, <1>3, <1>4
<1> QED BY <1>1, <1>4, <1>5, FollowedStream

(* Nothing is written and nothing is held back in the beginning.           *)
LEMMA FragInitially == FragInit => FragInv
<1> SUFFICES ASSUME FragInit PROVE FragInv
  OBVIOUS
<1>1. conf \in Confs /\ conf.len \in Nat
  BY ConfNumbers DEF FragInit, Confs
<1>2. out = <<>> /\ taken = 0 /\ op = NoCall /\ ~frag.tls /\ ~frag.done /\ ~frag.cut
      /\ frag.hdr = 0 /\ frag.r1Written = 0 /\ frag.record = <<>> /\ frag.announced = conf.len
  BY DEF FragInit
<1>3. frag \in Writers
  <2>1. frag.record \in Seq(StreamByte)
    BY <1>2, EmptySeq
  <2> QED BY <1>1, <2>1, EmptySeq DEF FragInit, Writers
<1>4. /\ op \in [kind : {"none", "write", "read", "readErr"}, at : Places, left : Nat]
      /\ op.at = "idle" /\ op.left = 0
  BY <1>2 DEF NoCall, Places
<1>5. HeaderLen \in Nat /\ HeaderLen > 0 /\ FragStreamLen \in Nat /\ conf.kind \in {"len", "hello"} /\ conf.len > 0
  BY <1>1, ConfNumbers
<1>6. FragTypeOK
  BY <1>1, <1>2, <1>3, <1>4, <1>5 DEF FragTypeOK
<1>7. Follows(out, 0)
  <2>1. out \in Seq(StreamByte) /\ Len(out) = 0
    BY <1>2, EmptySeq
  <2> QED BY <2>1 DEF Follows
<1>8. LenFilling /\ LenFirstRecord /\ LenBehind
  BY <1>2, <1>4, <1>5 DEF LenFilling, LenFirstRecord, LenBehind
<1>9. HelloInv
  BY <1>1, <1>2, <1>4, <1>5, <1>6, <1>7 DEF HelloInv
<1> QED BY <1>5, <1>6, <1>7, <1>8, <1>9 DEF FragInv, LenInv

(* What a step leaves of the streams, and a write that succeeds.           *)
LEMMA StreamKept ==
  ASSUME conf' = conf, conf.kind = "len" \/ frag'.cut = frag.cut
  PROVE  (Splits' <=> Splits) /\ (IsCut' <=> IsCut) /\ Expected' = Expected
<1>1. (Splits' <=> Splits) /\ CutByte' = CutByte /\ PlainByte' = PlainByte
  BY DEF Splits, CutByte, PlainByte
<1>2. IsCut' <=> IsCut
  BY <1>1 DEF IsCut
<1> QED BY <1>1, <1>2 DEF Expected

(* A write to the base goes on with what it is to see.                     *)
LEMMA SentOn ==
  ASSUME NEW bs, NEW sent, Follows(out, 0), Follows(bs, Len(out)), BaseWrite(bs, sent), Expected' = Expected
  PROVE  /\ Follows(out, 0)' /\ sent \in 0 .. Len(bs) /\ Len(out') = Len(out) + sent
         /\ Len(out) \in Nat /\ Len(bs) \in Nat
         /\ ~baseDown' /\ (conf.kind \notin Resumers \/ op.kind = "read") => sent = Len(bs)
<1>1. /\ sent \in 0 .. Len(bs) /\ Len(out') = Len(out) + sent
      /\ out' \in Seq(StreamByte) /\ \A i \in 1 .. Len(out') : out'[i] = Expected[i]
      /\ ~baseDown' /\ (conf.kind \notin Resumers \/ op.kind = "read") => sent = Len(bs)
  BY Sends
<1>2. \A i \in 1 .. Len(out') : 0 + i = i
  OBVIOUS
<1>3. Follows(out, 0)'
  BY <1>1, <1>2 DEF Follows
<1>4. Len(out) \in Nat /\ Len(bs) \in Nat
  BY DEF Follows
<1> QED BY <1>1, <1>3, <1>4

(* recordLenFragWriter, step by step.                                      *)
LenReady == LenInv /\ conf.kind = "len" /\ "len" \notin Resumers

(* The numbers of a step.                                                  *)
LEMMA LenNumbers ==
  ASSUME LenReady
  PROVE  /\ conf \in Confs /\ frag \in Writers /\ taken \in Nat /\ op.left \in Nat
         /\ taken + op.left <= FragStreamLen /\ Follows(out, 0) /\ Len(out) \in Nat
         /\ HeaderLen \in Nat /\ HeaderLen > 0 /\ FragStreamLen \in Nat
         /\ conf.len \in Nat /\ conf.len > 0 /\ conf.split \in Nat
         /\ (IsCut <=> Splits) /\ (Splits => conf.split > 0 /\ conf.split < conf.len)
         /\ conf.kind = "len" /\ conf.kind \notin Resumers
<1>1. conf \in Confs /\ frag \in Writers /\ taken \in Nat /\ taken + op.left <= FragStreamLen
      /\ Follows(out, 0) /\ conf.kind = "len" /\ conf.kind \notin Resumers
  BY DEF LenReady, LenInv, FragTypeOK
<1>2. op.left \in Nat
  BY DEF LenReady, LenInv, FragTypeOK
<1>3. Len(out) \in Nat
  BY <1>1 DEF Follows
<1>4. IsCut <=> Splits
  BY <1>1 DEF IsCut
<1> QED BY <1>1, <1>2, <1>3, <1>4, ConfNumbers

(* The call that runs is a call.                                           *)
Running == [kind : {"none", "write", "read", "readErr"}, at : Places, left : Nat]

(* A call begins at the header or at the readers.                          *)
LEMMA LenCalls == ASSUME LenReady, Call PROVE LenInv'
<1>0. /\ taken \in Nat /\ FragStreamLen \in Nat /\ conf.kind = "len" /\ conf \in Confs
  BY LenNumbers
<1>1. PICK k \in {"write", "read", "readErr"}, n \in 0 .. FragStreamLen - taken :
        op' = [kind |-> k, left |-> n,
               at |-> IF conf.kind = "len" /\ k = "write" THEN "fill"
                      ELSE IF conf.kind = "hello" THEN "buffer"
                      ELSE IF frag.done /\ frag.hdr = 0 THEN "rest" ELSE "firstReader"]
  BY DEF Call
<1>2. op = NoCall /\ UNCHANGED <<conf, frag, taken, out, baseDown>>
  BY DEF Call
<1>3. op.at = "idle"
  BY <1>2 DEF NoCall
<1>4. PICK p \in {"fill", "rest", "firstReader"} :
        /\ op' = [kind |-> k, left |-> n, at |-> p]
        /\ p = "rest" => frag.done /\ frag.hdr = 0
  BY <1>0, <1>1
<1>5. op' \in Running /\ taken + op'.left <= FragStreamLen /\ op'.at = p /\ p # "idle"
  <2>1. n \in Nat /\ taken + n <= FragStreamLen /\ p \in Places
    BY <1>0 DEF Places
  <2> QED BY <1>4, <2>1 DEF Running
<1>6. FragTypeOK'
  BY <1>2, <1>5 DEF LenReady, LenInv, FragTypeOK, Running
<1>7. Expected' = Expected /\ (Splits' <=> Splits)
  BY <1>0, <1>2, StreamKept
<1>8. Follows(out, 0)'
  BY <1>2, <1>7 DEF LenReady, LenInv, Follows
<1>9. LenFilling' /\ LenFirstRecord' /\ LenBehind'
  <2>1. frag.done => frag.tls
    BY DEF LenReady, LenInv, FragTypeOK
  <2>2. LenFilling'
    BY <1>2, <1>4, <1>5, <2>1 DEF LenReady, LenInv, LenFilling
  <2>3. LenFirstRecord'
    BY <1>2, <1>3, <1>4, <1>5, <1>7 DEF LenReady, LenInv, LenFirstRecord
  <2>4. LenBehind'
    BY <1>2, <1>4, <1>5, <1>7 DEF LenReady, LenInv, LenBehind
  <2> QED BY <2>2, <2>3, <2>4
<1> QED BY <1>6, <1>8, <1>9 DEF LenInv

(* A call moves on, with less to do, or ends.                              *)
Onward(m, p) == [op EXCEPT !.left = @ - m, !.at = p]

(* The call that moves on has its type and takes no more than it has.      *)
LEMMA CallMoves ==
  ASSUME FragTypeOK, NEW m \in Nat, m <= op.left,
         op' = NoCall \/ \E p \in Places \ {"idle"} : op' = Onward(m, p)
  PROVE  op' \in Running /\ (op'.at = "idle" => op' = NoCall) /\ taken + m + op'.left <= FragStreamLen
<1>0. op \in Running /\ taken \in Nat /\ taken + op.left <= FragStreamLen /\ op.left \in Nat /\ FragStreamLen \in Nat
  BY FragSizes DEF FragTypeOK, Running
<1>1. CASE op' = NoCall
  <2>1. op' \in Running /\ op'.left = 0
    BY <1>1 DEF NoCall, Running, Places
  <2> QED BY <1>0, <1>1, <2>1
<1>2. ASSUME NEW p \in Places \ {"idle"}, op' = Onward(m, p)
      PROVE  op' \in Running /\ op'.at # "idle" /\ taken + m + op'.left <= FragStreamLen
  <2>1. op.left - m \in Nat /\ taken + m + (op.left - m) <= FragStreamLen
    BY <1>0
  <2>2. op' \in Running /\ op'.at = p /\ op'.left = op.left - m
    BY <1>0, <1>2, <2>1 DEF Running, Onward
  <2> QED BY <2>1, <2>2
<1> QED BY <1>1, <1>2

(* A step that moves the call on, or ends it.                              *)
LEMMA LenMoves ==
  ASSUME LenReady, UNCHANGED <<conf, frag, taken, out>>,
         op' = NoCall \/ \E p \in Places \ {"idle"} : op' = Onward(0, p),
         \/ op'.at = "idle" /\ (op.at = "firstReader" => ~frag.tls \/ frag.done)
         \/ op'.at = "header" /\ frag.done
         \/ op'.at = "firstRecord" /\ frag.tls /\ ~frag.done /\ op.at = "fill"
         \/ op'.at = "rest" /\ frag.done /\ frag.hdr = 0
         \/ op'.at = "secondReader" /\ (~frag.tls \/ frag.done)
  PROVE  LenInv'
<1>0. conf \in Confs /\ frag \in Writers /\ taken \in Nat /\ op.left \in Nat /\ op \in Running /\ conf.kind = "len"
      /\ (frag.done => frag.tls) /\ FragTypeOK /\ Follows(out, 0)
  BY LenNumbers DEF LenReady, LenInv, FragTypeOK, Running
<1>1. op' \in Running /\ (op'.at = "idle" => op' = NoCall) /\ taken + op'.left <= FragStreamLen
  <2>1. 0 \in Nat /\ 0 <= op.left /\ taken + 0 = taken
    BY <1>0
  <2> QED BY <1>0, <2>1, CallMoves
<1>2. FragTypeOK'
  BY <1>0, <1>1 DEF FragTypeOK, Running
<1>3. Expected' = Expected /\ (Splits' <=> Splits)
  BY <1>0, StreamKept
<1>4. Follows(out, 0)'
  BY <1>0, <1>3 DEF Follows
<1>5. LenFilling'
  BY <1>0 DEF LenReady, LenInv, LenFilling
<1>6. LenFirstRecord'
  BY <1>0, <1>3 DEF LenReady, LenInv, LenFirstRecord
<1>7. LenBehind'
  BY <1>0, <1>3 DEF LenReady, LenInv, LenBehind
<1> QED BY <1>2, <1>4, <1>5, <1>6, <1>7 DEF LenInv

(* The header takes m more bytes of the caller.                            *)
LEMMA HeaderFills ==
  ASSUME LenReady, ~frag.tls, NEW m \in Nat, m <= op.left, frag.hdr + m <= HeaderLen,
         frag' = Filled(m), taken' = taken + m, UNCHANGED <<conf, out>>,
         op' = NoCall \/ \E p \in Places \ {"idle"} : op' = Onward(m, p),
         \/ op'.at = "idle" /\ frag.hdr + m < HeaderLen
         \/ op'.at = "header" /\ frag'.done
         \/ op'.at \in {"firstRecord", "firstReader"} /\ frag'.tls /\ ~frag'.done
         \/ op'.at = "secondReader" /\ (~frag'.tls \/ frag'.done)
  PROVE  LenInv'
<1>0. /\ conf \in Confs /\ frag \in Writers /\ taken \in Nat /\ conf.kind = "len" /\ FragTypeOK /\ Follows(out, 0)
      /\ HeaderLen \in Nat /\ HeaderLen > 0 /\ conf.len \in Nat /\ conf.split \in Nat
      /\ (Splits => conf.split > 0 /\ conf.split < conf.len)
  BY LenNumbers DEF LenReady, LenInv
<1>1. /\ out = <<>> /\ taken = frag.hdr /\ frag.hdr < HeaderLen /\ frag.r1Written = 0 /\ ~frag.done
      /\ frag.announced = conf.len
  BY DEF LenReady, LenInv, LenFilling, FragTypeOK
<1>2. Len(out) = 0 /\ frag.hdr \in Nat
  BY <1>0, <1>1 DEF Writers
<1>3. op' \in Running /\ (op'.at = "idle" => op' = NoCall) /\ taken' + op'.left <= FragStreamLen /\ taken' \in Nat
  BY <1>0, CallMoves
<1>4. Expected' = Expected /\ (Splits' <=> Splits)
  BY <1>0, StreamKept
<1>5. Follows(out, 0)'
  BY <1>0, <1>4 DEF Follows
<1> DEFINE k == frag.hdr + m
<1>6. k \in Nat /\ k <= HeaderLen /\ taken' = k /\ Len(out') = 0 /\ out' = <<>>
  BY <1>0, <1>1, <1>2
<1>7. Filled(m) = IF k < HeaderLen THEN [frag EXCEPT !.hdr = k] ELSE ParseHeader([frag EXCEPT !.hdr = k])
  BY <1>0 DEF Filled, Writers
<1> HIDE DEF k
<1>8. frag' \in Writers /\ (frag'.done => frag'.tls) /\ LenFilling' /\ LenFirstRecord' /\ LenBehind'
  <2>1. CASE k < HeaderLen
    <3>1. frag' = [frag EXCEPT !.hdr = k]
      BY <1>7, <2>1
    <3>2. frag' \in Writers /\ ~frag'.tls /\ ~frag'.done /\ frag'.hdr = k /\ frag'.r1Written = 0
          /\ frag'.announced = conf.len
      BY <1>0, <1>1, <1>6, <3>1 DEF Writers
    <3>3. op'.at \in {"idle", "secondReader"}
      BY <3>2
    <3> QED BY <1>6, <2>1, <3>2, <3>3 DEF LenFilling, LenFirstRecord, LenBehind
  <2>2. CASE k = HeaderLen /\ Splits
    <3> DEFINE f == [frag EXCEPT !.hdr = k]
    <3>1. frag' = [f EXCEPT !.tls = TRUE, !.r1Size = conf.split + HeaderLen,
                     !.r2Size = conf.len - conf.split + HeaderLen, !.announced = conf.split]
      BY <1>6, <1>7, <2>2 DEF ParseHeader
    <3>2. f \in Writers /\ ~f.done /\ f.hdr = HeaderLen /\ f.r1Written = 0
      BY <1>0, <1>1, <1>6, <2>2 DEF Writers
    <3> HIDE DEF f
    <3>3. conf.split + HeaderLen \in Int /\ conf.len - conf.split + HeaderLen \in Int /\ conf.split \in Int
      BY <1>0
    <3>4. /\ frag' \in Writers /\ frag'.tls /\ ~frag'.done /\ frag'.hdr = HeaderLen /\ frag'.r1Written = 0
          /\ frag'.r1Size = conf.split + HeaderLen /\ frag'.r2Size = conf.len - conf.split + HeaderLen
          /\ frag'.announced = conf.split
      BY <3>1, <3>2, <3>3 DEF Writers
    <3>5. op'.at \in {"firstRecord", "firstReader"}
      BY <1>6, <2>2, <3>4 DEF k
    <3> QED BY <1>0, <1>4, <1>6, <2>2, <3>4, <3>5 DEF LenFilling, LenFirstRecord, LenBehind
  <2>3. CASE k = HeaderLen /\ ~Splits
    <3> DEFINE f == [frag EXCEPT !.hdr = k]
    <3>1. frag' = [f EXCEPT !.tls = TRUE, !.done = TRUE]
      BY <1>6, <1>7, <2>3 DEF ParseHeader
    <3>2. f \in Writers /\ f.hdr = HeaderLen /\ f.announced = conf.len
      BY <1>0, <1>1, <1>6, <2>3 DEF Writers
    <3> HIDE DEF f
    <3>3. frag' \in Writers /\ frag'.tls /\ frag'.done /\ frag'.hdr = HeaderLen /\ frag'.announced = conf.len
      BY <3>1, <3>2 DEF Writers
    <3>4. op'.at \in {"header", "secondReader"}
      BY <1>6, <2>3, <3>3 DEF k
    <3> QED BY <1>0, <1>4, <1>6, <2>3, <3>3, <3>4 DEF LenFilling, LenFirstRecord, LenBehind
  <2> QED BY <1>0, <1>6, <2>1, <2>2, <2>3
<1>9. FragTypeOK'
  BY <1>0, <1>3, <1>8 DEF FragTypeOK, Running
<1> QED BY <1>5, <1>8, <1>9 DEF LenInv

(* Write collects the header, or goes on to what is behind it.             *)
LEMMA LenFills == ASSUME LenReady, FillHeader PROVE LenInv'
<1>0. /\ frag \in Writers /\ op \in Running /\ taken \in Nat /\ op.left \in Nat /\ HeaderLen \in Nat
      /\ (frag.done => frag.tls) /\ UNCHANGED <<conf, out>> /\ op.at = "fill"
  BY LenNumbers DEF LenReady, LenInv, FragTypeOK, FillHeader, Running
<1>1. CASE frag.done \/ frag.tls
  <2> DEFINE p == IF frag.done THEN "header" ELSE "firstRecord"
  <2>1. op' = [op EXCEPT !.at = p] /\ UNCHANGED <<frag, taken>>
    BY <1>1 DEF FillHeader
  <2>2. p \in Places \ {"idle"}
    BY DEF Places
  <2>3. op.left - 0 = op.left
    BY <1>0
  <2>4. op'.at = p
    BY <1>0, <2>1 DEF Running
  <2>5. op' = Onward(0, p)
    <3> HIDE DEF p
    <3>1. op = [op EXCEPT !.left = op.left]
      BY <1>0 DEF Running
    <3> QED BY <2>1, <2>3, <3>1 DEF Onward
  <2>6. \/ op'.at = "header" /\ frag.done
        \/ op'.at = "firstRecord" /\ ~frag.done /\ frag.tls
    <3>1. CASE frag.done
      <4>1. p = "header"
        BY <3>1
      <4> QED BY <2>4, <3>1, <4>1
    <3>2. CASE ~frag.done
      BY <1>1, <2>4, <3>2
    <3> QED BY <3>1, <3>2
  <2> HIDE DEF p
  <2> QED BY <1>0, <2>1, <2>2, <2>5, <2>6, LenMoves
<1>2. CASE ~(frag.done \/ frag.tls)
  <2> DEFINE m == Min({HeaderLen - frag.hdr, op.left})
             p == IF frag'.done THEN "header" ELSE "firstRecord"
  <2>1. /\ frag' = Filled(m) /\ taken' = taken + m
        /\ op' = IF frag'.hdr < HeaderLen THEN NoCall ELSE Onward(m, p)
    BY <1>2 DEF FillHeader, Onward
  <2>2. frag.hdr \in Nat /\ frag.hdr < HeaderLen
    BY <1>0, <1>2 DEF LenReady, LenInv, LenFilling, Writers
  <2>3. m \in Nat /\ m <= op.left /\ frag.hdr + m <= HeaderLen
    <3>1. HeaderLen - frag.hdr \in Nat
      BY <1>0, <2>2
    <3>2. m = IF HeaderLen - frag.hdr <= op.left THEN HeaderLen - frag.hdr ELSE op.left
      BY <1>0, <3>1, SmallerOf
    <3> QED BY <1>0, <2>2, <3>1, <3>2
  <2> HIDE DEF m
  <2>4. frag'.hdr = frag.hdr + m /\ (frag.hdr + m >= HeaderLen => frag'.tls)
    <3>1. [frag EXCEPT !.hdr = @ + m].hdr = frag.hdr + m
      BY <1>0 DEF Writers
    <3> DEFINE f == [frag EXCEPT !.hdr = @ + m]
    <3>5. frag.hdr + m \in Nat
      BY <2>2, <2>3
    <3>2. f \in Writers
      BY <1>0, <3>5 DEF Writers
    <3>3. frag' = IF f.hdr < HeaderLen THEN f ELSE ParseHeader(f)
      BY <2>1 DEF Filled
    <3>4. f.hdr = frag.hdr + m
      BY <3>1
    <3> HIDE DEF f
    <3> QED BY <1>0, <2>2, <2>3, <3>2, <3>3, <3>4 DEF ParseHeader, Writers
  <2>5. CASE frag.hdr + m < HeaderLen
    <3>1. op' = NoCall /\ op'.at = "idle"
      BY <2>1, <2>4, <2>5 DEF NoCall
    <3> QED BY <1>0, <1>2, <2>1, <2>3, <2>5, <3>1, HeaderFills
  <2>6. CASE ~(frag.hdr + m < HeaderLen)
    <3>1. op' = Onward(m, p) /\ frag'.tls /\ p \in Places \ {"idle"}
      BY <1>0, <2>1, <2>2, <2>3, <2>4, <2>6 DEF Places
    <3>2. op'.at = p
      BY <1>0, <3>1 DEF Onward, Running
    <3>3. \/ op'.at = "header" /\ frag'.done
          \/ op'.at = "firstRecord" /\ ~frag'.done
      <4>1. CASE frag'.done
        <5>1. p = "header"
          BY <4>1
        <5> QED BY <3>2, <4>1, <5>1
      <4>2. CASE ~frag'.done
        BY <3>2, <4>2
      <4> QED BY <4>1, <4>2
    <3> QED BY <1>0, <1>2, <2>1, <2>3, <3>1, <3>3, HeaderFills
  <2> QED BY <2>5, <2>6
<1> QED BY <1>1, <1>2

(* The first record is out up to its byte w.                               *)
LEMMA FirstRecordSent ==
  ASSUME LenReady, frag.tls, ~frag.done, NEW m \in Nat, m <= op.left, NEW w \in Nat, w <= frag.r1Size,
         frag' = IF w < frag.r1Size THEN [frag EXCEPT !.r1Written = w]
                 ELSE FirstRecordDone([frag EXCEPT !.r1Written = w]),
         Follows(out, 0)', Len(out') = w, conf' = conf,
         taken' = taken + m, taken' = IF w < HeaderLen THEN HeaderLen ELSE w,
         op' = NoCall \/ \E p \in Places \ {"idle"} : op' = Onward(m, p),
         \/ op'.at = "idle" /\ w >= HeaderLen /\ w < frag.r1Size
         \/ op'.at = "header" /\ w = frag.r1Size
         \/ op'.at = "firstReader" /\ w < frag.r1Size
         \/ op'.at = "secondReader" /\ w >= HeaderLen
  PROVE  LenInv'
<1>0. /\ conf \in Confs /\ frag \in Writers /\ taken \in Nat /\ FragTypeOK /\ conf.kind = "len"
      /\ HeaderLen \in Nat /\ conf.len \in Nat /\ conf.split \in Nat
  BY LenNumbers DEF LenReady, LenInv
<1>1. /\ Splits /\ frag.hdr = HeaderLen /\ frag.announced = conf.split
      /\ frag.r1Size = conf.split + HeaderLen /\ frag.r2Size = conf.len - conf.split + HeaderLen
  BY DEF LenReady, LenInv, LenFirstRecord
<1>2. op' \in Running /\ (op'.at = "idle" => op' = NoCall) /\ taken' + op'.left <= FragStreamLen /\ taken' \in Nat
  BY <1>0, CallMoves
<1>3. Splits'
  BY <1>0, <1>1, StreamKept
<1> DEFINE f == [frag EXCEPT !.r1Written = w]
<1>4. /\ f \in Writers /\ f.tls /\ ~f.done /\ f.hdr = frag.hdr /\ f.announced = frag.announced
      /\ f.r1Size = frag.r1Size /\ f.r2Size = frag.r2Size /\ f.r1Written = w
  BY <1>0 DEF Writers
<1>5. frag' = IF w < frag.r1Size THEN f ELSE FirstRecordDone(f)
  OBVIOUS
<1> HIDE DEF f
<1>6. CASE w < frag.r1Size
  <2>1. /\ frag' \in Writers /\ frag'.tls /\ ~frag'.done /\ frag'.hdr = HeaderLen /\ frag'.announced = conf.split
        /\ frag'.r1Size = conf.split + HeaderLen /\ frag'.r2Size = conf.len - conf.split + HeaderLen
        /\ frag'.r1Written = w
    BY <1>1, <1>4, <1>5, <1>6
  <2>2. op'.at \in {"idle", "firstReader", "secondReader"} /\ (op'.at # "firstReader" => w >= HeaderLen)
    BY <1>6
  <2>3. LenFilling' /\ LenBehind'
    BY <2>1 DEF LenFilling, LenBehind
  <2>4. LenFirstRecord'
    BY <1>0, <1>1, <1>3, <1>6, <2>1, <2>2 DEF LenFirstRecord
  <2>5. FragTypeOK'
    BY <1>0, <1>2, <2>1 DEF FragTypeOK, Running
  <2> QED BY <2>3, <2>4, <2>5 DEF LenInv
<1>7. CASE w = frag.r1Size
  <2>0. f.r2Size - HeaderLen = conf.len - conf.split /\ f.r2Size - HeaderLen \in Int
    BY <1>0, <1>1, <1>4
  <2>1. frag' = FirstRecordDone(f)
    BY <1>0, <1>1, <1>5, <1>7
  <2>2. /\ frag' \in Writers /\ frag'.tls /\ frag'.done /\ frag'.hdr = HeaderLen
        /\ frag'.announced = conf.len - conf.split
    BY <1>1, <1>4, <2>0, <2>1 DEF FirstRecordDone, Writers
  <2>3. taken' = HeaderLen + conf.split /\ Len(out') = taken' + HeaderLen - frag'.hdr
    BY <1>0, <1>1, <1>7, <2>2
  <2>4. op'.at \in {"header", "secondReader"}
    BY <1>7
  <2>5. LenFilling' /\ LenFirstRecord'
    BY <2>2 DEF LenFilling, LenFirstRecord
  <2>6. LenBehind'
    BY <1>0, <1>3, <2>2, <2>3, <2>4 DEF LenBehind
  <2>7. FragTypeOK'
    BY <1>0, <1>2, <2>2 DEF FragTypeOK, Running
  <2> QED BY <2>5, <2>6, <2>7 DEF LenInv
<1>8. w < frag.r1Size \/ w = frag.r1Size
  <2> DEFINE r == frag.r1Size
  <2>1. r \in Nat /\ w <= r
    BY <1>0, <1>1
  <2> HIDE DEF r
  <2>2. w < r \/ w = r
    BY <2>1
  <2> QED BY <2>2 DEF r
<1> QED BY <1>6, <1>7, <1>8

(* The first record in numbers.                                            *)
LEMMA FirstRecordNumbers ==
  ASSUME LenReady, frag.tls, ~frag.done
  PROVE  /\ IsCut /\ frag.hdr = HeaderLen /\ frag.announced = conf.split
         /\ frag.r1Size = conf.split + HeaderLen /\ frag.r1Written \in Nat /\ frag.r1Written < frag.r1Size
         /\ Len(out) = frag.r1Written /\ frag.r1Size \in Nat
         /\ taken = IF frag.r1Written < HeaderLen THEN HeaderLen ELSE frag.r1Written
         /\ op.at # "firstReader" => frag.r1Written = 0 \/ frag.r1Written >= HeaderLen
<1>1. /\ Splits /\ frag.hdr = HeaderLen /\ frag.announced = conf.split
      /\ frag.r1Size = conf.split + HeaderLen /\ frag.r1Written < frag.r1Size
      /\ Len(out) = frag.r1Written
      /\ taken = IF frag.r1Written < HeaderLen THEN HeaderLen ELSE frag.r1Written
      /\ op.at # "firstReader" => frag.r1Written = 0 \/ frag.r1Written >= HeaderLen
  BY DEF LenReady, LenInv, LenFirstRecord
<1>2. frag.r1Written \in Nat /\ HeaderLen \in Nat /\ conf.split \in Nat /\ IsCut
  BY <1>1, LenNumbers DEF Writers
<1> QED BY <1>1, <1>2

(* writeBothN and writeN: header and payload up to the size of the record. *)
LEMMA FirstWriteFollows ==
  ASSUME LenReady, op.at = "firstRecord"
  PROVE  /\ Follows(FirstRecordBytes, Len(out))
         /\ Len(FirstRecordBytes) = IF frag.r1Written = 0
                                    THEN IF frag.r1Size <= HeaderLen + op.left THEN frag.r1Size ELSE HeaderLen + op.left
                                    ELSE IF op.left <= frag.r1Size - frag.r1Written THEN op.left
                                         ELSE frag.r1Size - frag.r1Written
<1>0. frag.tls /\ ~frag.done
  BY DEF LenReady, LenInv, LenFilling, LenBehind
<1> DEFINE H == HeaderLen
           w == frag.r1Written
           r == frag.r1Size
           n == op.left
<1>1. /\ IsCut /\ frag.announced = conf.split /\ r = conf.split + H /\ w \in Nat /\ w < r /\ Len(out) = w /\ r \in Nat
      /\ taken = (IF w < H THEN H ELSE w) /\ (w = 0 \/ w >= H)
  BY <1>0, FirstRecordNumbers
<1>2. /\ H \in Nat /\ H > 0 /\ n \in Nat /\ conf \in Confs /\ conf.split \in Nat /\ taken \in Nat
      /\ taken + n <= FragStreamLen /\ FragStreamLen \in Nat
  BY LenNumbers
<1>3. FirstRecordBytes = IF w < H THEN SubSeq(Header(conf.split) \o CallBytes(n), w + 1, Min({w + r, H + n}))
                         ELSE CallBytes(Min({n, r - w}))
  BY <1>1 DEF FirstRecordBytes
<1>4. CASE w = 0
  <2> DEFINE k == IF r <= H + n THEN r ELSE H + n
             m == k - H
             h == Header(conf.split)
             t == CallBytes(n)
             s == h \o t
  <2>1. Min({0 + r, H + n}) = k /\ k \in Nat /\ k <= H + n /\ k <= r /\ m \in Nat /\ m <= n /\ k = H + m
    <3>1. 0 + r \in Nat /\ 0 + r = r /\ H + n \in Nat
      BY <1>1, <1>2
    <3>2. Min({0 + r, H + n}) = k
      BY <3>1, SmallerOf
    <3>3. ASSUME NEW a \in Nat, NEW b \in Nat, NEW c \in Nat, NEW d \in Nat, a = c + b,
                 NEW x, x = IF a <= b + d THEN a ELSE b + d
          PROVE  x \in Nat /\ x <= b + d /\ x <= a /\ x - b \in Nat /\ x - b <= d /\ x = b + (x - b)
      BY <3>3
    <3>4. k \in Nat /\ k <= H + n /\ k <= r /\ k - H \in Nat /\ k - H <= n /\ k = H + (k - H)
      BY <1>1, <1>2, <3>3
    <3> HIDE DEF k
    <3> QED BY <3>2, <3>4
  <2>2. h \in Seq(StreamByte) /\ Len(h) = H /\ \A i \in 1 .. H : h[i] = [h |-> i, len |-> conf.split]
    <3>1. conf.split \in Int
      BY <1>2
    <3> QED BY <1>2, <3>1, HeaderBytes
  <2>3. t \in Seq(StreamByte) /\ Len(t) = n /\ \A i \in 1 .. n : t[i] = PlainByte[taken + i]
    BY <1>2, CallBytesAre
  <2>4. FirstRecordBytes = SubSeq(s, 1, k)
    <3>1. w < H /\ w + 1 = 1 /\ w + r = 0 + r
      BY <1>2, <1>4
    <3>2. FirstRecordBytes = SubSeq(s, w + 1, Min({w + r, H + n}))
      BY <1>3, <3>1
    <3> HIDE DEF k, s
    <3> QED BY <2>1, <3>1, <3>2
  <2> HIDE DEF k, m, h, t
  <2>5. s \in Seq(StreamByte) /\ IsJoin(s, h, t)
    BY <2>2, <2>3, Join
  <2> HIDE DEF s
  <2>6. Len(s) = H + n /\ k \in 0 .. Len(s)
    BY <1>2, <2>1, <2>2, <2>3, <2>5 DEF IsJoin
  <2>7. ASSUME NEW i \in 1 .. k PROVE s[i] = Expected[0 + i]
    <3>0. 0 + i = i /\ i \in Nat
      BY <2>1
    <3>1. CASE i <= H
      <4>1. i \in 1 .. H
        BY <1>2, <2>1, <3>1
      <4>2. s[i] = h[i]
        BY <2>2, <2>5, <4>1 DEF IsJoin
      <4>3. Expected[i] = [h |-> i, len |-> conf.split]
        BY <1>1, <1>2, <3>0, <3>1, ExpectedBytes
      <4> QED BY <2>2, <3>0, <4>1, <4>2, <4>3
    <3>2. CASE ~(i <= H)
      <4> DEFINE j == i - H
      <4>1. j \in 1 .. n /\ H + j = i /\ taken = H /\ i <= H + conf.split
        BY <1>1, <1>2, <1>4, <2>1, <3>2
      <4> HIDE DEF j
      <4>2. s[H + j] = t[j] /\ t[j] = PlainByte[H + j]
        BY <2>2, <2>3, <2>5, <4>1 DEF IsJoin
      <4>3. i > HeaderLen /\ i <= HeaderLen + conf.split
        BY <1>2, <2>1, <3>0, <3>2, <4>1
      <4>4. Expected[i] = [h |-> 0, len |-> i] /\ PlainByte[i] = [h |-> 0, len |-> i]
        BY <1>1, <1>2, <3>0, <4>3, ExpectedBytes
      <4> QED BY <3>0, <4>1, <4>2, <4>4
    <3> QED BY <3>1, <3>2
  <2>8. Follows(SubSeq(s, 1, k), 0) /\ Len(SubSeq(s, 1, k)) = k
    BY <2>5, <2>6, <2>7, PartFollows
  <2> QED BY <1>1, <1>4, <2>4, <2>8 DEF k
<1>5. CASE w >= H
  <2> DEFINE k == IF n <= r - w THEN n ELSE r - w
  <2>1. Min({n, r - w}) = k /\ k \in Nat /\ taken + k <= FragStreamLen /\ taken + k <= H + conf.split /\ taken >= H
        /\ ~(w < H) /\ w # 0 /\ taken = w
    <3>1. r - w \in Nat /\ ~(w < H) /\ w # 0
      BY <1>1, <1>2, <1>5
    <3>2. taken = w
      BY <1>1, <3>1
    <3>3. Min({n, r - w}) = k
      BY <1>2, <3>1, SmallerOf
    <3>4. k \in Nat /\ k <= n /\ k <= r - w
      BY <1>2, <3>1
    <3> HIDE DEF k
    <3>5. taken + k <= FragStreamLen
      BY <1>2, <3>4
    <3>6. taken + k <= H + conf.split /\ taken >= H
      BY <1>1, <1>2, <1>5, <3>2, <3>4
    <3> QED BY <3>1, <3>2, <3>3, <3>4, <3>5, <3>6
  <2>2. FirstRecordBytes = CallBytes(k)
    BY <1>3, <2>1
  <2> HIDE DEF k
  <2>3. Follows(CallBytes(k), taken) /\ Len(CallBytes(k)) = k
    BY <1>1, <1>2, <2>1, FirstPayload
  <2> QED BY <1>1, <2>1, <2>2, <2>3 DEF k
<1> QED BY <1>1, <1>4, <1>5

(* The first record is written up to its length, header included.          *)
LEMMA LenWritesFirst == ASSUME LenReady, WriteFirstRecord, ~baseDown' PROVE LenInv'
<1> DEFINE bs == FirstRecordBytes
           H == HeaderLen
           w == frag.r1Written
           r == frag.r1Size
           n == op.left
<1>0. op.at = "firstRecord" /\ conf' = conf
  BY DEF WriteFirstRecord
<1>1. frag.tls /\ ~frag.done
  BY <1>0 DEF LenReady, LenInv, LenFilling, LenBehind
<1>2. /\ IsCut /\ r = conf.split + H /\ w \in Nat /\ w < r /\ Len(out) = w /\ r \in Nat
      /\ taken = (IF w < H THEN H ELSE w) /\ (w = 0 \/ w >= H)
  BY <1>0, <1>1, FirstRecordNumbers
<1>3. /\ H \in Nat /\ H > 0 /\ n \in Nat /\ conf \in Confs /\ conf.split \in Nat /\ conf.split > 0 /\ Follows(out, 0)
      /\ conf.kind = "len" /\ conf.kind \notin Resumers /\ frag \in Writers
  BY <1>2, LenNumbers
<1>4. /\ Follows(bs, Len(out))
      /\ Len(bs) = IF w = 0 THEN IF r <= H + n THEN r ELSE H + n
                   ELSE IF n <= r - w THEN n ELSE r - w
  BY <1>0, FirstWriteFollows
<1>5. PICK sent \in 0 .. Len(bs) :
        LET ofHdr == Min({sent, IF w < H THEN H - w ELSE 0})
            f == [frag EXCEPT !.r1Written = @ + sent]
            failed == sent < Len(bs)
        IN /\ BaseWrite(bs, sent)
           /\ frag' = IF f.r1Written < f.r1Size THEN f ELSE FirstRecordDone(f)
           /\ taken' = taken + sent - ofHdr
           /\ op' = IF f.r1Written < f.r1Size \/ failed THEN NoCall
                    ELSE [op EXCEPT !.left = @ - (sent - ofHdr), !.at = "header"]
  BY DEF WriteFirstRecord
<1> DEFINE ofHdr == Min({sent, IF w < H THEN H - w ELSE 0})
           f == [frag EXCEPT !.r1Written = w + sent]
<1>6. /\ BaseWrite(bs, sent)
      /\ frag' = IF f.r1Written < f.r1Size THEN f ELSE FirstRecordDone(f)
      /\ taken' = taken + sent - ofHdr
      /\ op' = IF f.r1Written < f.r1Size \/ sent < Len(bs) THEN NoCall ELSE Onward(sent - ofHdr, "header")
  BY <1>5 DEF Onward
<1>7. f.r1Written = w + sent /\ f.r1Size = r
  BY <1>3 DEF Writers
<1>8. Expected' = Expected
  BY <1>0, <1>3, StreamKept
<1> HIDE DEF bs
<1>9. Follows(out, 0)' /\ sent = Len(bs) /\ Len(out') = w + sent /\ Len(bs) \in Nat
  BY <1>2, <1>3, <1>4, <1>6, <1>8, SentOn
<1> DEFINE v == w + sent
           m == sent - ofHdr
<1>10. /\ ofHdr = (IF w < H THEN H - w ELSE 0) /\ m \in Nat /\ m <= n /\ v \in Nat /\ v <= r /\ v >= H
       /\ taken + m = v /\ taken + sent - ofHdr = taken + m
  <2>1. CASE w = 0
    <3>1. sent >= H /\ sent \in Nat /\ sent <= H + n /\ sent <= r
      BY <1>2, <1>3, <1>4, <1>9, <2>1
    <3>2. ofHdr = H
      <4>1. ofHdr = Min({sent, H})
        BY <1>3, <2>1
      <4>2. Min({sent, H}) = IF sent <= H THEN sent ELSE H
        BY <1>3, <3>1, SmallerOf
      <4> QED BY <1>3, <3>1, <4>1, <4>2
    <3> HIDE DEF ofHdr
    <3> QED BY <1>2, <1>3, <2>1, <3>1, <3>2
  <2>2. CASE w >= H
    <3>1. sent \in Nat /\ sent <= n /\ sent <= r - w /\ ~(w < H)
      BY <1>2, <1>3, <1>4, <1>9, <2>2
    <3>2. ofHdr = 0
      <4>1. ofHdr = Min({sent, 0})
        BY <3>1
      <4>2. Min({sent, 0}) = IF sent <= 0 THEN sent ELSE 0
        BY <3>1, SmallerOf
      <4> QED BY <3>1, <4>1, <4>2
    <3> HIDE DEF ofHdr
    <3> QED BY <1>2, <1>3, <2>2, <3>1, <3>2
  <2> QED BY <1>2, <2>1, <2>2
<1> HIDE DEF ofHdr
<1>11. /\ frag' = IF v < frag.r1Size THEN [frag EXCEPT !.r1Written = v]
                  ELSE FirstRecordDone([frag EXCEPT !.r1Written = v])
       /\ op' = IF v < frag.r1Size THEN NoCall ELSE Onward(m, "header")
       /\ ~(sent < Len(bs))
  BY <1>6, <1>7, <1>9
<1>12. /\ Len(out') = v /\ taken' = taken + m /\ taken' = IF v < HeaderLen THEN HeaderLen ELSE v
  BY <1>3, <1>6, <1>9, <1>10
<1> HIDE DEF f, v, m
<1>13. CASE v < frag.r1Size
  <2>1. op' = NoCall /\ op'.at = "idle"
    BY <1>11, <1>13 DEF NoCall
  <2> QED BY <1>0, <1>1, <1>9, <1>10, <1>11, <1>12, <1>13, <2>1, FirstRecordSent
<1>14. CASE ~(v < frag.r1Size)
  <2>1. "header" \in Places \ {"idle"} /\ op \in Running
    BY DEF Places, Running, LenReady, LenInv, FragTypeOK
  <2>2. op' = Onward(m, "header") /\ op'.at = "header"
    BY <1>11, <1>14, <2>1 DEF Onward, Running
  <2>3. v = frag.r1Size
    BY <1>2, <1>10, <1>14
  <2> QED BY <1>0, <1>1, <1>9, <1>10, <1>11, <1>12, <2>1, <2>2, <2>3, FirstRecordSent
<1> QED BY <1>13, <1>14

(* Behind the first record, in numbers.                                    *)
LEMMA BehindNumbers ==
  ASSUME LenReady, frag.done
  PROVE  /\ frag.tls /\ frag.hdr \in Nat /\ frag.hdr <= HeaderLen
         /\ IsCut => /\ frag.announced = conf.len - conf.split /\ taken >= HeaderLen + conf.split
                     /\ Len(out) = taken + HeaderLen - frag.hdr
                     /\ frag.hdr > 0 => taken = HeaderLen + conf.split
         /\ ~IsCut => /\ frag.announced = conf.len /\ taken >= HeaderLen
                      /\ Len(out) = taken - frag.hdr
                      /\ frag.hdr > 0 => taken = HeaderLen
<1>1. (IsCut <=> Splits) /\ frag.hdr \in Nat
  BY LenNumbers DEF Writers
<1>2. frag.tls
  BY DEF LenReady, LenInv, FragTypeOK
<1>3. frag.hdr <= HeaderLen
  BY DEF LenReady, LenInv, LenBehind
<1>4. Splits => /\ frag.announced = conf.len - conf.split /\ taken >= HeaderLen + conf.split
                /\ Len(out) = taken + HeaderLen - frag.hdr
                /\ frag.hdr > 0 => taken = HeaderLen + conf.split
  BY DEF LenReady, LenInv, LenBehind
<1>5. ~Splits => /\ frag.announced = conf.len /\ taken >= HeaderLen
                 /\ Len(out) = taken - frag.hdr
                 /\ frag.hdr > 0 => taken = HeaderLen
  BY DEF LenReady, LenInv, LenBehind
<1> QED BY <1>1, <1>2, <1>3, <1>4, <1>5

(* What is left of the header follows, and then the caller's bytes.        *)
LEMMA BehindFollows ==
  ASSUME LenReady, frag.done, NEW h \in Nat, h <= frag.hdr, NEW m \in Nat, m <= op.left,
         h < frag.hdr => m = 0
  PROVE  /\ Follows(SubSeq(HdrLeft, 1, h) \o CallBytes(m), Len(out))
         /\ Len(SubSeq(HdrLeft, 1, h) \o CallBytes(m)) = h + m
         /\ SubSeq(HdrLeft, 1, frag.hdr) = HdrLeft
<1> DEFINE k == frag.hdr
           p == Len(out)
           s == HdrLeft
           u == SubSeq(s, 1, h)
           t == CallBytes(m)
<1>1. /\ frag \in Writers /\ conf \in Confs /\ HeaderLen \in Nat /\ conf.split \in Nat /\ p \in Nat
      /\ taken \in Nat /\ op.left \in Nat /\ taken + op.left <= FragStreamLen /\ FragStreamLen \in Nat
  BY LenNumbers
<1>2. k \in Nat /\ k <= HeaderLen
  BY BehindNumbers
<1>3. IsCut => /\ frag.announced = conf.len - conf.split /\ taken >= HeaderLen + conf.split
               /\ p = taken + HeaderLen - k
               /\ k > 0 => taken = HeaderLen + conf.split
  BY BehindNumbers
<1>4. ~IsCut => /\ frag.announced = conf.len /\ taken >= HeaderLen /\ p = taken - k
                /\ k > 0 => taken = HeaderLen
  BY BehindNumbers
<1>5. Len(s) = k /\ s \in Seq(StreamByte) /\ (k > 0 => Follows(s, p))
  <2>1. CASE k > 0
    <3>1. /\ IsCut => p = 2 * HeaderLen + conf.split - k /\ frag.announced = conf.len - conf.split
          /\ ~IsCut => p = HeaderLen - k /\ frag.announced = conf.len
      BY <1>1, <1>2, <1>3, <1>4, <2>1
    <3>2. Follows(s, p) /\ Len(s) = k
      BY <1>1, <1>2, <3>1, NextHeaderFollows
    <3> QED BY <3>2 DEF Follows
  <2>2. CASE k = 0
    <3>1. frag.announced \in Int /\ HeaderLen \in Nat /\ HeaderLen <= HeaderLen /\ HeaderLen - k = HeaderLen
      BY <1>1, <1>2, <2>2 DEF Writers
    <3>2. IsHeaderPart(SubSeq(Header(frag.announced), HeaderLen + 1, HeaderLen), frag.announced, HeaderLen, HeaderLen)
      BY <3>1, HeaderPart
    <3>3. s = SubSeq(Header(frag.announced), HeaderLen + 1, HeaderLen)
      BY <3>1 DEF HdrLeft
    <3> HIDE DEF s
    <3>4. Len(s) = 0 /\ s \in Seq(StreamByte)
      BY <3>1, <3>2, <3>3 DEF IsHeaderPart
    <3> QED BY <2>2, <3>4
  <2> QED BY <1>2, <2>1, <2>2
<1> HIDE DEF s
<1>6. h \in 0 .. Len(s) /\ k \in 0 .. Len(s)
  BY <1>2, <1>5
<1>7. Follows(u, p) /\ Len(u) = h
  <2>1. \A i \in 1 .. h : s[i] = Expected[p + i]
    <3> SUFFICES ASSUME NEW i \in 1 .. h PROVE s[i] = Expected[p + i]
      OBVIOUS
    <3>1. k > 0 /\ i \in 1 .. Len(s)
      BY <1>2, <1>5
    <3> QED BY <1>5, <3>1 DEF Follows
  <2> QED BY <1>1, <1>5, <1>6, <2>1, PartFollows
<1>8. Follows(t, p + h) /\ Len(t) = m
  <2>1. CASE h = k
    <3>1. /\ IsCut => p + h = taken + HeaderLen /\ taken >= HeaderLen + conf.split
          /\ ~IsCut => p + h = taken
      BY <1>1, <1>2, <1>3, <1>4, <2>1
    <3>2. p + h \in Nat /\ taken + m <= FragStreamLen
      BY <1>1
    <3> QED BY <1>1, <3>1, <3>2, RestFollows
  <2>2. CASE h < k
    <3>1. m = 0 /\ taken + m <= FragStreamLen
      BY <1>1, <2>2
    <3>2. t \in Seq(StreamByte) /\ Len(t) = m
      BY <1>1, <3>1, CallBytesAre
    <3> HIDE DEF t
    <3> QED BY <3>1, <3>2 DEF Follows
  <2> QED BY <1>2, <2>1, <2>2
<1>9. SubSeq(s, 1, k) = s
  <2> DEFINE v == SubSeq(s, 1, k)
  <2>1. v \in Seq(StreamByte) /\ Len(v) = k /\ \A i \in 1 .. k : v[i] = s[i]
    BY <1>5, <1>6, FirstPart
  <2> HIDE DEF v
  <2>2. v = s
    BY <1>5, <2>1, SeqEqual
  <2> QED BY <2>2 DEF v
<1> HIDE DEF u, t
<1>10. Follows(u \o t, p) /\ Len(u \o t) = h + m
  BY <1>1, <1>7, <1>8, JoinFollows
<1> QED BY <1>9, <1>10 DEF u, t, s

(* h bytes of the header and m of the caller are out.                      *)
LEMMA BehindSent ==
  ASSUME LenReady, frag.done, NEW h \in Nat, h <= frag.hdr, NEW m \in Nat, m <= op.left,
         h < frag.hdr => m = 0,
         frag' = [frag EXCEPT !.hdr = @ - h], conf' = conf, taken' = taken + m,
         Follows(out, 0)', Len(out') = Len(out) + (h + m),
         op' = NoCall \/ op' = Onward(m, "secondReader")
  PROVE  LenInv'
<1>0. /\ conf \in Confs /\ frag \in Writers /\ taken \in Nat /\ FragTypeOK /\ conf.kind = "len"
      /\ HeaderLen \in Nat /\ conf.len \in Nat /\ conf.split \in Nat /\ Len(out) \in Nat /\ op \in Running
  BY LenNumbers DEF LenReady, LenInv, FragTypeOK, Running
<1>1. "secondReader" \in Places \ {"idle"}
  BY DEF Places
<1>2. op' \in Running /\ (op'.at = "idle" => op' = NoCall) /\ taken' + op'.left <= FragStreamLen /\ taken' \in Nat
  BY <1>0, <1>1, CallMoves
<1>3. op'.at \in {"idle", "secondReader"}
  <2>1. CASE op' = NoCall
    BY <2>1 DEF NoCall
  <2>2. CASE op' = Onward(m, "secondReader")
    BY <1>0, <2>2 DEF Onward, Running
  <2> QED BY <2>1, <2>2
<1>4. (Splits' <=> Splits) /\ (Splits <=> IsCut)
  BY <1>0, StreamKept, LenNumbers
<1>5. /\ frag.tls /\ frag.hdr \in Nat /\ frag.hdr <= HeaderLen
      /\ Splits => /\ frag.announced = conf.len - conf.split /\ taken >= HeaderLen + conf.split
                   /\ Len(out) = taken + HeaderLen - frag.hdr
                   /\ frag.hdr > 0 => taken = HeaderLen + conf.split
      /\ ~Splits => /\ frag.announced = conf.len /\ taken >= HeaderLen
                    /\ Len(out) = taken - frag.hdr
                    /\ frag.hdr > 0 => taken = HeaderLen
  BY <1>4, BehindNumbers
<1>6. /\ frag' \in Writers /\ frag'.tls /\ frag'.done /\ frag'.hdr = frag.hdr - h /\ frag'.hdr \in Nat
      /\ frag'.announced = frag.announced
  <2>1. frag.hdr - h \in Nat
    BY <1>5
  <2> QED BY <1>0, <1>5, <2>1 DEF Writers
<1>7. frag'.hdr > 0 => m = 0 /\ frag.hdr > 0
  BY <1>5, <1>6
<1>8. Splits => /\ Len(out') = taken' + HeaderLen - frag'.hdr /\ taken' >= HeaderLen + conf.split
                /\ frag'.hdr > 0 => taken' = HeaderLen + conf.split
  <2> SUFFICES ASSUME Splits
               PROVE  /\ Len(out') = taken' + HeaderLen - frag'.hdr /\ taken' >= HeaderLen + conf.split
                      /\ frag'.hdr > 0 => taken' = HeaderLen + conf.split
    OBVIOUS
  <2>1. /\ taken >= HeaderLen + conf.split /\ Len(out) = taken + HeaderLen - frag.hdr
        /\ frag.hdr > 0 => taken = HeaderLen + conf.split
    BY <1>5
  <2>5. frag.hdr \in Nat /\ frag'.hdr = frag.hdr - h
    BY <1>5, <1>6
  <2>2. Len(out') = taken' + HeaderLen - frag'.hdr
    BY <1>0, <2>1, <2>5
  <2>3. taken' >= HeaderLen + conf.split
    BY <1>0, <2>1
  <2>4. frag'.hdr > 0 => taken' = HeaderLen + conf.split
    BY <1>0, <1>7, <2>1
  <2> QED BY <2>2, <2>3, <2>4
<1>9. ~Splits => /\ Len(out') = taken' - frag'.hdr /\ taken' >= HeaderLen
                 /\ frag'.hdr > 0 => taken' = HeaderLen
  <2> SUFFICES ASSUME ~Splits
               PROVE  /\ Len(out') = taken' - frag'.hdr /\ taken' >= HeaderLen
                      /\ frag'.hdr > 0 => taken' = HeaderLen
    OBVIOUS
  <2>1. taken >= HeaderLen /\ Len(out) = taken - frag.hdr /\ (frag.hdr > 0 => taken = HeaderLen)
    BY <1>5
  <2>5. frag.hdr \in Nat /\ frag'.hdr = frag.hdr - h
    BY <1>5, <1>6
  <2>2. Len(out') = taken' - frag'.hdr
    BY <1>0, <2>1, <2>5
  <2>3. taken' >= HeaderLen
    BY <1>0, <2>1
  <2>4. frag'.hdr > 0 => taken' = HeaderLen
    BY <1>0, <1>7, <2>1
  <2> QED BY <2>2, <2>3, <2>4
<1>10. LenFilling' /\ LenFirstRecord'
  BY <1>6 DEF LenFilling, LenFirstRecord
<1>11. frag'.hdr <= HeaderLen
  BY <1>0, <1>5, <1>6
<1>12. LenBehind'
  BY <1>0, <1>3, <1>4, <1>5, <1>6, <1>8, <1>9, <1>11 DEF LenBehind
<1>13. FragTypeOK'
  BY <1>0, <1>2, <1>6 DEF FragTypeOK, Running
<1> QED BY <1>10, <1>12, <1>13 DEF LenInv

(* Write goes on behind the first record.                                  *)
LEMMA LenWritesHeader == ASSUME LenReady, WriteHeader, ~baseDown' PROVE LenInv'
<1>0. op.at = "header" /\ conf' = conf /\ frag.done
  BY DEF WriteHeader, LenReady, LenInv, LenFilling, LenFirstRecord
<1>1. /\ frag \in Writers /\ op \in Running /\ taken \in Nat /\ op.left \in Nat /\ Follows(out, 0) /\ Len(out) \in Nat
      /\ conf.kind = "len" /\ conf.kind \notin Resumers
  BY LenNumbers DEF LenReady, LenInv, FragTypeOK, Running
<1>2. frag.hdr \in Nat
  BY <1>1 DEF Writers
<1>3. CASE frag.hdr = 0
  <2>1. op' = [op EXCEPT !.at = "rest"] /\ UNCHANGED <<conf, frag, taken, out>>
    BY <1>0, <1>3 DEF WriteHeader
  <2>2. op.left - 0 = op.left /\ op = [op EXCEPT !.left = op.left]
    BY <1>1 DEF Running
  <2>3. op' = Onward(0, "rest") /\ op'.at = "rest" /\ "rest" \in Places \ {"idle"}
    BY <1>1, <2>1, <2>2 DEF Onward, Running, Places
  <2> QED BY <1>0, <1>3, <2>1, <2>3, LenMoves
<1>4. CASE frag.hdr # 0
  <2>1. PICK sent \in 0 .. frag.hdr + op.left :
          /\ BaseWrite(HdrLeft \o CallBytes(op.left), sent)
          /\ frag' = [frag EXCEPT !.hdr = @ - Min({sent, frag.hdr})]
          /\ taken' = taken + sent - Min({sent, frag.hdr})
          /\ op' = NoCall
    BY <1>4 DEF WriteHeader, CallOver
  <2> DEFINE bs == SubSeq(HdrLeft, 1, frag.hdr) \o CallBytes(op.left)
             h == frag.hdr
             m == op.left
  <2>2. Follows(bs, Len(out)) /\ Len(bs) = h + m /\ BaseWrite(bs, sent)
    <3>1. h \in Nat /\ h <= frag.hdr /\ m \in Nat /\ m <= op.left /\ (h < frag.hdr => m = 0)
      BY <1>1, <1>2
    <3> QED BY <1>0, <2>1, <3>1, BehindFollows
  <2> HIDE DEF bs
  <2>3. Expected' = Expected
    BY <1>0, <1>1, StreamKept
  <2>4. Follows(out, 0)' /\ sent = h + m /\ Len(out') = Len(out) + sent
    BY <1>1, <2>2, <2>3, SentOn
  <2>5. Min({sent, frag.hdr}) = h
    <3>1. sent \in Nat /\ h <= sent
      BY <1>1, <1>2, <2>4
    <3>2. Min({sent, h}) = IF sent <= h THEN sent ELSE h
      BY <1>2, <3>1, SmallerOf
    <3> QED BY <1>2, <3>1, <3>2
  <2>6. taken' = taken + m
    <3>1. taken' = taken + sent - h
      BY <2>1, <2>5
    <3> QED BY <1>1, <1>2, <2>4, <3>1
  <2>7. frag' = [frag EXCEPT !.hdr = @ - h]
    BY <2>1, <2>5
  <2>8. h \in Nat /\ h <= frag.hdr /\ m \in Nat /\ m <= op.left /\ (h < frag.hdr => m = 0)
    BY <1>1, <1>2
  <2> QED BY <1>0, <2>1, <2>4, <2>6, <2>7, <2>8, BehindSent
<1> QED BY <1>3, <1>4

(* Behind the records a call is passed on as it is.                        *)
LEMMA LenWritesRest == ASSUME LenReady, WriteRest, ~baseDown' PROVE LenInv'
<1>0. /\ op.at = "rest" /\ conf' = conf /\ frag' = frag /\ frag.done /\ frag.hdr = 0
  BY DEF WriteRest, LenReady, LenInv, LenFilling, LenFirstRecord, LenBehind
<1>1. /\ frag \in Writers /\ taken \in Nat /\ op.left \in Nat /\ Follows(out, 0) /\ Len(out) \in Nat
      /\ conf.kind = "len" /\ conf.kind \notin Resumers
  BY LenNumbers
<1>2. PICK sent \in 0 .. op.left :
        BaseWrite(CallBytes(op.left), sent) /\ taken' = taken + sent /\ op' = NoCall
  BY DEF WriteRest, CallOver
<1> DEFINE m == op.left
           s == CallBytes(m)
           n == Len(out)
<1>3. conf \in Confs /\ taken + m <= FragStreamLen /\ n \in Nat /\ m \in Nat /\ HeaderLen \in Nat
  BY LenNumbers
<1>4. /\ IsCut => n = taken + HeaderLen /\ taken >= HeaderLen + conf.split
      /\ ~IsCut => n = taken
  <2>1. /\ IsCut => n = taken + HeaderLen - frag.hdr /\ taken >= HeaderLen + conf.split
        /\ ~IsCut => n = taken - frag.hdr
    BY <1>0, BehindNumbers
  <2> QED BY <1>0, <1>1, <1>3, <2>1
<1>5. Follows(s, n) /\ Len(s) = m
  BY <1>1, <1>3, <1>4, RestFollows
<1> HIDE DEF s
<1>6. Expected' = Expected
  BY <1>0, <1>1, StreamKept
<1>7. Follows(out, 0)' /\ sent = m /\ Len(out') = Len(out) + sent
  BY <1>1, <1>2, <1>5, <1>6, SentOn DEF s
<1>8. frag' = [frag EXCEPT !.hdr = @ - 0]
  <2>1. frag.hdr - 0 = frag.hdr
    BY <1>0
  <2> QED BY <1>0, <1>1, <2>1 DEF Writers
<1>9. /\ 0 \in Nat /\ 0 <= frag.hdr /\ m <= op.left /\ (0 < frag.hdr => m = 0)
      /\ Len(out') = Len(out) + (0 + m) /\ taken' = taken + m
  BY <1>0, <1>1, <1>2, <1>7
<1> QED BY <1>0, <1>2, <1>3, <1>7, <1>8, <1>9, BehindSent

(* fixedLenReaderFrom: the base reads the two readers.                     *)
LEMMA LenReadsHeader == ASSUME LenReady, FirstReaderHeader PROVE LenInv'
<1>0. /\ frag \in Writers /\ op \in Running /\ op.left \in Nat /\ HeaderLen \in Nat
      /\ ~frag.tls /\ UNCHANGED <<conf, out>>
  BY LenNumbers DEF LenReady, LenInv, FragTypeOK, FirstReaderHeader, Running
<1> DEFINE m == Min({HeaderLen - frag.hdr, op.left})
           p == IF frag'.tls /\ ~frag'.done THEN "firstReader" ELSE "secondReader"
<1>1. frag' = Filled(m) /\ taken' = taken + m /\ op' = Onward(m, p)
  BY DEF FirstReaderHeader, Consume, Onward
<1>2. m \in Nat /\ m <= op.left /\ frag.hdr + m <= HeaderLen
  <2>1. frag.hdr \in Nat /\ frag.hdr < HeaderLen
    BY <1>0 DEF LenReady, LenInv, LenFilling, Writers
  <2>2. HeaderLen - frag.hdr \in Nat
    BY <1>0, <2>1
  <2>3. m = IF HeaderLen - frag.hdr <= op.left THEN HeaderLen - frag.hdr ELSE op.left
    BY <1>0, <2>2, SmallerOf
  <2> HIDE DEF m
  <2> QED BY <1>0, <2>1, <2>2, <2>3
<1> HIDE DEF m
<1>3. p \in Places \ {"idle"} /\ op'.at = p
  BY <1>0, <1>1 DEF Places, Onward, Running
<1>4. \/ op'.at = "firstReader" /\ frag'.tls /\ ~frag'.done
      \/ op'.at = "secondReader" /\ (~frag'.tls \/ frag'.done)
  <2>1. CASE frag'.tls /\ ~frag'.done
    BY <1>3, <2>1
  <2>2. CASE ~(frag'.tls /\ ~frag'.done)
    <3>1. p = "secondReader"
      BY <2>2
    <3> QED BY <1>3, <2>2, <3>1
  <2> QED BY <2>1, <2>2
<1> HIDE DEF p
<1> QED BY <1>0, <1>1, <1>2, <1>3, <1>4, HeaderFills

(* A first reader that is at its end hands over to the second.             *)
LEMMA LenReadEnds == ASSUME LenReady, FirstReaderEnd PROVE LenInv'
<1>0. op \in Running /\ frag.done /\ UNCHANGED <<conf, frag, taken, out>> /\ op' = [op EXCEPT !.at = "secondReader"]
  BY DEF LenReady, LenInv, FragTypeOK, FirstReaderEnd, Running
<1>1. op.left - 0 = op.left /\ op = [op EXCEPT !.left = op.left]
  BY <1>0 DEF Running
<1>2. op' = Onward(0, "secondReader") /\ op'.at = "secondReader" /\ "secondReader" \in Places \ {"idle"}
  BY <1>0, <1>1 DEF Onward, Running, Places
<1> QED BY <1>0, <1>2, LenMoves

(* The second reader gives the header behind and then the source.          *)
LEMMA LenReadsSecond == ASSUME LenReady, SecondReaderRead, ~baseDown' PROVE LenInv'
<1>0. op.at = "secondReader" /\ conf' = conf
  BY DEF SecondReaderRead
<1>1. /\ frag \in Writers /\ taken \in Nat /\ op.left \in Nat /\ Follows(out, 0) /\ Len(out) \in Nat
      /\ conf.kind = "len" /\ conf.kind \notin Resumers
  BY LenNumbers
<1>2. CASE ~frag.done \/ (frag.hdr = 0 /\ op.left = 0)
  <2>1. op' = NoCall /\ UNCHANGED <<conf, frag, taken, out>>
    BY <1>0, <1>2 DEF SecondReaderRead, CallOver
  <2>2. op'.at = "idle" /\ op.at # "firstReader"
    BY <1>0, <2>1 DEF NoCall
  <2> QED BY <2>1, <2>2, LenMoves
<1>3. CASE ~(~frag.done \/ (frag.hdr = 0 /\ op.left = 0))
  <2>1. PICK s \in 1 .. HeaderLen + FragStreamLen :
          LET h == Min({s, frag.hdr})
              m == IF h < frag.hdr THEN 0 ELSE Min({s - h, op.left})
          IN /\ Pull(SubSeq(HdrLeft, 1, h) \o CallBytes(m))
             /\ frag' = [frag EXCEPT !.hdr = @ - h]
             /\ Consume(m, "secondReader")
    BY <1>3 DEF SecondReaderRead
  <2> DEFINE h == Min({s, frag.hdr})
             m == IF h < frag.hdr THEN 0 ELSE Min({s - h, op.left})
             bs == SubSeq(HdrLeft, 1, h) \o CallBytes(m)
  <2>2. PICK sent \in {0, Len(bs)} : BaseWrite(bs, sent)
    BY <2>1 DEF Pull
  <2>3. frag' = [frag EXCEPT !.hdr = @ - h] /\ taken' = taken + m /\ op' = Onward(m, "secondReader")
    BY <2>1 DEF Consume, Onward
  <2>4. h \in Nat /\ h <= frag.hdr /\ m \in Nat /\ m <= op.left /\ (h < frag.hdr => m = 0)
    <3>1. s \in Nat /\ frag.hdr \in Nat
      BY <1>1, LenNumbers DEF Writers
    <3>2. h = IF s <= frag.hdr THEN s ELSE frag.hdr
      BY <3>1, SmallerOf
    <3> HIDE DEF h
    <3>3. h \in Nat /\ h <= frag.hdr /\ s - h \in Nat
      BY <3>1, <3>2
    <3>4. Min({s - h, op.left}) = IF s - h <= op.left THEN s - h ELSE op.left
      BY <1>1, <3>3, SmallerOf
    <3> QED BY <1>1, <3>3, <3>4
  <2> HIDE DEF h, m
  <2>5. Follows(bs, Len(out)) /\ Len(bs) = h + m
    BY <1>3, <2>4, BehindFollows
  <2> HIDE DEF bs
  <2>6. Expected' = Expected
    BY <1>0, <1>1, StreamKept
  <2>7. Follows(out, 0)' /\ sent = h + m /\ Len(out') = Len(out) + sent
    BY <1>1, <2>2, <2>5, <2>6, SentOn
  <2>8. Len(out') = Len(out) + (h + m)
    BY <2>7
  <2> QED BY <1>0, <1>3, <2>3, <2>4, <2>7, <2>8, BehindSent
<1> QED BY <1>2, <1>3

(* The smallest of three numbers.                                          *)
LEMMA SmallestOf ==
  ASSUME NEW a \in Nat, NEW b \in Nat, NEW c \in Nat
  PROVE  Min({a, b, c}) \in {a, b, c} /\ Min({a, b, c}) <= a /\ Min({a, b, c}) <= b /\ Min({a, b, c}) <= c
<1> DEFINE n == IF a <= b THEN a ELSE b
           m == IF n <= c THEN n ELSE c
<1>1. m \in {a, b, c} /\ \A y \in {a, b, c} : m =< y
  OBVIOUS
<1>2. \A x \in {a, b, c} : (\A y \in {a, b, c} : x =< y) => x = m
  <2> SUFFICES ASSUME NEW x \in {a, b, c}, \A y \in {a, b, c} : x =< y PROVE x = m
    OBVIOUS
  <2>1. x =< a /\ x =< b /\ x =< c /\ x \in Nat
    OBVIOUS
  <2> QED BY <2>1
<1> HIDE DEF m
<1>3. Min({a, b, c}) = m
  BY <1>1, <1>2 DEF Min
<1> QED BY <1>1, <1>3

(* The first reader gives the header and no more than its record.          *)
LEMMA LenReadsFirst == ASSUME LenReady, FirstReaderRead, ~baseDown' PROVE LenInv'
<1> DEFINE H == HeaderLen
           w == frag.r1Written
           r == frag.r1Size
           n == op.left
<1>0. conf' = conf /\ frag.tls /\ ~frag.done
  BY DEF FirstReaderRead
<1>1. /\ IsCut /\ frag.announced = conf.split /\ r = conf.split + H /\ w \in Nat /\ w < r /\ Len(out) = w /\ r \in Nat
      /\ taken = IF w < H THEN H ELSE w
  BY <1>0, FirstRecordNumbers
<1>2. /\ H \in Nat /\ H > 0 /\ n \in Nat /\ conf \in Confs /\ conf.split \in Nat /\ conf.split > 0 /\ Follows(out, 0)
      /\ conf.kind = "len" /\ conf.kind \notin Resumers /\ frag \in Writers /\ op \in Running /\ taken \in Nat
      /\ taken + n <= FragStreamLen /\ FragStreamLen \in Nat
  BY <1>1, LenNumbers DEF LenReady, LenInv, FragTypeOK, Running
<1>3. PICK s \in 1 .. HeaderLen + MaxRecord :
        LET ofHdr == Min({s, IF w < H THEN H - w ELSE 0})
            m == Min({s - ofHdr, r - w - ofHdr, n})
            f == [frag EXCEPT !.r1Written = @ + ofHdr + m]
        IN /\ Pull(SubSeq(Header(frag.announced), w + 1, w + ofHdr) \o CallBytes(m))
           /\ frag' = IF f.r1Written = f.r1Size THEN FirstRecordDone(f) ELSE f
           /\ Consume(m, IF frag'.done \/ (n = m /\ s > ofHdr) THEN "secondReader" ELSE "firstReader")
  BY DEF FirstReaderRead
<1> DEFINE left == IF w < H THEN H - w ELSE 0
           ofHdr == Min({s, left})
           room == r - w - ofHdr
           m == Min({s - ofHdr, room, n})
           v == w + ofHdr + m
           f == [frag EXCEPT !.r1Written = v]
           p == IF frag'.done \/ (n = m /\ s > ofHdr) THEN "secondReader" ELSE "firstReader"
           hs == SubSeq(Header(conf.split), w + 1, w + ofHdr)
           bs == hs \o CallBytes(m)
<1>4. PICK sent \in {0, Len(bs)} : BaseWrite(bs, sent)
  BY <1>1, <1>3 DEF Pull
<1>5. /\ frag' = IF f.r1Written = f.r1Size THEN FirstRecordDone(f) ELSE f
      /\ taken' = taken + m /\ op' = Onward(m, p)
  BY <1>3 DEF Consume, Onward
<1>6. f.r1Written = v /\ f.r1Size = r
  BY <1>2 DEF Writers
<1>7. ofHdr \in Nat /\ ofHdr <= s /\ ofHdr <= left /\ (ofHdr = s \/ ofHdr = left) /\ left \in Nat /\ s \in Nat /\ s > 0
      /\ room \in Nat
  <2>1. left \in Nat /\ s \in Nat /\ s > 0
    <3>1. MaxRecord \in Nat
      BY FragSizes
    <3> QED BY <1>1, <1>2, <3>1
  <2>2. ofHdr = IF s <= left THEN s ELSE left
    BY <2>1, SmallerOf
  <2> HIDE DEF ofHdr
  <2>3. ofHdr \in Nat /\ ofHdr <= s /\ ofHdr <= left /\ (ofHdr = s \/ ofHdr = left)
    BY <2>1, <2>2
  <2>4. w + left <= r
    BY <1>1, <1>2
  <2> HIDE DEF left
  <2>5. room \in Nat
    BY <1>1, <2>1, <2>3, <2>4
  <2> QED BY <2>1, <2>3, <2>5
<1> HIDE DEF ofHdr
<1>8. m \in Nat /\ m <= s - ofHdr /\ m <= room /\ m <= n
  <2>1. s - ofHdr \in Nat
    BY <1>7
  <2> HIDE DEF room
  <2>2. m \in {s - ofHdr, room, n} /\ m <= s - ofHdr /\ m <= room /\ m <= n
    BY <1>2, <1>7, <2>1, SmallestOf
  <2> HIDE DEF m
  <2> QED BY <1>2, <1>7, <2>1, <2>2
<1> HIDE DEF m
<1>9. v \in Nat /\ v <= r /\ taken + m = (IF v < H THEN H ELSE v) /\ (s > ofHdr => v >= H)
      /\ (w < H /\ w + ofHdr < H => m = 0)
  <2>1. v \in Nat /\ v <= r
    BY <1>1, <1>7, <1>8
  <2>2. CASE w < H /\ ofHdr = H - w
    <3>1. v = H + m /\ taken = H
      BY <1>1, <1>2, <1>8, <2>2
    <3>2. v >= H /\ ~(w + ofHdr < H)
      <4>1. w + ofHdr = H
        BY <1>1, <1>2, <2>2
      <4> HIDE DEF v
      <4>2. v >= H
        BY <1>2, <1>8, <3>1
      <4> QED BY <1>2, <4>1, <4>2
    <3> HIDE DEF v
    <3> QED BY <1>1, <1>2, <1>8, <2>1, <3>1, <3>2
  <2>3. CASE w < H /\ ofHdr < H - w
    <3>1. ofHdr = s /\ m = 0
      BY <1>1, <1>2, <1>7, <1>8, <2>3
    <3> QED BY <1>1, <1>2, <1>7, <1>8, <2>1, <2>3, <3>1
  <2>4. CASE ~(w < H)
    <3>1. left = 0 /\ w >= H
      BY <1>1, <1>2, <2>4
    <3> HIDE DEF left
    <3>2. ofHdr = 0
      BY <1>7, <3>1
    <3>3. v = w + m /\ taken = w
      BY <1>1, <1>8, <2>4, <3>2
    <3>4. v >= H
      BY <1>1, <1>2, <1>8, <3>1, <3>3
    <3> HIDE DEF v
    <3> QED BY <1>1, <1>2, <1>8, <2>1, <2>4, <3>3, <3>4
  <2> QED BY <1>1, <1>2, <1>7, <2>2, <2>3, <2>4
<1>10. Follows(hs, w) /\ Len(hs) = ofHdr
  <2>1. CASE w < H
    <3>1. w + ofHdr \in Nat /\ w <= w + ofHdr /\ w + ofHdr <= H /\ (w + ofHdr) - w = ofHdr
      <4>1. left = H - w
        BY <2>1
      <4> HIDE DEF left
      <4>2. ofHdr \in Nat /\ ofHdr <= H - w
        BY <1>7, <4>1
      <4>3. w \in Nat /\ H \in Nat
        BY <1>1, <1>2
      <4> HIDE DEF w, H
      <4> QED BY <4>2, <4>3
    <3> QED BY <1>1, <1>2, <3>1, FirstHeaderFollows
  <2>2. CASE ~(w < H)
    <3>1. ofHdr = 0 /\ w + 1 \in Int /\ w + ofHdr \in Int /\ w + ofHdr < w + 1
      <4>1. left = 0
        BY <2>2
      <4> HIDE DEF left
      <4>2. ofHdr = 0
        BY <1>7, <4>1
      <4> QED BY <1>1, <4>2
    <3>2. hs = <<>>
      BY <3>1, SubSeqEmpty
    <3>3. hs \in Seq(StreamByte) /\ Len(hs) = 0
      BY <3>2, EmptySeq
    <3> HIDE DEF hs
    <3> QED BY <3>1, <3>3 DEF Follows
  <2> QED BY <2>1, <2>2
<1>11. Follows(CallBytes(m), w + ofHdr) /\ Len(CallBytes(m)) = m
  <2>0. taken + m <= FragStreamLen
    <3>1. taken \in Nat /\ n \in Nat /\ taken + n <= FragStreamLen /\ FragStreamLen \in Nat
      BY <1>2
    <3>2. m \in Nat /\ m <= n
      BY <1>8
    <3> HIDE DEF n
    <3> QED BY <3>1, <3>2
  <2>1. taken + m <= FragStreamLen /\ taken >= H /\ taken + m <= H + conf.split
    <3>1. taken >= H
      BY <1>1, <1>2
    <3>2. taken + m = (IF v < H THEN H ELSE v) /\ v <= r /\ v \in Nat
      BY <1>9
    <3> HIDE DEF v
    <3>3. taken + m <= H + conf.split
      BY <1>1, <1>2, <3>2
    <3> QED BY <2>0, <3>1, <3>3
  <2>2. Follows(CallBytes(m), taken) /\ Len(CallBytes(m)) = m
    BY <1>1, <1>2, <1>8, <2>1, FirstPayload
  <2>3. CASE w < H /\ w + ofHdr < H
    <3>1. Len(CallBytes(m)) = 0
      BY <1>9, <2>2, <2>3
    <3> QED BY <2>2, <3>1 DEF Follows
  <2>4. CASE ~(w < H /\ w + ofHdr < H)
    <3>1. taken = w + ofHdr
      <4>1. CASE w < H
        <5>1. left = H - w
          BY <4>1
        <5> HIDE DEF left
        <5> QED BY <1>1, <1>2, <1>7, <2>4, <4>1, <5>1
      <4>2. CASE ~(w < H)
        <5>1. left = 0
          BY <4>2
        <5> HIDE DEF left
        <5>2. ofHdr = 0
          BY <1>7, <5>1
        <5> QED BY <1>1, <4>2, <5>2
      <4> QED BY <4>1, <4>2
    <3> QED BY <2>2, <3>1
  <2> QED BY <2>3, <2>4
<1> HIDE DEF hs
<1>12. Follows(bs, Len(out)) /\ Len(bs) = ofHdr + m
  BY <1>1, <1>10, <1>11, JoinFollows
<1> HIDE DEF bs
<1>13. Expected' = Expected
  BY <1>0, <1>2, StreamKept
<1>14. Follows(out, 0)' /\ sent = ofHdr + m /\ Len(out') = w + sent
  BY <1>1, <1>2, <1>4, <1>12, <1>13, SentOn
<1>15. Len(out') = v /\ taken' = taken + m /\ taken' = IF v < HeaderLen THEN HeaderLen ELSE v
  <2>1. Len(out') = v
    BY <1>1, <1>7, <1>8, <1>14
  <2> HIDE DEF v
  <2> QED BY <1>5, <1>9, <2>1
<1>16. frag' = IF v < frag.r1Size THEN [frag EXCEPT !.r1Written = v]
               ELSE FirstRecordDone([frag EXCEPT !.r1Written = v])
  <2> HIDE DEF v
  <2>1. v < r <=> ~(v = r)
    BY <1>1, <1>9
  <2> QED BY <1>5, <1>6, <2>1
<1>17. p \in Places \ {"idle"} /\ op'.at = p
  BY <1>2, <1>5 DEF Places, Onward, Running
<1>18. \/ op'.at = "firstReader" /\ v < r
       \/ op'.at = "secondReader" /\ v >= H
  <2> HIDE DEF v, f
  <2>1. CASE v = r
    <3>1. frag' = FirstRecordDone(f)
      BY <1>5, <1>6, <2>1
    <3>2. frag'.done
      <4>1. f \in Writers
        BY <1>2, <1>9 DEF f, Writers
      <4> QED BY <3>1, <4>1 DEF FirstRecordDone, Writers
    <3>3. v >= H
      BY <1>1, <1>2, <2>1
    <3>4. p = "secondReader"
      BY <3>2
    <3> QED BY <1>17, <3>3, <3>4
  <2>2. CASE v # r
    <3>1. v < r
      BY <1>1, <1>9, <2>2
    <3>2. CASE p = "secondReader"
      <4>1. frag' = f /\ ~f.done
        BY <1>0, <1>2, <1>5, <1>6, <2>2 DEF f, Writers
      <4>2. s > ofHdr
        BY <3>2, <4>1
      <4> QED BY <1>9, <1>17, <3>2, <4>2
    <3>3. CASE p = "firstReader"
      BY <1>17, <3>1, <3>3
    <3> QED BY <3>2, <3>3
  <2> QED BY <2>1, <2>2
<1> HIDE DEF v, p, f
<1> QED BY <1>0, <1>2, <1>5, <1>8, <1>9, <1>14, <1>15, <1>16, <1>17, <1>18, FirstRecordSent

(* clientHelloFragWriter at work.                                          *)
HelloReady == HelloInv /\ conf.kind = "hello"

(* What its invariant says in numbers.                                     *)
LEMMA HelloNumbers ==
  ASSUME HelloReady
  PROVE  /\ conf \in Confs /\ frag \in Writers /\ taken \in Nat /\ op \in Running /\ op.left \in Nat
         /\ frag.hdr \in Nat /\ frag.record \in Seq(StreamByte) /\ (frag.done => frag.tls)
         /\ taken + op.left <= FragStreamLen /\ Follows(out, 0) /\ Len(out) \in Nat
         /\ HeaderLen \in Nat /\ HeaderLen > 0 /\ FragStreamLen \in Nat
<1>1. FragTypeOK /\ Follows(out, 0)
  BY DEF HelloReady, HelloInv
<1>2. conf \in Confs /\ frag \in Writers /\ taken \in Nat /\ op \in Running /\ taken + op.left <= FragStreamLen
      /\ (frag.done => frag.tls)
  BY <1>1 DEF FragTypeOK, Running
<1>3. HeaderLen \in Nat /\ HeaderLen > 0 /\ FragStreamLen \in Nat
  BY <1>2, ConfNumbers
<1>4. Len(out) \in Nat
  BY <1>1 DEF Follows
<1>5. op.left \in Nat /\ frag.hdr \in Nat /\ frag.record \in Seq(StreamByte)
  BY <1>2 DEF Running, Writers
<1> QED BY <1>1, <1>2, <1>3, <1>4, <1>5

(* A call begins at the buffer.                                            *)
LEMMA HelloCalls == ASSUME HelloReady, Call PROVE HelloInv'
<1>0. /\ taken \in Nat /\ FragStreamLen \in Nat /\ conf.kind = "hello"
  BY HelloNumbers DEF HelloReady
<1>1. PICK k \in {"write", "read", "readErr"}, n \in 0 .. FragStreamLen - taken :
        op' = [kind |-> k, left |-> n,
               at |-> IF conf.kind = "len" /\ k = "write" THEN "fill"
                      ELSE IF conf.kind = "hello" THEN "buffer"
                      ELSE IF frag.done /\ frag.hdr = 0 THEN "rest" ELSE "firstReader"]
  BY DEF Call
<1>2. UNCHANGED <<conf, frag, taken, out, baseDown>>
  BY DEF Call
<1>3. op' = [kind |-> k, left |-> n, at |-> "buffer"]
  BY <1>0, <1>1
<1>4. op' \in Running /\ taken + op'.left <= FragStreamLen /\ op'.at = "buffer"
  <2>1. n \in Nat /\ taken + n <= FragStreamLen
    BY <1>0
  <2> QED BY <1>3, <2>1 DEF Running, Places
<1>5. FragTypeOK'
  BY <1>2, <1>4 DEF HelloReady, HelloInv, FragTypeOK, Running
<1>6. Expected' = Expected /\ (Splits' <=> Splits) /\ HeaderAdded' = HeaderAdded
  <2>1. Expected' = Expected /\ (Splits' <=> Splits)
    BY <1>2, StreamKept
  <2> QED BY <1>2, <2>1 DEF HeaderAdded
<1>7. Follows(out, 0)' /\ (Follows(frag.record, Len(out)) => Follows(frag.record, Len(out))')
  BY <1>2, <1>6 DEF HelloReady, HelloInv, Follows
<1> QED BY <1>2, <1>4, <1>5, <1>6, <1>7 DEF HelloReady, HelloInv

(* The call goes on to the flush or to the rest.                           *)
LEMMA HelloMoves ==
  ASSUME HelloReady, UNCHANGED <<conf, frag, taken, out>>,
         NEW p \in {"flush", "rest"}, op' = Onward(0, p),
         p = "rest" => frag.done, p = "flush" => frag.tls /\ ~frag.done
  PROVE  HelloInv'
<1>1. p \in Places \ {"idle"} /\ FragTypeOK /\ op.left \in Nat /\ op \in Running /\ taken \in Nat
  BY HelloNumbers DEF Places, HelloReady, HelloInv
<1>2. op' \in Running /\ (op'.at = "idle" => op' = NoCall) /\ taken + 0 + op'.left <= FragStreamLen
  BY <1>1, CallMoves
<1>3. op'.at = p
  BY <1>1 DEF Onward, Running
<1>4. FragTypeOK'
  <2>1. taken + op'.left <= FragStreamLen
    BY <1>1, <1>2
  <2> QED BY <1>1, <1>2, <2>1 DEF FragTypeOK, Running
<1>5. Expected' = Expected /\ HeaderAdded' = HeaderAdded
  <2>1. Expected' = Expected /\ (Splits' <=> Splits)
    BY StreamKept
  <2> QED BY <2>1 DEF HeaderAdded
<1>6. Follows(out, 0)' /\ (Follows(frag.record, Len(out)) => Follows(frag.record, Len(out))')
  BY <1>5 DEF HelloReady, HelloInv, Follows
<1>7. frag.tls
  BY HelloNumbers
<1> QED BY <1>3, <1>4, <1>5, <1>6, <1>7 DEF HelloReady, HelloInv

(* The buffer has the whole record, or passes on what it got.              *)
LEMMA HelloRecorded ==
  ASSUME HelloReady, ~frag.tls, NEW m \in Nat, m <= op.left, NEW cut \in BOOLEAN, NEW bs,
         frag' = [frag EXCEPT !.hdr = frag.hdr + m, !.tls = TRUE, !.cut = cut, !.record = bs],
         cut => frag.hdr + m = HeaderLen + conf.len,
         bs = IF cut /\ Splits THEN SubSeq(FragmentedStream, 1, HeaderLen + (frag.hdr + m))
              ELSE SubSeq(PlainStream, 1, frag.hdr + m),
         UNCHANGED <<conf, out>>, taken' = taken + m, op' = Onward(m, "flush")
  PROVE  HelloInv'
<1> DEFINE total == frag.hdr + m
           added == IF cut /\ Splits THEN HeaderLen ELSE 0
<1>1. /\ FragTypeOK /\ conf \in Confs /\ frag \in Writers /\ op \in Running /\ op.left \in Nat /\ frag.hdr \in Nat
      /\ taken \in Nat /\ taken + op.left <= FragStreamLen /\ HeaderLen \in Nat /\ FragStreamLen \in Nat
      /\ (frag.done => frag.tls) /\ conf.kind = "hello"
  BY HelloNumbers DEF HelloReady, HelloInv
<1>2. out = <<>> /\ taken = frag.hdr /\ ~frag.done /\ Len(out') = 0
  BY <1>1 DEF HelloReady, HelloInv
<1>3. total \in Nat /\ taken' = total /\ total <= FragStreamLen
  BY <1>1, <1>2
<1> HIDE DEF total
<1>4. "flush" \in Places \ {"idle"}
  BY DEF Places
<1>5. op' \in Running /\ op'.at = "flush" /\ taken' + op'.left <= FragStreamLen
  <2>1. op' \in Running /\ taken + m + op'.left <= FragStreamLen
    BY <1>1, <1>4, CallMoves
  <2> QED BY <1>1, <1>4, <2>1 DEF Onward, Running
<1>6. /\ frag'.tls /\ frag'.done = frag.done /\ frag'.cut = cut /\ frag'.record = bs
  BY <1>1 DEF Writers
<1>7. (Splits' <=> Splits) /\ (IsCut' <=> cut /\ Splits) /\ HeaderAdded' = added
  <2>1. Splits' <=> Splits
    BY DEF Splits
  <2>2. IsCut' <=> Splits' /\ frag'.cut
    BY <1>1 DEF IsCut
  <2> QED BY <1>1, <1>6, <2>1, <2>2 DEF HeaderAdded
<1>8. Expected' = IF cut /\ Splits THEN CutByte ELSE PlainByte
  <2>1. CutByte' = CutByte /\ PlainByte' = PlainByte
    BY DEF CutByte, PlainByte
  <2> QED BY <1>7, <2>1 DEF Expected
<1>9. bs \in Seq(StreamByte) /\ Len(bs) = total + added /\ \A i \in 1 .. Len(bs) : bs[i] = Expected'[i]
  <2>1. CASE cut /\ Splits
    <3> DEFINE s == FragmentedStream
               n == HeaderLen + total
    <3>1. s \in Seq(StreamByte) /\ Len(s) \in Nat /\ Len(s) >= FragStreamLen + HeaderLen
          /\ \A i \in 1 .. Len(s) : s[i] = CutByte[i]
      BY <1>1, <2>1, CutBytes
    <3>2. bs = SubSeq(s, 1, n)
      BY <2>1 DEF total
    <3> HIDE DEF s
    <3>3. n \in 0 .. Len(s) /\ n \in Nat
      <4>1. HeaderLen \in Nat /\ FragStreamLen \in Nat /\ total \in Nat /\ total <= FragStreamLen
        BY <1>1, <1>3
      <4>2. n \in Nat /\ n <= FragStreamLen + HeaderLen
        BY <4>1
      <4> HIDE DEF n
      <4> QED BY <3>1, <4>1, <4>2
    <3> HIDE DEF n
    <3>4. bs \in Seq(StreamByte) /\ Len(bs) = n /\ \A i \in 1 .. n : bs[i] = s[i]
      BY <3>1, <3>2, <3>3, FirstPart
    <3>5. \A i \in 1 .. n : i \in 1 .. Len(s)
      BY <3>1, <3>3
    <3>6. n = total + added
      BY <1>1, <1>3, <2>1 DEF n
    <3> QED BY <1>8, <2>1, <3>1, <3>4, <3>5, <3>6
  <2>2. CASE ~(cut /\ Splits)
    <3> DEFINE s == PlainStream
    <3>1. s \in Seq(StreamByte) /\ Len(s) \in Nat /\ Len(s) >= FragStreamLen
          /\ \A i \in 1 .. Len(s) : s[i] = PlainByte[i]
      BY <1>1, PlainBytes
    <3>2. bs = SubSeq(s, 1, total)
      BY <2>2 DEF total
    <3> HIDE DEF s
    <3>3. total \in 0 .. Len(s)
      BY <1>1, <1>3, <3>1
    <3>4. bs \in Seq(StreamByte) /\ Len(bs) = total /\ \A i \in 1 .. total : bs[i] = s[i]
      BY <3>1, <3>2, <3>3, FirstPart
    <3>5. \A i \in 1 .. total : i \in 1 .. Len(s)
      BY <3>1, <3>3
    <3>6. total = total + added
      BY <1>3, <2>2
    <3> QED BY <1>8, <2>2, <3>1, <3>4, <3>5, <3>6
  <2> QED BY <2>1, <2>2
<1>10. Follows(frag.record, Len(out))'
  <2>1. \A i \in 1 .. Len(bs) : 0 + i = i
    OBVIOUS
  <2>2. \A i \in 1 .. Len(frag'.record) : frag'.record[i] = Expected'[Len(out') + i]
    BY <1>2, <1>6, <1>9, <2>1
  <2> QED BY <1>6, <1>9, <2>2 DEF Follows
<1>11. Follows(out, 0)'
  <2>1. out' \in Seq(StreamByte) /\ Len(out') = 0
    BY <1>2, EmptySeq
  <2> QED BY <2>1 DEF Follows
<1>12. FragTypeOK'
  <2>1. frag' \in Writers
    <3>1. total \in Nat /\ bs \in Seq(StreamByte)
      BY <1>3, <1>9
    <3> QED BY <1>1, <3>1 DEF Writers, total
  <2>2. conf' \in Confs
    BY <1>1 DEF Confs
  <2> QED BY <1>3, <1>5, <1>6, <2>1, <2>2 DEF FragTypeOK, Running
<1>13. Len(out') + Len(frag'.record) = taken' + HeaderAdded'
  <2>1. added \in Nat
    BY <1>1
  <2> HIDE DEF added
  <2> QED BY <1>2, <1>3, <1>6, <1>7, <1>9, <2>1
<1>14. frag'.cut => taken' >= HeaderLen + conf'.len
  <2>1. conf.len \in Nat
    BY <1>1, ConfNumbers
  <2> QED BY <1>1, <1>3, <1>6, <2>1 DEF total
<1> QED BY <1>2, <1>5, <1>6, <1>10, <1>11, <1>12, <1>13, <1>14 DEF HelloInv

(* The buffer takes what the call has, up to the end of the record.        *)
LEMMA HelloBuffers == ASSUME HelloReady, BufferHello PROVE HelloInv'
<1>0. /\ frag \in Writers /\ op \in Running /\ conf \in Confs /\ taken \in Nat /\ op.left \in Nat /\ frag.hdr \in Nat
      /\ HeaderLen \in Nat /\ HeaderLen > 0 /\ UNCHANGED <<conf, out>>
  BY HelloNumbers DEF BufferHello
<1>1. CASE frag.done \/ frag.tls
  <2> DEFINE p == IF frag.done THEN "rest" ELSE "flush"
  <2>1. op' = [op EXCEPT !.at = p] /\ UNCHANGED <<frag, taken>>
    BY <1>1 DEF BufferHello
  <2>2. op' = Onward(0, p)
    <3> HIDE DEF p
    <3>1. op.left - 0 = op.left /\ op = [op EXCEPT !.left = op.left]
      BY <1>0 DEF Running
    <3> QED BY <2>1, <3>1 DEF Onward
  <2>3. p \in {"flush", "rest"} /\ (p = "rest" => frag.done) /\ (p = "flush" => frag.tls /\ ~frag.done)
    BY <1>1
  <2> HIDE DEF p
  <2> QED BY <1>0, <2>1, <2>2, <2>3, HelloMoves
<1>2. CASE ~(frag.done \/ frag.tls)
  <2> DEFINE m == HelloTakes(op.left)
             total == frag.hdr + m
             res == HelloResult(total)
             failed == res = "more" /\ op.kind = "readErr"
             size == IF conf.valid THEN HeaderLen + conf.len ELSE HeaderLen
             bs == IF res = "full" THEN SplitRecord(total)
                   ELSE IF res = "invalid" \/ failed THEN Received(total) ELSE <<>>
  <2>1. /\ taken' = taken + m
        /\ frag' = [frag EXCEPT !.hdr = total, !.tls = res # "more" \/ failed, !.cut = res = "full", !.record = bs]
        /\ op' = IF res = "more" /\ ~failed THEN NoCall ELSE Onward(m, "flush")
    BY <1>2 DEF BufferHello, Onward
  <2>2. /\ taken = frag.hdr /\ out = <<>> /\ frag.record = <<>> /\ ~frag.cut /\ frag.hdr < size /\ conf.kind = "hello"
        /\ ~frag.done
    BY <1>2 DEF HelloReady, HelloInv
  <2>3. conf.len \in Nat /\ size \in Nat /\ conf.valid \in BOOLEAN
    BY <1>0, ConfNumbers
  <2>4. m \in Nat /\ m <= op.left /\ total <= size /\ total \in Nat
    <3>1. m = Min({op.left, size - frag.hdr})
      BY DEF HelloTakes
    <3> HIDE DEF m, size
    <3>2. size - frag.hdr \in Nat
      BY <1>0, <2>2, <2>3
    <3>3. m = IF op.left <= size - frag.hdr THEN op.left ELSE size - frag.hdr
      BY <1>0, <3>1, <3>2, SmallerOf
    <3>4. m \in Nat /\ m <= op.left /\ m <= size - frag.hdr
      BY <1>0, <3>2, <3>3
    <3> QED BY <1>0, <2>3, <3>4
  <2> HIDE DEF m
  <2>5. /\ res = "full" => total = HeaderLen + conf.len /\ conf.valid
        /\ res = "more" => total < size
        /\ res \in {"invalid", "full", "more"}
    BY <1>0, <2>3, <2>4 DEF HelloResult
  <2>6. CASE res = "more" /\ ~failed
    <3>1. op' = NoCall /\ bs = <<>> /\ frag' = [frag EXCEPT !.hdr = total, !.tls = FALSE, !.cut = FALSE, !.record = <<>>]
      BY <2>1, <2>6
    <3>2. total < size
      BY <2>5, <2>6
    <3> HIDE DEF total, size, res, failed, bs
    <3>3. frag' \in Writers /\ ~frag'.tls /\ ~frag'.cut /\ frag'.record = <<>> /\ frag'.hdr = total /\ ~frag'.done
      <4>1. <<>> \in Seq(StreamByte)
        BY EmptySeq
      <4> QED BY <1>0, <2>2, <2>4, <3>1, <4>1 DEF Writers
    <3>4. taken' = total
      BY <2>1, <2>2 DEF total
    <3>5. op' \in Running /\ op'.at = "idle" /\ op'.left = 0
      BY <3>1 DEF NoCall, Running, Places
    <3>6. total <= FragStreamLen
      BY <1>0, <2>2, <2>4, HelloNumbers DEF total
    <3>7. FragTypeOK'
      <4>1. conf' \in Confs
        BY <1>0 DEF Confs
      <4>2. taken' \in Nat /\ taken' + op'.left <= FragStreamLen
        BY <2>4, <3>4, <3>5, <3>6, FragSizes
      <4> QED BY <3>1, <3>3, <3>5, <4>1, <4>2 DEF FragTypeOK, Running
    <3>8. Follows(out, 0)'
      <4>1. out' \in Seq(StreamByte) /\ Len(out') = 0
        BY <1>0, <2>2, EmptySeq
      <4> QED BY <4>1 DEF Follows
    <3>9. frag'.hdr < IF conf'.valid THEN HeaderLen + conf'.len ELSE HeaderLen
      BY <1>0, <3>2, <3>3 DEF size
    <3> QED BY <1>0, <2>2, <3>3, <3>4, <3>5, <3>7, <3>8, <3>9 DEF HelloInv
  <2>7. CASE ~(res = "more" /\ ~failed)
    <3> DEFINE cut == res = "full"
    <3>1. op' = Onward(m, "flush") /\ cut \in BOOLEAN
      BY <2>1, <2>7
    <3>2. bs = IF cut /\ Splits THEN SubSeq(FragmentedStream, 1, HeaderLen + total) ELSE SubSeq(PlainStream, 1, total)
      <4>1. CASE res = "full"
        BY <4>1 DEF SplitRecord, Received
      <4>2. CASE res # "full"
        <5>1. bs = Received(total)
          BY <2>5, <2>7, <4>2
        <5> QED BY <4>2, <5>1 DEF Received
      <4> QED BY <4>1, <4>2
    <3>3. frag' = [frag EXCEPT !.hdr = total, !.tls = TRUE, !.cut = cut, !.record = bs]
      <4>1. (res # "more" \/ failed) = TRUE
        BY <2>7
      <4> HIDE DEF bs, total, res, failed
      <4> QED BY <2>1, <4>1
    <3>4. cut => total = HeaderLen + conf.len
      BY <2>5
    <3> HIDE DEF cut, bs, res, failed
    <3> QED BY <1>0, <1>2, <2>1, <2>4, <3>1, <3>2, <3>3, <3>4, HelloRecorded
  <2> QED BY <2>6, <2>7
<1> QED BY <1>1, <1>2

(* What is left of a sequence that follows, once its beginning is out.     *)
LEMMA LeftFollows ==
  ASSUME NEW s, NEW n \in Nat, Follows(s, n), NEW k \in 0 .. Len(s)
  PROVE  /\ Follows(SubSeq(s, k + 1, Len(s)), n + k) /\ Len(SubSeq(s, k + 1, Len(s))) = Len(s) - k
         /\ k = Len(s) => SubSeq(s, k + 1, Len(s)) = <<>>
<1> DEFINE z == Len(s)
           t == SubSeq(s, k + 1, z)
<1>1. s \in Seq(StreamByte) /\ z \in Nat /\ k \in Nat /\ k <= z /\ \A i \in 1 .. z : s[i] = Expected[n + i]
  BY DEF Follows
<1>2. \A i \in k + 1 .. z : s[i] \in StreamByte
  BY <1>1
<1> HIDE DEF z
<1>3. k + 1 \in Int /\ z \in Int /\ z - (k + 1) + 1 = z - k
  BY <1>1
<1>4. /\ t \in Seq(StreamByte) /\ Len(t) = (IF k + 1 <= z THEN z - k ELSE 0)
      /\ \A i \in 1 .. z - k : t[i] = s[(k + 1) + i - 1]
  BY <1>2, <1>3, SubSeqProperties
<1>5. Len(t) = z - k
  BY <1>1, <1>4
<1>6. \A i \in 1 .. z - k : (k + 1) + i - 1 \in 1 .. z /\ n + ((k + 1) + i - 1) = (n + k) + i
  BY <1>1
<1> HIDE DEF t
<1>7. \A i \in 1 .. z - k : t[i] = Expected[(n + k) + i]
  BY <1>1, <1>4, <1>6
<1>8. k = z => t = <<>>
  <2> SUFFICES ASSUME k = z PROVE t = <<>>
    OBVIOUS
  <2>1. z < k + 1
    BY <1>1
  <2> QED BY <1>3, <2>1, SubSeqEmpty DEF t
<1> QED BY <1>4, <1>5, <1>7, <1>8 DEF t, z, Follows

(* A flush that fails half-way keeps what it has not written.              *)
LEMMA HelloFlushes == ASSUME HelloReady, FlushRecord, ~baseDown' PROVE HelloInv'
<1> DEFINE rec == frag.record
<1>0. /\ frag \in Writers /\ op \in Running /\ conf \in Confs /\ taken \in Nat /\ op.left \in Nat
      /\ rec \in Seq(StreamByte) /\ Follows(out, 0) /\ Len(out) \in Nat /\ op.at = "flush"
      /\ UNCHANGED <<conf, taken>> /\ HeaderLen \in Nat /\ taken + op.left <= FragStreamLen
  BY HelloNumbers DEF FlushRecord
<1>1. /\ frag.tls /\ ~frag.done /\ Len(out) + Len(rec) = taken + HeaderAdded /\ Follows(rec, Len(out))
      /\ (frag.cut => taken >= HeaderLen + conf.len) /\ FragTypeOK
  BY <1>0 DEF HelloReady, HelloInv
<1>2. PICK sent \in 0 .. Len(rec) :
        /\ BaseWrite(rec, sent)
        /\ frag' = Flushed(sent)
        /\ op' = IF sent < Len(rec) THEN NoCall ELSE [op EXCEPT !.at = "rest"]
  BY DEF FlushRecord
<1> DEFINE bs == SubSeq(rec, sent + 1, Len(rec))
           n == Len(rec)
<1>3. n \in Nat
  BY <1>0
<1>4. Follows(bs, Len(out) + sent) /\ Len(bs) = n - sent /\ (sent = n => bs = <<>>)
  BY <1>0, <1>1, LeftFollows
<1>5. frag' = [frag EXCEPT !.record = bs, !.done = (sent = n)]
  BY <1>2 DEF Flushed
<1>6. bs \in Seq(StreamByte)
  BY <1>4 DEF Follows
<1> HIDE DEF bs
<1>7. /\ frag' \in Writers /\ frag'.tls /\ frag'.cut = frag.cut /\ frag'.record = bs /\ (frag'.done <=> sent = n)
  BY <1>0, <1>1, <1>5, <1>6 DEF Writers
<1>8. Expected' = Expected /\ HeaderAdded' = HeaderAdded
  <2>1. Expected' = Expected /\ (Splits' <=> Splits)
    BY <1>0, <1>7, StreamKept
  <2>2. conf.kind = "hello" /\ conf' = conf /\ frag'.cut = frag.cut
    BY <1>0, <1>7 DEF HelloReady
  <2> QED BY <2>1, <2>2 DEF HeaderAdded
<1>9. Follows(out, 0)' /\ Len(out') = Len(out) + sent
  BY <1>0, <1>1, <1>2, <1>8, SentOn
<1>10. Follows(frag.record, Len(out))'
  BY <1>4, <1>7, <1>8, <1>9 DEF Follows
<1>11. Len(out') + Len(frag'.record) = taken' + HeaderAdded'
  <2>1. Len(out') + Len(bs) = Len(out) + n
    <3>1. sent \in Nat
      BY <1>3
    <3> HIDE DEF n
    <3> QED BY <1>0, <1>3, <1>4, <1>9, <3>1
  <2> QED BY <1>0, <1>1, <1>7, <1>8, <2>1
<1>12. /\ op' \in Running /\ taken + op'.left <= FragStreamLen /\ (op'.at = "idle" => op' = NoCall)
       /\ op'.at \in {"idle", "rest"} /\ (op'.at = "rest" => sent = n)
  <2>1. CASE sent < n
    <3>1. op' = NoCall
      BY <1>2, <2>1
    <3>2. op' \in Running /\ op'.at = "idle" /\ op'.left = 0
      BY <3>1 DEF NoCall, Running, Places
    <3> QED BY <1>0, <3>1, <3>2, HelloNumbers
  <2>2. CASE ~(sent < n)
    <3>1. op' = [op EXCEPT !.at = "rest"]
      BY <1>2, <2>2
    <3>2. op' \in Running /\ op'.at = "rest" /\ op'.left = op.left
      BY <1>0, <3>1 DEF Running, Places
    <3>3. sent = n
      BY <1>3, <2>2
    <3> QED BY <1>0, <3>2, <3>3
  <2> QED BY <2>1, <2>2
<1>13. FragTypeOK'
  BY <1>0, <1>7, <1>12 DEF FragTypeOK, Running
<1>14. frag'.done => frag'.record = <<>>
  BY <1>4, <1>7
<1> HIDE DEF n
<1> QED BY <1>0, <1>1, <1>7, <1>9, <1>10, <1>11, <1>12, <1>13, <1>14 DEF HelloInv

(* Behind the record a call is passed on as it is.                         *)
LEMMA HelloWritesRest == ASSUME HelloReady, WriteRest, ~baseDown' PROVE HelloInv'
<1>0. /\ frag \in Writers /\ op \in Running /\ conf \in Confs /\ taken \in Nat /\ op.left \in Nat
      /\ Follows(out, 0) /\ Len(out) \in Nat /\ op.at = "rest" /\ FragStreamLen \in Nat
      /\ UNCHANGED <<conf, frag>> /\ HeaderLen \in Nat /\ taken + op.left <= FragStreamLen
  BY HelloNumbers DEF WriteRest
<1>1. /\ frag.done /\ frag.tls /\ frag.record = <<>> /\ Len(out) + Len(frag.record) = taken + HeaderAdded
      /\ (frag.cut => taken >= HeaderLen + conf.len) /\ FragTypeOK /\ conf.kind = "hello"
  BY <1>0, HelloNumbers DEF HelloReady, HelloInv
<1>2. PICK sent \in 0 .. op.left : BaseWrite(CallBytes(op.left), sent) /\ taken' = taken + sent /\ op' = NoCall
  BY DEF WriteRest, CallOver
<1>3. HeaderAdded = (IF IsCut THEN HeaderLen ELSE 0) /\ Len(out) = taken + HeaderAdded
  <2>1. HeaderAdded = IF IsCut THEN HeaderLen ELSE 0
    BY <1>1 DEF HeaderAdded, IsCut
  <2>2. Len(frag.record) = 0
    BY <1>1
  <2> QED BY <1>0, <1>1, <2>1, <2>2
<1>4. Follows(CallBytes(op.left), Len(out)) /\ Len(CallBytes(op.left)) = op.left
  <2>1. IsCut => Len(out) = taken + HeaderLen /\ taken >= HeaderLen + conf.split
    <3> SUFFICES ASSUME IsCut PROVE Len(out) = taken + HeaderLen /\ taken >= HeaderLen + conf.split
      OBVIOUS
    <3>1. frag.cut /\ Splits
      BY <1>1 DEF IsCut
    <3>2. conf.split < conf.len /\ conf.len \in Nat /\ conf.split \in Nat
      BY <1>0, <3>1, ConfNumbers
    <3> QED BY <1>0, <1>1, <1>3, <3>1, <3>2
  <2>2. ~IsCut => Len(out) = taken
    BY <1>0, <1>3
  <2> QED BY <1>0, <2>1, <2>2, RestFollows
<1>5. Expected' = Expected /\ HeaderAdded' = HeaderAdded
  <2>1. Expected' = Expected /\ (Splits' <=> Splits)
    BY <1>0, StreamKept
  <2> QED BY <1>0, <2>1 DEF HeaderAdded
<1>6. Follows(out, 0)' /\ Len(out') = Len(out) + sent
  BY <1>0, <1>2, <1>4, <1>5, SentOn
<1>7. op' \in Running /\ op'.at = "idle" /\ op'.left = 0
  BY <1>2 DEF NoCall, Running, Places
<1>8. taken' \in Nat /\ taken' + op'.left <= FragStreamLen /\ taken' >= taken
  BY <1>0, <1>2, <1>7
<1>9. FragTypeOK'
  BY <1>0, <1>1, <1>2, <1>7, <1>8 DEF FragTypeOK, Running
<1>10. Follows(frag.record, Len(out))'
  <2>1. frag'.record \in Seq(StreamByte) /\ Len(frag'.record) = 0
    BY <1>0, <1>1, EmptySeq
  <2> QED BY <2>1 DEF Follows
<1>11. Len(out') + Len(frag'.record) = taken' + HeaderAdded'
  <2>1. Len(frag'.record) = 0 /\ HeaderAdded \in Nat
    BY <1>0, <1>1, <1>3
  <2> QED BY <1>0, <1>2, <1>3, <1>5, <1>6, <2>1
<1>12. frag.cut => taken' >= HeaderLen + conf.len
  <2>1. conf.len \in Nat
    BY <1>0, ConfNumbers
  <2> QED BY <1>0, <1>1, <1>8, <2>1
<1> QED BY <1>0, <1>1, <1>6, <1>7, <1>9, <1>10, <1>11, <1>12 DEF HelloInv

(* Every step of a base that still works keeps the invariant.              *)
LEMMA FragInductive ==
  ASSUME "len" \notin Resumers, FragInv, [FragNext]_fragVars
  PROVE  FragInv'
<1> SUFFICES ASSUME ~baseDown' PROVE FragInv'
  BY DEF FragInv
<1>1. CASE UNCHANGED fragVars
  <2>1. UNCHANGED <<conf, frag, op, taken, out, baseDown>>
    BY <1>1 DEF fragVars
  <2>2. Expected' = Expected /\ (Splits' <=> Splits) /\ HeaderAdded' = HeaderAdded
    <3>1. Expected' = Expected /\ (Splits' <=> Splits)
      BY <2>1, StreamKept
    <3> QED BY <2>1, <3>1 DEF HeaderAdded
  <2>3. /\ (FragTypeOK => FragTypeOK') /\ (Follows(out, 0) => Follows(out, 0)')
        /\ (Follows(frag.record, Len(out)) => Follows(frag.record, Len(out))')
    <3>1. FragTypeOK => FragTypeOK'
      BY <2>1 DEF FragTypeOK, Confs, Writers, NoCall
    <3>2. (Follows(out, 0) => Follows(out, 0)') /\ (Follows(frag.record, Len(out)) => Follows(frag.record, Len(out))')
      BY <2>1, <2>2 DEF Follows
    <3> QED BY <3>1, <3>2
  <2>4. LenInv => LenInv'
    BY <2>1, <2>2, <2>3 DEF LenInv, LenFilling, LenFirstRecord, LenBehind
  <2>5. HelloInv => HelloInv'
    BY <2>1, <2>2, <2>3 DEF HelloInv
  <2> QED BY <2>1, <2>4, <2>5 DEF FragInv
<1>2. CASE FragNext
  <2>1. ~baseDown
    BY <1>2 DEF FragNext, Call, FillHeader, WriteFirstRecord, WriteHeader, WriteRest, FirstReaderHeader,
                FirstReaderRead, FirstReaderEnd, SecondReaderRead, BufferHello, FlushRecord, BaseWrite, Pull
  <2>2. conf' = conf
    BY <1>2 DEF FragNext, Call, FillHeader, WriteFirstRecord, WriteHeader, WriteRest, FirstReaderHeader,
                FirstReaderRead, FirstReaderEnd, SecondReaderRead, BufferHello, FlushRecord
  <2>3. CASE conf.kind = "len"
    <3>1. LenReady
      BY <2>1, <2>3 DEF FragInv, LenReady
    <3>2. op.at \notin {"buffer", "flush"}
      BY <3>1 DEF LenReady, LenInv, LenFilling, LenFirstRecord, LenBehind
    <3>3. ~BufferHello /\ ~FlushRecord
      BY <3>2 DEF BufferHello, FlushRecord
    <3>4. LenInv'
      BY <1>2, <3>1, <3>3, LenCalls, LenFills, LenWritesFirst, LenWritesHeader, LenWritesRest, LenReadsHeader,
         LenReadsFirst, LenReadEnds, LenReadsSecond DEF FragNext
    <3> QED BY <2>2, <2>3, <3>4 DEF FragInv
  <2>4. CASE conf.kind = "hello"
    <3>1. HelloReady
      BY <2>1, <2>4 DEF FragInv, HelloReady
    <3>2. op.at \in {"idle", "buffer", "flush", "rest"}
      BY <3>1 DEF HelloReady, HelloInv
    <3>3. /\ ~FillHeader /\ ~WriteFirstRecord /\ ~WriteHeader /\ ~FirstReaderHeader /\ ~FirstReaderRead
          /\ ~FirstReaderEnd /\ ~SecondReaderRead
      BY <3>2 DEF FillHeader, WriteFirstRecord, WriteHeader, FirstReaderHeader, FirstReaderRead, FirstReaderEnd,
                  SecondReaderRead
    <3>4. HelloInv'
      BY <1>2, <3>1, <3>3, HelloCalls, HelloBuffers, HelloFlushes, HelloWritesRest DEF FragNext
    <3> QED BY <2>2, <2>4, <3>4 DEF FragInv
  <2> QED BY <2>1, <2>3, <2>4 DEF FragInv
<1> QED BY <1>1, <1>2

(* The base sees the stream of the caller, its first record cut in two as  *)
(* the doc of WrapConnFixedLen says, for every mix of Write and ReadFrom   *)
(* and every record; of the writer of header lengths it says so as long as *)
(* no caller goes on after a Write that failed half-way, which is what the *)
(* writer gets wrong (FirstRecordHasItsLength).                            *)
THEOREM StreamIsFragmented == ASSUME "len" \notin Resumers PROVE FragSpec => []OutputIsFragmented
<1>1. FragInv /\ [FragNext]_fragVars => FragInv'
  BY FragInductive
<1>2. FragInv => OutputIsFragmented
  <2> SUFFICES ASSUME FragInv, ~baseDown
               PROVE  /\ \/ IsPrefix(out, FragmentedStream)
                         \/ conf.kind = "hello" /\ ~frag.cut /\ IsPrefix(out, PlainStream)
                      /\ Len(out) + HeldBack = taken + HeaderAdded
    BY DEF OutputIsFragmented
  <2> QED BY LenOutput, HelloOutput DEF FragInv
<1> QED BY <1>1, <1>2, FragInitially, PTL DEF FragSpec

-----------------------------------------------------------------------------
(***************************************************************************)
(* Induction over the numbers, for what is defined by recursion.           *)
(***************************************************************************)
Less == {p \in Nat \X Nat : p[1] < p[2]}

(* Every non-empty set of naturals has a least element, and one that has a *)
(* bound a greatest; what holds of 0 and of every next number is all.      *)
LEMMA LeastElement ==
  ASSUME NEW T \in SUBSET Nat, T # {}
  PROVE  \E n \in T : \A m \in T : n <= m
<1>1. IsWellFoundedOn(Less, Nat)
  BY NatLessThanWellFounded DEF OpToRel, Less
<1>2. T \subseteq Nat
  OBVIOUS
<1>3. PICK n \in T : \A m \in T : ~(<<m, n>> \in Less)
  BY <1>1, <1>2, WFMin
<1>4. ASSUME NEW m \in T PROVE n <= m
  <2>1. ~(m < n)
    BY <1>3 DEF Less
  <2> QED BY <2>1
<1> QED BY <1>4

(* The same of a bounded set, from above.                                  *)
LEMMA GreatestElement ==
  ASSUME NEW b \in Nat, NEW T \in SUBSET (0 .. b), T # {}
  PROVE  \E n \in T : \A m \in T : m <= n
<1> DEFINE U == {k \in Nat : b - k \in T}
<1>1. U \in SUBSET Nat
  OBVIOUS
<1>2. U # {}
  <2>1. PICK n \in T : TRUE
    OBVIOUS
  <2>2. n \in Nat /\ b - n \in Nat /\ b - (b - n) = n
    OBVIOUS
  <2>3. b - n \in U
    BY <2>1, <2>2
  <2> QED BY <2>3
<1> HIDE DEF U
<1>3. PICK k \in U : \A j \in U : k <= j
  BY <1>1, <1>2, LeastElement
<1>4. k \in Nat /\ b - k \in T
  BY <1>3 DEF U
<1>5. ASSUME NEW m \in T PROVE m <= b - k
  <2>1. m \in Nat /\ b - m \in Nat /\ b - (b - m) = m
    OBVIOUS
  <2>2. b - m \in U
    BY <2>1 DEF U
  <2>3. k <= b - m
    BY <1>3, <2>2
  <2> QED BY <1>4, <2>1, <2>3
<1> QED BY <1>4, <1>5

(* Induction over a set of numbers.                                        *)
LEMMA SetInduction ==
  ASSUME NEW T \in SUBSET Nat, 0 \in T, \A n \in T : n + 1 \in T
  PROVE  T = Nat
<1>1. SUFFICES ASSUME Nat \ T # {} PROVE FALSE
  OBVIOUS
<1>2. Nat \ T \in SUBSET Nat
  OBVIOUS
<1>3. PICK n \in Nat \ T : \A m \in Nat \ T : n <= m
  BY <1>1, <1>2, LeastElement
<1>4. n # 0 /\ n - 1 \in Nat /\ (n - 1) + 1 = n
  OBVIOUS
<1>5. n - 1 \in T
  BY <1>3, <1>4
<1> QED BY <1>4, <1>5

(* The numbers up to the next one.                                         *)
LEMMA OneMore ==
  ASSUME NEW n \in Nat
  PROVE  \A i : i \in 1 .. n + 1 <=> i \in 1 .. n \/ i = n + 1
OBVIOUS

-----------------------------------------------------------------------------
(* The options of a CONNECT part, in any order.                            *)
MetStep(order, S, f, i) ==
  IF i = 0 THEN <<>> ELSE IF order[i] \in S THEN Append(f[i - 1], order[i]) ELSE f[i - 1]

IsMet(order, S, n, f) == f = [i \in 0 .. n |-> MetStep(order, S, f, i)]

(* The options met are defined for every order.                            *)
LEMMA MetExists ==
  ASSUME NEW order, NEW S, NEW k \in Nat
  PROVE  \E f : IsMet(order, S, k, f)
<1> DEFINE T == {n \in Nat : \E f : IsMet(order, S, n, f)}
<1>1. 0 \in T
  <2> DEFINE f == [i \in 0 .. 0 |-> <<>>]
  <2>1. f = [i \in 0 .. 0 |-> MetStep(order, S, f, i)]
    BY DEF MetStep
  <2> QED BY <2>1 DEF IsMet
<1>2. \A n \in T : n + 1 \in T
  <2> SUFFICES ASSUME NEW n \in Nat, NEW f, IsMet(order, S, n, f)
               PROVE  \E g : IsMet(order, S, n + 1, g)
    OBVIOUS
  <2> DEFINE g == [i \in 0 .. n + 1 |-> IF i = n + 1 THEN MetStep(order, S, f, i) ELSE f[i]]
  <2>1. \A i \in 0 .. n : g[i] = f[i]
    OBVIOUS
  <2>2. \A i \in 0 .. n : f[i] = MetStep(order, S, f, i)
    BY DEF IsMet
  <2>3. \A i \in 0 .. n + 1 : g[i] = MetStep(order, S, g, i)
    BY <2>1, <2>2 DEF MetStep
  <2>4. g = [i \in 0 .. n + 1 |-> g[i]]
    OBVIOUS
  <2> HIDE DEF g
  <2>5. g = [i \in 0 .. n + 1 |-> MetStep(order, S, g, i)]
    BY <2>3, <2>4
  <2> QED BY <2>5 DEF IsMet
<1> HIDE DEF T
<1>3. T \in SUBSET Nat
  BY DEF T
<1>4. T = Nat
  BY <1>1, <1>2, <1>3, SetInduction
<1> QED BY <1>4 DEF T

(* They are those of the order that are asked for, if there are any.       *)
LEMMA MetIs ==
  ASSUME NEW order, Len(order) \in Nat, NEW S
  PROVE  /\ Met(order, S) \in Seq(S)
         /\ Met(order, S) = <<>> <=> \A i \in 1 .. Len(order) : order[i] \notin S
<1> DEFINE F == CHOOSE f : IsMet(order, S, Len(order), f)
<1>1. IsMet(order, S, Len(order), F)
  BY MetExists
<1>2. Met(order, S) = F[Len(order)]
  BY DEF Met, IsMet, MetStep
<1> HIDE DEF F
<1>3. \A i \in 0 .. Len(order) : F[i] = MetStep(order, S, F, i)
  BY <1>1 DEF IsMet
<1> DEFINE None(n) == \A i \in 1 .. n : order[i] \notin S
           T == {n \in Nat : n <= Len(order) => F[n] \in Seq(S) /\ (F[n] = <<>> <=> None(n))}
<1>4. 0 \in T
  <2>1. F[0] = <<>>
    BY <1>3 DEF MetStep
  <2>2. F[0] \in Seq(S) /\ None(0)
    BY <2>1, EmptySeq
  <2> QED BY <2>1, <2>2
<1>5. \A n \in T : n + 1 \in T
  <2> SUFFICES ASSUME NEW n \in T, n + 1 <= Len(order)
               PROVE  F[n + 1] \in Seq(S) /\ (F[n + 1] = <<>> <=> None(n + 1))
    OBVIOUS
  <2>0. n \in Nat /\ F[n] \in Seq(S) /\ (F[n] = <<>> <=> None(n))
    OBVIOUS
  <2> HIDE DEF T
  <2>1. n + 1 \in 0 .. Len(order) /\ n + 1 # 0 /\ (n + 1) - 1 = n
    BY <2>0
  <2>2. F[n + 1] = IF order[n + 1] \in S THEN Append(F[n], order[n + 1]) ELSE F[n]
    BY <1>3, <2>1 DEF MetStep
  <2>3. None(n + 1) <=> None(n) /\ order[n + 1] \notin S
    BY <2>0, OneMore
  <2> HIDE DEF None
  <2>4. CASE order[n + 1] \in S
    <3>1. F[n + 1] = Append(F[n], order[n + 1])
      BY <2>2, <2>4
    <3>2. F[n + 1] \in Seq(S) /\ F[n + 1] # <<>>
      BY <2>0, <2>4, <3>1, AppendProperties
    <3> QED BY <2>0, <2>3, <2>4, <3>2
  <2>5. CASE order[n + 1] \notin S
    BY <2>0, <2>2, <2>3, <2>5
  <2> QED BY <2>4, <2>5
<1> HIDE DEF T
<1>6. T \in SUBSET Nat
  BY DEF T
<1>7. T = Nat
  BY <1>4, <1>5, <1>6, SetInduction
<1> QED BY <1>2, <1>7 DEF T

(* An order of the options has each of them, and nothing else.             *)
LEMMA OrderHasAll ==
  ASSUME NEW S, IsFiniteSet(S), NEW order \in SetToSeqs(S)
  PROVE  Len(order) \in Nat /\ \A x : x \in S <=> \E i \in 1 .. Len(order) : order[i] = x
<1> DEFINE n == Cardinality(S)
<1>1. n \in Nat
  BY FS_CardinalityType
<1>2. order \in [1 .. n -> S] /\ \A i, j \in 1 .. n : i # j => order[i] # order[j]
  BY DEF SetToSeqs
<1> HIDE DEF n
<1>3. Len(order) = n
  <2>1. order \in Seq(S)
    BY <1>1, <1>2, IsASeq
  <2> QED BY <1>1, <1>2, <2>1, LenProperties
<1>4. order \in Injection(1 .. n, S)
  BY <1>2 DEF Injection, IsInjective
<1>5. IsFiniteSet(1 .. n) /\ Cardinality(1 .. n) = n
  <2>1. Cardinality(1 .. n) = IF 1 > n THEN 0 ELSE n - 1 + 1
    BY <1>1, FS_Interval
  <2> QED BY <1>1, <2>1, FS_Interval
<1>6. order \in Surjection(1 .. n, S)
  BY <1>4, <1>5, FS_Injection DEF n
<1>7. \A x \in S : \E i \in 1 .. n : order[i] = x
  BY <1>6 DEF Surjection
<1> QED BY <1>1, <1>2, <1>3, <1>7

(* The last element of a sequence to which another one is added.           *)
LEMMA LastOfJoin ==
  ASSUME NEW S, NEW s \in Seq(S), NEW t \in Seq(S)
  PROVE  /\ t # <<>> => s \o t # <<>> /\ Last(s \o t) = Last(t)
         /\ t = <<>> => s \o t = s
<1> DEFINE u == s \o t
<1>1. Len(u) = Len(s) + Len(t) /\ Len(s) \in Nat /\ Len(t) \in Nat /\ u \in Seq(S)
  BY ConcatProperties
<1>2. \A i \in 1 .. Len(s) + Len(t) : u[i] = IF i <= Len(s) THEN s[i] ELSE t[i - Len(s)]
  BY ConcatProperties
<1>3. ASSUME t # <<>> PROVE u # <<>> /\ Last(u) = Last(t)
  <2>1. Len(t) > 0
    BY <1>1, <1>3, EmptySeq
  <2> HIDE DEF u
  <2>2. Len(u) \in 1 .. Len(s) + Len(t) /\ ~(Len(u) <= Len(s)) /\ Len(u) - Len(s) = Len(t)
    BY <1>1, <2>1
  <2>3. u[Len(u)] = t[Len(t)]
    BY <1>2, <2>2
  <2>4. u # <<>>
    BY <1>1, <2>1, EmptySeq
  <2> QED BY <2>3, <2>4 DEF Last
<1>4. ASSUME t = <<>> PROVE u = s
  BY <1>4, ConcatEmptySeq
<1> QED BY <1>3, <1>4

(* The last element of a sequence is one of its set.                       *)
LEMMA LastIn ==
  ASSUME NEW S, NEW s \in Seq(S), s # <<>>
  PROVE  Last(s) \in S
<1>1. Len(s) \in 1 .. Len(s)
  BY EmptySeq, LenProperties
<1> QED BY <1>1, ElementOfSeq DEF Last

(* A sequence over a set is one over a larger set.                         *)
LEMMA SeqWider ==
  ASSUME NEW S, NEW V, S \subseteq V, NEW s \in Seq(S)
  PROVE  s \in Seq(V)
<1>1. s \in [1 .. Len(s) -> S] /\ Len(s) \in Nat
  BY LenProperties
<1>2. s \in [1 .. Len(s) -> V]
  BY <1>1
<1> QED BY <1>1, <1>2, IsASeq

(* What a CONNECT part talks to, whatever the order of its options.        *)
LEMMA ProxyIs ==
  ASSUME NEW part, IsFiniteSet(part.opts), NEW order \in SetToSeqs(part.opts \ {"user", "server"})
  PROVE  /\ Proxy(part, order).plain <=> /\ part.type # "h3connect" /\ "plain" \in part.opts
                                         /\ part.opts \cap TlsOptions = {}
         /\ Proxy(part, order).header = IF "auth" \in part.opts THEN "auth"
                                        ELSE IF "user" \in part.opts THEN "user" ELSE "none"
<1> DEFINE opts == part.opts
           m == Met(order, {"plain"})
           a == Met(order, {"auth"})
           t == IF opts \cap TlsOptions # {} THEN <<"tls">> ELSE <<>>
           u == IF "user" \in opts THEN <<"user">> ELSE <<>>
           S == {"plain", "tls", "auth", "user"}
<1>1. Len(order) \in Nat /\ \A x : x \in opts \ {"user", "server"} <=> \E i \in 1 .. Len(order) : order[i] = x
  <2>1. IsFiniteSet(opts \ {"user", "server"})
    BY FS_Difference
  <2> QED BY <2>1, OrderHasAll
<1>2. m \in Seq({"plain"}) /\ (m # <<>> <=> "plain" \in opts)
  <2>1. m \in Seq({"plain"}) /\ (m = <<>> <=> \A i \in 1 .. Len(order) : order[i] \notin {"plain"})
    BY <1>1, MetIs
  <2> QED BY <1>1, <2>1
<1>3. a \in Seq({"auth"}) /\ (a # <<>> <=> "auth" \in opts)
  <2>1. a \in Seq({"auth"}) /\ (a = <<>> <=> \A i \in 1 .. Len(order) : order[i] \notin {"auth"})
    BY <1>1, MetIs
  <2> QED BY <1>1, <2>1
<1>4. Proxy(part, order) = [plain  |-> part.type # "h3connect" /\ m \o t # <<>> /\ Last(m \o t) = "plain",
                            header |-> IF u \o a = <<>> THEN "none" ELSE Last(u \o a)]
  BY DEF Proxy, ParseConnectOptions
<1> HIDE DEF m, a
<1>5. m \in Seq(S) /\ a \in Seq(S) /\ t \in Seq(S) /\ u \in Seq(S)
  <2>1. m \in Seq(S)
    BY <1>2, SeqWider
  <2>2. a \in Seq(S)
    BY <1>3, SeqWider
  <2>3. <<>> \in Seq(S) /\ <<"tls">> \in Seq(S) /\ <<"user">> \in Seq(S)
    BY EmptySeq
  <2>4. t \in Seq(S) /\ u \in Seq(S)
    BY <2>3
  <2> QED BY <2>1, <2>2, <2>4
<1>6. /\ m # <<>> => Last(m) = "plain"
      /\ a # <<>> => Last(a) = "auth"
  BY <1>2, <1>3, LastIn
<1>7. (m \o t # <<>> /\ Last(m \o t) = "plain") <=> ("plain" \in opts /\ opts \cap TlsOptions = {})
  <2>1. CASE opts \cap TlsOptions # {}
    <3>1. t = <<"tls">> /\ t # <<>> /\ Last(t) = "tls"
      BY <2>1 DEF Last
    <3>2. Last(m \o t) = "tls"
      BY <1>5, <3>1, LastOfJoin
    <3> QED BY <2>1, <3>2
  <2>2. CASE opts \cap TlsOptions = {}
    <3>1. t = <<>>
      BY <2>2
    <3>2. m \o t = m
      BY <1>5, <3>1, LastOfJoin
    <3> QED BY <1>2, <1>6, <2>2, <3>2
  <2> QED BY <2>1, <2>2
<1>8. (IF u \o a = <<>> THEN "none" ELSE Last(u \o a))
        = IF "auth" \in opts THEN "auth" ELSE IF "user" \in opts THEN "user" ELSE "none"
  <2>1. CASE a # <<>>
    <3>1. u \o a # <<>> /\ Last(u \o a) = Last(a)
      BY <1>5, <2>1, LastOfJoin
    <3> QED BY <1>3, <1>6, <2>1, <3>1
  <2>2. CASE a = <<>>
    <3>1. u \o a = u
      BY <1>5, <2>2, LastOfJoin
    <3>2. CASE "user" \in opts
      <4>1. u = <<"user">> /\ u # <<>> /\ Last(u) = "user"
        BY <3>2 DEF Last
      <4> HIDE DEF u
      <4> QED BY <1>3, <2>2, <3>1, <3>2, <4>1
    <3>3. CASE "user" \notin opts
      <4>1. u = <<>>
        BY <3>3
      <4> HIDE DEF u
      <4> QED BY <1>3, <2>2, <3>1, <3>3, <4>1
    <3> QED BY <3>2, <3>3
  <2> QED BY <2>1, <2>2
<1> HIDE DEF t, u
<1> DEFINE h == IF u \o a = <<>> THEN "none" ELSE Last(u \o a)
           c == part.type # "h3connect" /\ m \o t # <<>> /\ Last(m \o t) = "plain"
<1>10. Proxy(part, order) = [plain |-> c, header |-> h]
  BY <1>4
<1>11. c <=> part.type # "h3connect" /\ "plain" \in opts /\ opts \cap TlsOptions = {}
  BY <1>7
<1> HIDE DEF h, c
<1>12. Proxy(part, order).header = h /\ Proxy(part, order).plain = c
  BY <1>10
<1> QED BY <1>8, <1>11, <1>12 DEF h

-----------------------------------------------------------------------------
(***************************************************************************)
(* Teardown: what a call has opened is taken down, completely and from the *)
(* top. held is what the steps behind have taken; from there on the        *)
(* releases still to be made leave, one after another, sets in which       *)
(* everything has what it needs, and at the end what the call may leave.   *)
(***************************************************************************)
Gets(s, k) == UNION {s[i].gets : i \in 1 .. k}

Safe(h) == \A r \in h : Needs(r) \subseteq h

Released(t, j) == {t[i] : i \in 1 .. j}

WellDown(h, t, left) == /\ t \in Seq(Released(t, Len(t)))
                        /\ \A j \in 0 .. Len(t) : Safe(h \ Released(t, j))
                        /\ h \ Released(t, Len(t)) = left

PlaceSound == /\ WellDown(Gets(Steps(proc), at - 1), Steps(proc)[at].undo, KnownLeaks)
              /\ WellDown(Gets(Steps(proc), Len(Steps(proc))), Closes(proc), {})
              /\ \A k \in 0 .. Len(Steps(proc)) : Safe(Gets(Steps(proc), k))

TearInv ==
  /\ proc \in Procs /\ at \in 1 .. Len(Steps(proc))
  /\ phase \in {"call", "undo", "failed", "open", "closing", "closed"}
  /\ Safe(held)
  /\ phase = "call" => held = Gets(Steps(proc), at - 1)
  /\ phase = "undo" => WellDown(held, todo, KnownLeaks)
  /\ phase = "failed" => held = KnownLeaks
  /\ phase = "open" => held = Gets(Steps(proc), Len(Steps(proc)))
  /\ phase = "closing" => WellDown(held, todo, {})
  /\ phase = "closed" => held = {}

(* What a row of steps has taken, for as many steps as there are.          *)
LEMMA GetsAre ==
  ASSUME NEW s
  PROVE  /\ Gets(s, 0) = {}
         /\ Gets(s, 1) = s[1].gets
         /\ Gets(s, 2) = s[1].gets \cup s[2].gets
         /\ Gets(s, 3) = s[1].gets \cup s[2].gets \cup s[3].gets
         /\ Gets(s, 4) = s[1].gets \cup s[2].gets \cup s[3].gets \cup s[4].gets
         /\ Gets(s, 5) = s[1].gets \cup s[2].gets \cup s[3].gets \cup s[4].gets \cup s[5].gets
         /\ Gets(s, 6) = s[1].gets \cup s[2].gets \cup s[3].gets \cup s[4].gets \cup s[5].gets \cup s[6].gets
<1>1. /\ 1 .. 0 = {}
      /\ 1 .. 1 = {1}
      /\ 1 .. 2 = {1, 2}
      /\ 1 .. 3 = {1, 2, 3}
      /\ 1 .. 4 = {1, 2, 3, 4}
      /\ 1 .. 5 = {1, 2, 3, 4, 5}
      /\ 1 .. 6 = {1, 2, 3, 4, 5, 6}
  OBVIOUS
<1>2. Gets(s, 0) = {} /\ Gets(s, 1) = s[1].gets /\ Gets(s, 2) = s[1].gets \cup s[2].gets
  BY <1>1 DEF Gets
<1>3. Gets(s, 3) = s[1].gets \cup s[2].gets \cup s[3].gets
  BY <1>1 DEF Gets
<1>4. Gets(s, 4) = s[1].gets \cup s[2].gets \cup s[3].gets \cup s[4].gets
  BY <1>1 DEF Gets
<1>5. Gets(s, 5) = s[1].gets \cup s[2].gets \cup s[3].gets \cup s[4].gets \cup s[5].gets
  BY <1>1 DEF Gets
<1>6. Gets(s, 6) = s[1].gets \cup s[2].gets \cup s[3].gets \cup s[4].gets \cup s[5].gets \cup s[6].gets
  BY <1>1 DEF Gets
<1> QED BY <1>2, <1>3, <1>4, <1>5, <1>6

(* The next step takes what it takes.                                      *)
LEMMA GetsNext ==
  ASSUME NEW s, NEW k \in Nat, k # 0
  PROVE  Gets(s, k) = Gets(s, k - 1) \cup s[k].gets
<1>1. \A i : i \in 1 .. k <=> i \in 1 .. (k - 1) \/ i = k
  OBVIOUS
<1> QED BY <1>1 DEF Gets

(* Releases in a row, of none up to four resources.                        *)
LEMMA DownNone ==
  ASSUME NEW h, Safe(h)
  PROVE  WellDown(h, <<>>, h)
<1>1. Len(<<>>) = 0 /\ Released(<<>>, 0) = {} /\ <<>> \in Seq({})
  BY EmptySeq DEF Released
<1>2. h \ {} = h /\ \A j \in 0 .. 0 : j = 0
  OBVIOUS
<1> QED BY <1>1, <1>2 DEF WellDown

(* Of one resource.                                                        *)
LEMMA DownOne ==
  ASSUME NEW h, NEW a, NEW h1,
         h1 = h \ {a},
         Safe(h), Safe(h1)
  PROVE  WellDown(h, <<a>>, h1)
<1> DEFINE t == <<a>>
<1>0. t \in Seq({a})
  OBVIOUS
<1>1. Len(t) = 1 /\ t[1] = a
  OBVIOUS
<1> HIDE DEF t
<1>2. /\ Released(t, 0) = {}
      /\ Released(t, 1) = {a}
  BY <1>1 DEF Released
<1>3. /\ h \ {} = h
      /\ h \ {a} = h1
  OBVIOUS
<1>4. \A j \in 0 .. 1 : j = 0 \/ j = 1
  OBVIOUS
<1>5. \A j \in 0 .. 1 : Safe(h \ Released(t, j))
  BY <1>2, <1>3, <1>4
<1>6. WellDown(h, t, h1)
  BY <1>0, <1>1, <1>2, <1>3, <1>5 DEF WellDown
<1> QED BY <1>6 DEF t

(* Of two.                                                                 *)
LEMMA DownTwo ==
  ASSUME NEW h, NEW a, NEW h1, NEW b, NEW h2,
         h1 = h \ {a}, h2 = h1 \ {b},
         Safe(h), Safe(h1), Safe(h2)
  PROVE  WellDown(h, <<a, b>>, h2)
<1> DEFINE t == <<a, b>>
<1>0. t \in Seq({a, b})
  OBVIOUS
<1>1. Len(t) = 2 /\ t[1] = a /\ t[2] = b
  OBVIOUS
<1> HIDE DEF t
<1>2. /\ Released(t, 0) = {}
      /\ Released(t, 1) = {a}
      /\ Released(t, 2) = {a, b}
  BY <1>1 DEF Released
<1>3. /\ h \ {} = h
      /\ h \ {a} = h1
      /\ h \ {a, b} = h2
  OBVIOUS
<1>4. \A j \in 0 .. 2 : j = 0 \/ j = 1 \/ j = 2
  OBVIOUS
<1>5. \A j \in 0 .. 2 : Safe(h \ Released(t, j))
  BY <1>2, <1>3, <1>4
<1>6. WellDown(h, t, h2)
  BY <1>0, <1>1, <1>2, <1>3, <1>5 DEF WellDown
<1> QED BY <1>6 DEF t

(* Of three.                                                               *)
LEMMA DownThree ==
  ASSUME NEW h, NEW a, NEW h1, NEW b, NEW h2, NEW c, NEW h3,
         h1 = h \ {a}, h2 = h1 \ {b}, h3 = h2 \ {c},
         Safe(h), Safe(h1), Safe(h2), Safe(h3)
  PROVE  WellDown(h, <<a, b, c>>, h3)
<1> DEFINE t == <<a, b, c>>
<1>0. t \in Seq({a, b, c})
  OBVIOUS
<1>1. Len(t) = 3 /\ t[1] = a /\ t[2] = b /\ t[3] = c
  OBVIOUS
<1> HIDE DEF t
<1>2. /\ Released(t, 0) = {}
      /\ Released(t, 1) = {a}
      /\ Released(t, 2) = {a, b}
      /\ Released(t, 3) = {a, b, c}
  BY <1>1 DEF Released
<1>3. /\ h \ {} = h
      /\ h \ {a} = h1
      /\ h \ {a, b} = h2
      /\ h \ {a, b, c} = h3
  OBVIOUS
<1>4. \A j \in 0 .. 3 : j = 0 \/ j = 1 \/ j = 2 \/ j = 3
  OBVIOUS
<1>5. \A j \in 0 .. 3 : Safe(h \ Released(t, j))
  BY <1>2, <1>3, <1>4
<1>6. WellDown(h, t, h3)
  BY <1>0, <1>1, <1>2, <1>3, <1>5 DEF WellDown
<1> QED BY <1>6 DEF t

(* Of four.                                                                *)
LEMMA DownFour ==
  ASSUME NEW h, NEW a, NEW h1, NEW b, NEW h2, NEW c, NEW h3, NEW d, NEW h4,
         h1 = h \ {a}, h2 = h1 \ {b}, h3 = h2 \ {c}, h4 = h3 \ {d},
         Safe(h), Safe(h1), Safe(h2), Safe(h3), Safe(h4)
  PROVE  WellDown(h, <<a, b, c, d>>, h4)
<1> DEFINE t == <<a, b, c, d>>
<1>0. t \in Seq({a, b, c, d})
  OBVIOUS
<1>1. Len(t) = 4 /\ t[1] = a /\ t[2] = b /\ t[3] = c /\ t[4] = d
  OBVIOUS
<1> HIDE DEF t
<1>2. /\ Released(t, 0) = {}
      /\ Released(t, 1) = {a}
      /\ Released(t, 2) = {a, b}
      /\ Released(t, 3) = {a, b, c}
      /\ Released(t, 4) = {a, b, c, d}
  BY <1>1 DEF Released
<1>3. /\ h \ {} = h
      /\ h \ {a} = h1
      /\ h \ {a, b} = h2
      /\ h \ {a, b, c} = h3
      /\ h \ {a, b, c, d} = h4
  OBVIOUS
<1>4. \A j \in 0 .. 4 : j = 0 \/ j = 1 \/ j = 2 \/ j = 3 \/ j = 4
  OBVIOUS
<1>5. \A j \in 0 .. 4 : Safe(h \ Released(t, j))
  BY <1>2, <1>3, <1>4
<1>6. WellDown(h, t, h4)
  BY <1>0, <1>1, <1>2, <1>3, <1>5 DEF WellDown
<1> QED BY <1>6 DEF t

(* The row starts from a set in which everything has what it needs.         *)
LEMMA DownSafe ==
  ASSUME NEW h, NEW left, NEW t, WellDown(h, t, left)
  PROVE  Safe(h) /\ (t = <<>> => h = left)
<1>1. Len(t) \in Nat /\ Released(t, 0) = {} /\ h \ {} = h
  BY LenProperties DEF WellDown, Released
<1>2. 0 \in 0 .. Len(t)
  BY <1>1
<1>3. t = <<>> => Len(t) = 0
  BY EmptySeq
<1> QED BY <1>1, <1>2, <1>3 DEF WellDown

(* One release more leaves the rest of the row as good.                    *)
LEMMA DownStep ==
  ASSUME NEW h, NEW left, NEW t, t # <<>>, WellDown(h, t, left)
  PROVE  /\ Safe(h \ {Head(t)})
         /\ WellDown(h \ {Head(t)}, Tail(t), left)
<1> DEFINE u == Tail(t)
<1>0. t \in Seq(Released(t, Len(t)))
  BY DEF WellDown
<1>1. /\ Len(t) \in Nat /\ Len(t) # 0 /\ Len(u) = Len(t) - 1 /\ Head(t) = t[1]
      /\ \A i \in 1 .. Len(u) : u[i] = t[i + 1]
  BY <1>0, EmptySeq, HeadTailProperties, LenProperties
<1>8. u \in Seq(Released(u, Len(u)))
  <2>1. u \in Seq(Released(t, Len(t)))
    BY <1>0, HeadTailProperties
  <2> HIDE DEF u
  <2>2. Len(u) \in Nat /\ u = [i \in 1 .. Len(u) |-> u[i]]
    BY <2>1, LenProperties
  <2>3. \A i \in 1 .. Len(u) : u[i] \in Released(u, Len(u))
    BY DEF Released
  <2>4. u \in [1 .. Len(u) -> Released(u, Len(u))]
    BY <2>2, <2>3
  <2> QED BY <2>2, <2>4, IsASeq
<1> HIDE DEF u
<1>2. ASSUME NEW j \in 0 .. Len(u) PROVE (h \ {Head(t)}) \ Released(u, j) = h \ Released(t, j + 1)
  <2>1. \A i \in 1 .. j : i + 1 \in 1 .. (j + 1) /\ u[i] = t[i + 1]
    BY <1>1
  <2>2. 1 \in 1 .. (j + 1) /\ \A i \in 1 .. (j + 1) : i = 1 \/ (i - 1 \in 1 .. j /\ (i - 1) + 1 = i)
    BY <1>1
  <2>3. \A i \in 1 .. (j + 1) : t[i] \in {t[1]} \cup Released(u, j)
    <3>1. \A i \in 1 .. j : t[i + 1] \in Released(u, j)
      BY <2>1 DEF Released
    <3> QED BY <2>2, <3>1
  <2>4. t[1] \in Released(t, j + 1) /\ \A i \in 1 .. j : u[i] \in Released(t, j + 1)
    BY <2>1, <2>2 DEF Released
  <2>5. Released(t, j + 1) = {t[1]} \cup Released(u, j)
    <3>1. Released(t, j + 1) \subseteq {t[1]} \cup Released(u, j)
      BY <2>3 DEF Released
    <3>2. Released(u, j) \subseteq Released(t, j + 1)
      BY <2>4 DEF Released
    <3> QED BY <2>4, <3>1, <3>2
  <2> QED BY <1>1, <2>5
<1>3. \A j \in 0 .. Len(u) : j + 1 \in 0 .. Len(t)
  BY <1>1
<1>4. \A j \in 0 .. Len(u) : Safe((h \ {Head(t)}) \ Released(u, j))
  BY <1>2, <1>3 DEF WellDown
<1>5. Len(u) \in 0 .. Len(u) /\ Len(u) + 1 = Len(t) /\ 0 \in 0 .. Len(u)
  BY <1>1
<1>6. (h \ {Head(t)}) \ Released(u, Len(u)) = left
  BY <1>2, <1>5 DEF WellDown
<1>7. Released(u, 0) = {} /\ (h \ {Head(t)}) \ {} = h \ {Head(t)}
  BY DEF Released
<1> QED BY <1>4, <1>5, <1>6, <1>7, <1>8 DEF WellDown, u

(* A row of releases with one before it, and a row of steps with one after *)
(* it.                                                                     *)
LEMMA JoinFour ==
  ASSUME NEW a, NEW b, NEW c, NEW d
  PROVE  <<a>> \o <<b, c, d>> = <<a, b, c, d>>
<1> DEFINE S == {a, b, c, d}
           u == <<a>>
           v == <<b, c, d>>
           w == <<a, b, c, d>>
<1>1. u \in Seq(S) /\ v \in Seq(S) /\ w \in Seq(S)
  OBVIOUS
<1>2. /\ Len(u) = 1 /\ u[1] = a
      /\ Len(v) = 3 /\ v[1] = b /\ v[2] = c /\ v[3] = d
      /\ Len(w) = 4 /\ w[1] = a /\ w[2] = b /\ w[3] = c /\ w[4] = d
  OBVIOUS
<1> HIDE DEF S, u, v, w
<1>3. /\ u \o v \in Seq(S) /\ Len(u \o v) = Len(u) + Len(v)
      /\ \A i \in 1 .. Len(u) + Len(v) : (u \o v)[i] = IF i <= Len(u) THEN u[i] ELSE v[i - Len(u)]
  BY <1>1, ConcatProperties
<1>4. Len(u \o v) = 4 /\ \A i \in 1 .. 4 : (u \o v)[i] = IF i <= 1 THEN u[i] ELSE v[i - 1]
  <2>1. Len(u) + Len(v) = 4
    BY <1>2
  <2> QED BY <1>2, <1>3, <2>1
<1>5. (u \o v)[1] = a /\ (u \o v)[2] = b /\ (u \o v)[3] = c /\ (u \o v)[4] = d
  <2>1. 1 \in 1 .. 4 /\ 2 \in 1 .. 4 /\ 3 \in 1 .. 4 /\ 4 \in 1 .. 4
    OBVIOUS
  <2>2. (u \o v)[1] = u[1] /\ (u \o v)[2] = v[1]
    BY <1>4, <2>1
  <2>3. (u \o v)[3] = v[2] /\ (u \o v)[4] = v[3]
    BY <1>4, <2>1
  <2> QED BY <1>2, <2>2, <2>3
<1>6. \A i \in 1 .. 4 : i = 1 \/ i = 2 \/ i = 3 \/ i = 4
  OBVIOUS
<1>7. \A i \in 1 .. 4 : (u \o v)[i] = w[i]
  BY <1>2, <1>5, <1>6
<1>8. u \o v = w
  BY <1>1, <1>2, <1>3, <1>4, <1>7, SeqEqual
<1> QED BY <1>8 DEF u, v, w

(* A row with whatever is added at its end.                                *)
LEMMA AppendAny ==
  ASSUME NEW S, NEW s \in Seq(S), NEW e
  PROVE  /\ Len(Append(s, e)) = Len(s) + 1
         /\ Append(s, e)[Len(s) + 1] = e
         /\ \A i \in 1 .. Len(s) : Append(s, e)[i] = s[i]
<1>1. s \in Seq(S \cup {e})
  BY SeqWider
<1>2. e \in S \cup {e}
  OBVIOUS
<1> QED BY <1>1, <1>2, AppendProperties

(* The steps of DTLS over TURN.                                            *)
LEMMA TurnDtlsRow ==
  /\ Len(TurnDtlsSteps) = 6 /\ TurnDtlsSteps[6] = Takes("dtls", TurnCloseAll)
  /\ \A i \in 1 .. 5 : TurnDtlsSteps[i] = TurnSteps[i]
<1> DEFINE row == TurnSteps
           S == {TurnSteps[1], TurnSteps[2], TurnSteps[3], TurnSteps[4], TurnSteps[5]}
           e == Takes("dtls", TurnCloseAll)
<1>0. row \in Seq(S)
  BY DEF TurnSteps
<1>1. Len(row) = 5 /\ Len(row) + 1 = 6
  BY DEF TurnSteps
<1>3. TurnDtlsSteps = Append(row, e)
  BY DEF TurnDtlsSteps, row
<1> HIDE DEF row, S, e
<1>2. /\ Len(Append(row, e)) = Len(row) + 1
      /\ Append(row, e)[Len(row) + 1] = e
      /\ \A i \in 1 .. Len(row) : Append(row, e)[i] = row[i]
  BY <1>0, AppendAny
<1> QED BY <1>1, <1>2, <1>3 DEF row, e

(* A call that opens one thing, then takes a step that may fail: SOCKS5,    *)
(* Shadowsocks, tlsfrag and the resolvers over UDP and TCP.                *)
LEMMA OneThingSound ==
  ASSUME NEW r \in {"proxy", "inner", "socket"}, KnownLeaks = {},
         Steps(proc) = << Takes(r, <<>>), Does(<<r>>) >>, Closes(proc) = <<r>>,
         at \in 1 .. Len(Steps(proc))
  PROVE  PlaceSound
<1> DEFINE s == Steps(proc)
<1>1. /\ Len(s) = 2 /\ at \in 1 .. 2
      /\ s[1].gets = {r} /\ s[1].undo = <<>> /\ s[2].gets = {} /\ s[2].undo = <<r>>
  BY DEF Takes, Does
<1> HIDE DEF s
<1>2. Gets(s, 0) = {} /\ Gets(s, 1) = {r} /\ Gets(s, 2) = {r}
  BY <1>1, GetsAre
<1>3. Safe({}) /\ Safe({r}) /\ Safe({r} \ {r}) /\ {r} \ {r} = {}
  BY DEF Safe, Needs
<1>4. WellDown({}, <<>>, {}) /\ WellDown({r}, <<r>>, {})
  BY <1>3, DownNone, DownOne
<1>5. at = 1 \/ at = 2
  BY <1>1
<1>6. WellDown(Gets(s, at - 1), s[at].undo, KnownLeaks)
  <2>1. CASE at = 1
    <3>1. at - 1 = 0
      BY <2>1
    <3> QED BY <1>1, <1>2, <1>4, <2>1, <3>1
  <2>2. CASE at = 2
    <3>1. at - 1 = 1
      BY <2>2
    <3> QED BY <1>1, <1>2, <1>4, <2>2, <3>1
  <2> QED BY <1>5, <2>1, <2>2
<1>7. \A k \in 0 .. Len(s) : Safe(Gets(s, k))
  <2>1. \A k \in 0 .. 2 : k = 0 \/ k = 1 \/ k = 2
    OBVIOUS
  <2> QED BY <1>1, <1>2, <1>3, <2>1
<1> QED BY <1>1, <1>2, <1>4, <1>6, <1>7 DEF PlaceSound, s

(* TLS over a connection it opens, closed from the session down.           *)
LEMMA TlsSound ==
  ASSUME proc \in {"tls", "h2"}, at \in 1 .. Len(Steps(proc))
  PROVE  PlaceSound
<1> DEFINE s == Steps(proc)
<1>1. s = TlsSteps /\ at \in 1 .. Len(s)
  BY DEF Steps, TlsSteps, H2Steps
<1>c. Closes(proc) = <<"tls", "inner">>
  BY DEF Closes, TlsSteps, H2Steps
<1>2. /\ Len(s) = 2
      /\ s[1].gets = {"inner"} /\ s[1].undo = <<>>
      /\ s[2].gets = {"tls"} /\ s[2].undo = <<"inner">>
  <2>0. Len(s) = 2
    BY <1>1 DEF TlsSteps
  <2>1. s[1].gets = {"inner"} /\ s[1].undo = <<>>
    <3>1. s[1] = Takes("inner", <<>>)
      BY <1>1 DEF TlsSteps
    <3> QED BY <3>1 DEF Takes, Does
  <2>2. s[2].gets = {"tls"} /\ s[2].undo = <<"inner">>
    <3>1. s[2] = Takes("tls", <<"inner">>)
      BY <1>1 DEF TlsSteps
    <3> QED BY <3>1 DEF Takes, Does
  <2> QED BY <2>0, <2>1, <2>2
<1> HIDE DEF s
<1>0. at = 1 \/ at = 2
  BY <1>1, <1>2
<1>3. /\ Gets(s, 0) = {}
      /\ Gets(s, 1) = {"inner"}
      /\ Gets(s, 2) = {"inner", "tls"}
  BY <1>2, GetsAre
<1>4. /\ {"inner"} \ {"inner"} = {}
      /\ {"inner", "tls"} \ {"tls"} = {"inner"}
  OBVIOUS
<1>5. /\ Safe({})
      /\ Safe({"inner"})
      /\ Safe({"inner", "tls"})
  BY DEF Safe, Needs
<1>6. WellDown({}, <<>>, {})
  BY <1>4, <1>5, DownNone
<1>7. WellDown({"inner"}, <<"inner">>, {})
  BY <1>4, <1>5, DownOne
<1>8. WellDown({"inner", "tls"}, <<"tls", "inner">>, {})
  BY <1>4, <1>5, DownTwo
<1>9. WellDown(Gets(s, at - 1), s[at].undo, KnownLeaks)
  <2>1. CASE at = 1
    <3>1. at - 1 = 0 /\ KnownLeaks = {}
      BY <2>1 DEF KnownLeaks
    <3> QED BY <1>2, <1>3, <1>6, <2>1, <3>1
  <2>2. CASE at = 2
    <3>1. at - 1 = 1 /\ KnownLeaks = {}
      BY <2>2 DEF KnownLeaks
    <3> QED BY <1>2, <1>3, <1>7, <2>2, <3>1
  <2> QED BY <1>0, <2>1, <2>2
<1>10. \A k \in 0 .. Len(s) : Safe(Gets(s, k))
  <2>1. \A k \in 0 .. 2 : k = 0 \/ k = 1 \/ k = 2
    OBVIOUS
  <2> QED BY <1>2, <1>3, <1>5, <2>1
<1> QED BY <1>c, <1>2, <1>3, <1>8, <1>9, <1>10 DEF PlaceSound, s

(* The control connection of SOCKS5 is closed, but when the address of its *)
(* reply cannot be parsed.                                                 *)
LEMMA Socks5PacketSound ==
  ASSUME proc = "socks5_packet", at \in 1 .. Len(Steps(proc))
  PROVE  PlaceSound
<1> DEFINE s == Steps(proc)
<1>1. s = Socks5PacketSteps /\ at \in 1 .. Len(s)
  BY DEF Steps
<1>c. Closes(proc) = <<"control", "packets">>
  BY DEF Closes, Socks5PacketClose
<1>2. /\ Len(s) = 4
      /\ s[1].gets = {"control"} /\ s[1].undo = <<>>
      /\ s[2].gets = {} /\ s[2].undo = <<"control">>
      /\ s[3].gets = {} /\ s[3].undo = <<>>
      /\ s[4].gets = {"packets"} /\ s[4].undo = <<"control">>
  <2>0. Len(s) = 4
    BY <1>1 DEF Socks5PacketSteps
  <2>1. s[1].gets = {"control"} /\ s[1].undo = <<>>
    <3>1. s[1] = Takes("control", <<>>)
      BY <1>1 DEF Socks5PacketSteps
    <3> QED BY <3>1 DEF Takes, Does
  <2>2. s[2].gets = {} /\ s[2].undo = <<"control">>
    <3>1. s[2] = Does(<<"control">>)
      BY <1>1 DEF Socks5PacketSteps
    <3> QED BY <3>1 DEF Takes, Does
  <2>3. s[3].gets = {} /\ s[3].undo = <<>>
    <3>1. s[3] = Does(<<>>)
      BY <1>1 DEF Socks5PacketSteps
    <3> QED BY <3>1 DEF Takes, Does
  <2>4. s[4].gets = {"packets"} /\ s[4].undo = <<"control">>
    <3>1. s[4] = Takes("packets", <<"control">>)
      BY <1>1 DEF Socks5PacketSteps
    <3> QED BY <3>1 DEF Takes, Does
  <2> QED BY <2>0, <2>1, <2>2, <2>3, <2>4
<1> HIDE DEF s
<1>0. at = 1 \/ at = 2 \/ at = 3 \/ at = 4
  BY <1>1, <1>2
<1>3. /\ Gets(s, 0) = {}
      /\ Gets(s, 1) = {"control"}
      /\ Gets(s, 2) = {"control"}
      /\ Gets(s, 3) = {"control"}
      /\ Gets(s, 4) = {"control", "packets"}
  BY <1>2, GetsAre
<1>4. /\ {"control"} \ {"control"} = {}
      /\ {"control", "packets"} \ {"control"} = {"packets"}
      /\ {"packets"} \ {"packets"} = {}
  OBVIOUS
<1>5. /\ Safe({})
      /\ Safe({"control"})
      /\ Safe({"control", "packets"})
      /\ Safe({"packets"})
  BY DEF Safe, Needs
<1>6. WellDown({}, <<>>, {})
  BY <1>4, <1>5, DownNone
<1>7. WellDown({"control"}, <<"control">>, {})
  BY <1>4, <1>5, DownOne
<1>8. WellDown({"control"}, <<>>, {"control"})
  BY <1>4, <1>5, DownNone
<1>9. WellDown({"control", "packets"}, <<"control", "packets">>, {})
  BY <1>4, <1>5, DownTwo
<1>10. WellDown(Gets(s, at - 1), s[at].undo, KnownLeaks)
  <2>1. CASE at = 1
    <3>1. at - 1 = 0 /\ KnownLeaks = {}
      BY <2>1 DEF KnownLeaks
    <3> QED BY <1>2, <1>3, <1>6, <2>1, <3>1
  <2>2. CASE at = 2
    <3>1. at - 1 = 1 /\ KnownLeaks = {}
      BY <2>2 DEF KnownLeaks
    <3> QED BY <1>2, <1>3, <1>7, <2>2, <3>1
  <2>3. CASE at = 3
    <3>1. at - 1 = 2 /\ KnownLeaks = {"control"}
      BY <2>3 DEF KnownLeaks
    <3> QED BY <1>2, <1>3, <1>8, <2>3, <3>1
  <2>4. CASE at = 4
    <3>1. at - 1 = 3 /\ KnownLeaks = {}
      BY <2>4 DEF KnownLeaks
    <3> QED BY <1>2, <1>3, <1>7, <2>4, <3>1
  <2> QED BY <1>0, <2>1, <2>2, <2>3, <2>4
<1>11. \A k \in 0 .. Len(s) : Safe(Gets(s, k))
  <2>1. \A k \in 0 .. 4 : k = 0 \/ k = 1 \/ k = 2 \/ k = 3 \/ k = 4
    OBVIOUS
  <2> QED BY <1>2, <1>3, <1>5, <2>1
<1> QED BY <1>c, <1>2, <1>3, <1>9, <1>10, <1>11 DEF PlaceSound, s

(* TURN gives its allocation back before its client and socket go.         *)
LEMMA TurnSound ==
  ASSUME proc = "turn", at \in 1 .. Len(Steps(proc))
  PROVE  PlaceSound
<1> DEFINE s == Steps(proc)
<1>1. s = TurnSteps /\ at \in 1 .. Len(s)
  BY DEF Steps
<1>c. Closes(proc) = <<"relay", "relay", "client", "transport">>
  <2>1. Closes(proc) = TurnClose(FALSE)
    BY DEF Closes
  <2>2. TurnClose(FALSE) = <<"relay">> \o TurnCloseAll
    BY DEF TurnClose
  <2>3. <<"relay">> \o TurnCloseAll = <<"relay", "relay", "client", "transport">>
    BY JoinFour DEF TurnCloseAll
  <2> QED BY <2>1, <2>2, <2>3
<1>2. /\ Len(s) = 5
      /\ s[1].gets = {"transport"} /\ s[1].undo = <<>>
      /\ s[2].gets = {"client"} /\ s[2].undo = <<"transport">>
      /\ s[3].gets = {} /\ s[3].undo = <<"client", "transport">>
      /\ s[4].gets = {"relay"} /\ s[4].undo = <<"client", "transport">>
      /\ s[5].gets = {} /\ s[5].undo = <<"relay", "client", "transport">>
  <2>0. Len(s) = 5
    BY <1>1 DEF TurnSteps
  <2>1. s[1].gets = {"transport"} /\ s[1].undo = <<>>
    <3>1. s[1] = Takes("transport", <<>>)
      BY <1>1 DEF TurnSteps
    <3> QED BY <3>1 DEF Takes, Does
  <2>2. s[2].gets = {"client"} /\ s[2].undo = <<"transport">>
    <3>1. s[2] = Takes("client", <<"transport">>)
      BY <1>1 DEF TurnSteps
    <3> QED BY <3>1 DEF Takes, Does
  <2>3. s[3].gets = {} /\ s[3].undo = <<"client", "transport">>
    <3>1. s[3] = Does(<<"client", "transport">>)
      BY <1>1 DEF TurnSteps
    <3> QED BY <3>1 DEF Takes, Does
  <2>4. s[4].gets = {"relay"} /\ s[4].undo = <<"client", "transport">>
    <3>1. s[4] = Takes("relay", <<"client", "transport">>)
      BY <1>1 DEF TurnSteps
    <3> QED BY <3>1 DEF Takes, Does
  <2>5. s[5].gets = {} /\ s[5].undo = <<"relay", "client", "transport">>
    <3>1. s[5] = Does(<<"relay", "client", "transport">>)
      BY <1>1 DEF TurnSteps
    <3> QED BY <3>1 DEF Takes, Does
  <2> QED BY <2>0, <2>1, <2>2, <2>3, <2>4, <2>5
<1> HIDE DEF s
<1>0. at = 1 \/ at = 2 \/ at = 3 \/ at = 4 \/ at = 5
  BY <1>1, <1>2
<1>3. /\ Gets(s, 0) = {}
      /\ Gets(s, 1) = {"transport"}
      /\ Gets(s, 2) = {"transport", "client"}
      /\ Gets(s, 3) = {"transport", "client"}
      /\ Gets(s, 4) = {"transport", "client", "relay"}
      /\ Gets(s, 5) = {"transport", "client", "relay"}
  BY <1>2, GetsAre
<1>4. /\ {"transport"} \ {"transport"} = {}
      /\ {"transport", "client"} \ {"client"} = {"transport"}
      /\ {"transport", "client", "relay"} \ {"relay"} = {"transport", "client"}
      /\ {"transport", "client"} \ {"relay"} = {"transport", "client"}
  OBVIOUS
<1>5. /\ Safe({})
      /\ Safe({"transport"})
      /\ Safe({"transport", "client"})
      /\ Safe({"transport", "client", "relay"})
  BY DEF Safe, Needs
<1>6. WellDown({}, <<>>, {})
  BY <1>4, <1>5, DownNone
<1>7. WellDown({"transport"}, <<"transport">>, {})
  BY <1>4, <1>5, DownOne
<1>8. WellDown({"transport", "client"}, <<"client", "transport">>, {})
  BY <1>4, <1>5, DownTwo
<1>9. WellDown({"transport", "client", "relay"}, <<"relay", "client", "transport">>, {})
  BY <1>4, <1>5, DownThree
<1>10. WellDown({"transport", "client", "relay"}, <<"relay", "relay", "client", "transport">>, {})
  BY <1>4, <1>5, DownFour
<1>11. WellDown(Gets(s, at - 1), s[at].undo, KnownLeaks)
  <2>1. CASE at = 1
    <3>1. at - 1 = 0 /\ KnownLeaks = {}
      BY <2>1 DEF KnownLeaks
    <3> QED BY <1>2, <1>3, <1>6, <2>1, <3>1
  <2>2. CASE at = 2
    <3>1. at - 1 = 1 /\ KnownLeaks = {}
      BY <2>2 DEF KnownLeaks
    <3> QED BY <1>2, <1>3, <1>7, <2>2, <3>1
  <2>3. CASE at = 3
    <3>1. at - 1 = 2 /\ KnownLeaks = {}
      BY <2>3 DEF KnownLeaks
    <3> QED BY <1>2, <1>3, <1>8, <2>3, <3>1
  <2>4. CASE at = 4
    <3>1. at - 1 = 3 /\ KnownLeaks = {}
      BY <2>4 DEF KnownLeaks
    <3> QED BY <1>2, <1>3, <1>8, <2>4, <3>1
  <2>5. CASE at = 5
    <3>1. at - 1 = 4 /\ KnownLeaks = {}
      BY <2>5 DEF KnownLeaks
    <3> QED BY <1>2, <1>3, <1>9, <2>5, <3>1
  <2> QED BY <1>0, <2>1, <2>2, <2>3, <2>4, <2>5
<1>12. \A k \in 0 .. Len(s) : Safe(Gets(s, k))
  <2>1. \A k \in 0 .. 5 : k = 0 \/ k = 1 \/ k = 2 \/ k = 3 \/ k = 4 \/ k = 5
    OBVIOUS
  <2> QED BY <1>2, <1>3, <1>5, <2>1
<1> QED BY <1>c, <1>2, <1>3, <1>10, <1>11, <1>12 DEF PlaceSound, s

(* So it does under DTLS, which says goodbye first.                        *)
LEMMA TurnDtlsSound ==
  ASSUME proc = "turn_dtls", at \in 1 .. Len(Steps(proc))
  PROVE  PlaceSound
<1> DEFINE s == Steps(proc)
<1>1. s = TurnDtlsSteps /\ at \in 1 .. Len(s)
  BY DEF Steps
<1>c. Closes(proc) = <<"dtls", "relay", "client", "transport">>
  <2>1. Closes(proc) = TurnClose(TRUE)
    BY DEF Closes
  <2>2. TurnClose(TRUE) = <<"dtls">> \o TurnCloseAll
    BY DEF TurnClose
  <2>3. <<"dtls">> \o TurnCloseAll = <<"dtls", "relay", "client", "transport">>
    BY JoinFour DEF TurnCloseAll
  <2> QED BY <2>1, <2>2, <2>3
<1>2. /\ Len(s) = 6
      /\ s[1].gets = {"transport"} /\ s[1].undo = <<>>
      /\ s[2].gets = {"client"} /\ s[2].undo = <<"transport">>
      /\ s[3].gets = {} /\ s[3].undo = <<"client", "transport">>
      /\ s[4].gets = {"relay"} /\ s[4].undo = <<"client", "transport">>
      /\ s[5].gets = {} /\ s[5].undo = <<"relay", "client", "transport">>
      /\ s[6].gets = {"dtls"} /\ s[6].undo = <<"relay", "client", "transport">>
  <2>0. Len(s) = 6 /\ s[6] = Takes("dtls", TurnCloseAll) /\ \A i \in 1 .. 5 : s[i] = TurnSteps[i]
    BY <1>1, TurnDtlsRow
  <2>1. s[1].gets = {"transport"} /\ s[1].undo = <<>>
    <3>1. s[1] = Takes("transport", <<>>)
      BY <2>0 DEF TurnSteps, TurnCloseAll
    <3> QED BY <3>1 DEF Takes, Does
  <2>2. s[2].gets = {"client"} /\ s[2].undo = <<"transport">>
    <3>1. s[2] = Takes("client", <<"transport">>)
      BY <2>0 DEF TurnSteps, TurnCloseAll
    <3> QED BY <3>1 DEF Takes, Does
  <2>3. s[3].gets = {} /\ s[3].undo = <<"client", "transport">>
    <3>1. s[3] = Does(<<"client", "transport">>)
      BY <2>0 DEF TurnSteps, TurnCloseAll
    <3> QED BY <3>1 DEF Takes, Does
  <2>4. s[4].gets = {"relay"} /\ s[4].undo = <<"client", "transport">>
    <3>1. s[4] = Takes("relay", <<"client", "transport">>)
      BY <2>0 DEF TurnSteps, TurnCloseAll
    <3> QED BY <3>1 DEF Takes, Does
  <2>5. s[5].gets = {} /\ s[5].undo = <<"relay", "client", "transport">>
    <3>1. s[5] = Does(<<"relay", "client", "transport">>)
      BY <2>0 DEF TurnSteps, TurnCloseAll
    <3> QED BY <3>1 DEF Takes, Does
  <2>6. s[6].gets = {"dtls"} /\ s[6].undo = <<"relay", "client", "transport">>
    <3>1. s[6] = Takes("dtls", <<"relay", "client", "transport">>)
      BY <2>0 DEF TurnSteps, TurnCloseAll
    <3> QED BY <3>1 DEF Takes, Does
  <2> QED BY <2>0, <2>1, <2>2, <2>3, <2>4, <2>5, <2>6
<1> HIDE DEF s
<1>0. at = 1 \/ at = 2 \/ at = 3 \/ at = 4 \/ at = 5 \/ at = 6
  BY <1>1, <1>2
<1>3. /\ Gets(s, 0) = {}
      /\ Gets(s, 1) = {"transport"}
      /\ Gets(s, 2) = {"transport", "client"}
      /\ Gets(s, 3) = {"transport", "client"}
      /\ Gets(s, 4) = {"transport", "client", "relay"}
      /\ Gets(s, 5) = {"transport", "client", "relay"}
      /\ Gets(s, 6) = {"transport", "client", "relay", "dtls"}
  BY <1>2, GetsAre
<1>4. /\ {"transport"} \ {"transport"} = {}
      /\ {"transport", "client"} \ {"client"} = {"transport"}
      /\ {"transport", "client", "relay"} \ {"relay"} = {"transport", "client"}
      /\ {"transport", "client", "relay", "dtls"} \ {"dtls"} = {"transport", "client", "relay"}
  OBVIOUS
<1>5. /\ Safe({})
      /\ Safe({"transport"})
      /\ Safe({"transport", "client"})
      /\ Safe({"transport", "client", "relay"})
      /\ Safe({"transport", "client", "relay", "dtls"})
  BY DEF Safe, Needs
<1>6. WellDown({}, <<>>, {})
  BY <1>4, <1>5, DownNone
<1>7. WellDown({"transport"}, <<"transport">>, {})
  BY <1>4, <1>5, DownOne
<1>8. WellDown({"transport", "client"}, <<"client", "transport">>, {})
  BY <1>4, <1>5, DownTwo
<1>9. WellDown({"transport", "client", "relay"}, <<"relay", "client", "transport">>, {})
  BY <1>4, <1>5, DownThree
<1>10. WellDown({"transport", "client", "relay", "dtls"}, <<"dtls", "relay", "client", "transport">>, {})
  BY <1>4, <1>5, DownFour
<1>11. WellDown(Gets(s, at - 1), s[at].undo, KnownLeaks)
  <2>1. CASE at = 1
    <3>1. at - 1 = 0 /\ KnownLeaks = {}
      BY <2>1 DEF KnownLeaks
    <3> QED BY <1>2, <1>3, <1>6, <2>1, <3>1
  <2>2. CASE at = 2
    <3>1. at - 1 = 1 /\ KnownLeaks = {}
      BY <2>2 DEF KnownLeaks
    <3> QED BY <1>2, <1>3, <1>7, <2>2, <3>1
  <2>3. CASE at = 3
    <3>1. at - 1 = 2 /\ KnownLeaks = {}
      BY <2>3 DEF KnownLeaks
    <3> QED BY <1>2, <1>3, <1>8, <2>3, <3>1
  <2>4. CASE at = 4
    <3>1. at - 1 = 3 /\ KnownLeaks = {}
      BY <2>4 DEF KnownLeaks
    <3> QED BY <1>2, <1>3, <1>8, <2>4, <3>1
  <2>5. CASE at = 5
    <3>1. at - 1 = 4 /\ KnownLeaks = {}
      BY <2>5 DEF KnownLeaks
    <3> QED BY <1>2, <1>3, <1>9, <2>5, <3>1
  <2>6. CASE at = 6
    <3>1. at - 1 = 5 /\ KnownLeaks = {}
      BY <2>6 DEF KnownLeaks
    <3> QED BY <1>2, <1>3, <1>9, <2>6, <3>1
  <2> QED BY <1>0, <2>1, <2>2, <2>3, <2>4, <2>5, <2>6
<1>12. \A k \in 0 .. Len(s) : Safe(Gets(s, k))
  <2>1. \A k \in 0 .. 6 : k = 0 \/ k = 1 \/ k = 2 \/ k = 3 \/ k = 4 \/ k = 5 \/ k = 6
    OBVIOUS
  <2> QED BY <1>2, <1>3, <1>5, <2>1
<1> QED BY <1>c, <1>2, <1>3, <1>10, <1>11, <1>12 DEF PlaceSound, s

(* A disorder dialer leaves the connection it cannot use.                  *)
LEMMA DisorderSound ==
  ASSUME proc = "disorder", at \in 1 .. Len(Steps(proc))
  PROVE  PlaceSound
<1> DEFINE s == Steps(proc)
<1>1. s = DisorderSteps /\ at \in 1 .. Len(s)
  BY DEF Steps
<1>c. Closes(proc) = <<"inner">>
  BY DEF Closes
<1>2. /\ Len(s) = 3
      /\ s[1].gets = {"inner"} /\ s[1].undo = <<>>
      /\ s[2].gets = {} /\ s[2].undo = <<>>
      /\ s[3].gets = {} /\ s[3].undo = <<>>
  <2>0. Len(s) = 3
    BY <1>1 DEF DisorderSteps
  <2>1. s[1].gets = {"inner"} /\ s[1].undo = <<>>
    <3>1. s[1] = Takes("inner", <<>>)
      BY <1>1 DEF DisorderSteps
    <3> QED BY <3>1 DEF Takes, Does
  <2>2. s[2].gets = {} /\ s[2].undo = <<>>
    <3>1. s[2] = Does(<<>>)
      BY <1>1 DEF DisorderSteps
    <3> QED BY <3>1 DEF Takes, Does
  <2>3. s[3].gets = {} /\ s[3].undo = <<>>
    <3>1. s[3] = Does(<<>>)
      BY <1>1 DEF DisorderSteps
    <3> QED BY <3>1 DEF Takes, Does
  <2> QED BY <2>0, <2>1, <2>2, <2>3
<1> HIDE DEF s
<1>0. at = 1 \/ at = 2 \/ at = 3
  BY <1>1, <1>2
<1>3. /\ Gets(s, 0) = {}
      /\ Gets(s, 1) = {"inner"}
      /\ Gets(s, 2) = {"inner"}
      /\ Gets(s, 3) = {"inner"}
  BY <1>2, GetsAre
<1>4. /\ {"inner"} \ {"inner"} = {}
  OBVIOUS
<1>5. /\ Safe({})
      /\ Safe({"inner"})
  BY DEF Safe, Needs
<1>6. WellDown({}, <<>>, {})
  BY <1>4, <1>5, DownNone
<1>7. WellDown({"inner"}, <<>>, {"inner"})
  BY <1>4, <1>5, DownNone
<1>8. WellDown({"inner"}, <<"inner">>, {})
  BY <1>4, <1>5, DownOne
<1>9. WellDown(Gets(s, at - 1), s[at].undo, KnownLeaks)
  <2>1. CASE at = 1
    <3>1. at - 1 = 0 /\ KnownLeaks = {}
      BY <2>1 DEF KnownLeaks
    <3> QED BY <1>2, <1>3, <1>6, <2>1, <3>1
  <2>2. CASE at = 2
    <3>1. at - 1 = 1 /\ KnownLeaks = {"inner"}
      BY <2>2 DEF KnownLeaks
    <3> QED BY <1>2, <1>3, <1>7, <2>2, <3>1
  <2>3. CASE at = 3
    <3>1. at - 1 = 2 /\ KnownLeaks = {"inner"}
      BY <2>3 DEF KnownLeaks
    <3> QED BY <1>2, <1>3, <1>7, <2>3, <3>1
  <2> QED BY <1>0, <2>1, <2>2, <2>3
<1>10. \A k \in 0 .. Len(s) : Safe(Gets(s, k))
  <2>1. \A k \in 0 .. 3 : k = 0 \/ k = 1 \/ k = 2 \/ k = 3
    OBVIOUS
  <2> QED BY <1>2, <1>3, <1>5, <2>1
<1> QED BY <1>c, <1>2, <1>3, <1>8, <1>9, <1>10 DEF PlaceSound, s

(* A DNS query leaves the connection whose TLS handshake fails.            *)
LEMMA DnsTlsSound ==
  ASSUME proc = "dns_tls", at \in 1 .. Len(Steps(proc))
  PROVE  PlaceSound
<1> DEFINE s == Steps(proc)
<1>1. s = DnsTlsSteps /\ at \in 1 .. Len(s)
  BY DEF Steps
<1>c. Closes(proc) = <<"tls", "inner">>
  BY DEF Closes
<1>2. /\ Len(s) = 3
      /\ s[1].gets = {"inner"} /\ s[1].undo = <<>>
      /\ s[2].gets = {"tls"} /\ s[2].undo = <<>>
      /\ s[3].gets = {} /\ s[3].undo = <<"tls", "inner">>
  <2>0. Len(s) = 3
    BY <1>1 DEF DnsTlsSteps
  <2>1. s[1].gets = {"inner"} /\ s[1].undo = <<>>
    <3>1. s[1] = Takes("inner", <<>>)
      BY <1>1 DEF DnsTlsSteps
    <3> QED BY <3>1 DEF Takes, Does
  <2>2. s[2].gets = {"tls"} /\ s[2].undo = <<>>
    <3>1. s[2] = Takes("tls", <<>>)
      BY <1>1 DEF DnsTlsSteps
    <3> QED BY <3>1 DEF Takes, Does
  <2>3. s[3].gets = {} /\ s[3].undo = <<"tls", "inner">>
    <3>1. s[3] = Does(<<"tls", "inner">>)
      BY <1>1 DEF DnsTlsSteps
    <3> QED BY <3>1 DEF Takes, Does
  <2> QED BY <2>0, <2>1, <2>2, <2>3
<1> HIDE DEF s
<1>0. at = 1 \/ at = 2 \/ at = 3
  BY <1>1, <1>2
<1>3. /\ Gets(s, 0) = {}
      /\ Gets(s, 1) = {"inner"}
      /\ Gets(s, 2) = {"inner", "tls"}
      /\ Gets(s, 3) = {"inner", "tls"}
  BY <1>2, GetsAre
<1>4. /\ {"inner", "tls"} \ {"tls"} = {"inner"}
      /\ {"inner"} \ {"inner"} = {}
  OBVIOUS
<1>5. /\ Safe({})
      /\ Safe({"inner"})
      /\ Safe({"inner", "tls"})
  BY DEF Safe, Needs
<1>6. WellDown({}, <<>>, {})
  BY <1>4, <1>5, DownNone
<1>7. WellDown({"inner"}, <<>>, {"inner"})
  BY <1>4, <1>5, DownNone
<1>8. WellDown({"inner", "tls"}, <<"tls", "inner">>, {})
  BY <1>4, <1>5, DownTwo
<1>9. WellDown(Gets(s, at - 1), s[at].undo, KnownLeaks)
  <2>1. CASE at = 1
    <3>1. at - 1 = 0 /\ KnownLeaks = {}
      BY <2>1 DEF KnownLeaks
    <3> QED BY <1>2, <1>3, <1>6, <2>1, <3>1
  <2>2. CASE at = 2
    <3>1. at - 1 = 1 /\ KnownLeaks = {"inner"}
      BY <2>2 DEF KnownLeaks
    <3> QED BY <1>2, <1>3, <1>7, <2>2, <3>1
  <2>3. CASE at = 3
    <3>1. at - 1 = 2 /\ KnownLeaks = {}
      BY <2>3 DEF KnownLeaks
    <3> QED BY <1>2, <1>3, <1>8, <2>3, <3>1
  <2> QED BY <1>0, <2>1, <2>2, <2>3
<1>10. \A k \in 0 .. Len(s) : Safe(Gets(s, k))
  <2>1. \A k \in 0 .. 3 : k = 0 \/ k = 1 \/ k = 2 \/ k = 3
    OBVIOUS
  <2> QED BY <1>2, <1>3, <1>5, <2>1
<1> QED BY <1>c, <1>2, <1>3, <1>8, <1>9, <1>10 DEF PlaceSound, s

(* A proxy that cannot start or tell its address leaves what it opened.    *)
LEMMA RunProxySound ==
  ASSUME proc = "run_proxy", at \in 1 .. Len(Steps(proc))
  PROVE  PlaceSound
<1> DEFINE s == Steps(proc)
<1>1. s = RunProxySteps /\ at \in 1 .. Len(s)
  BY DEF Steps
<1>c. Closes(proc) = <<"server", "listener">>
  BY DEF Closes
<1>2. /\ Len(s) = 3
      /\ s[1].gets = {"listener"} /\ s[1].undo = <<>>
      /\ s[2].gets = {"server"} /\ s[2].undo = <<>>
      /\ s[3].gets = {} /\ s[3].undo = <<>>
  <2>0. Len(s) = 3
    BY <1>1 DEF RunProxySteps
  <2>1. s[1].gets = {"listener"} /\ s[1].undo = <<>>
    <3>1. s[1] = Takes("listener", <<>>)
      BY <1>1 DEF RunProxySteps
    <3> QED BY <3>1 DEF Takes, Does
  <2>2. s[2].gets = {"server"} /\ s[2].undo = <<>>
    <3>1. s[2] = Takes("server", <<>>)
      BY <1>1 DEF RunProxySteps
    <3> QED BY <3>1 DEF Takes, Does
  <2>3. s[3].gets = {} /\ s[3].undo = <<>>
    <3>1. s[3] = Does(<<>>)
      BY <1>1 DEF RunProxySteps
    <3> QED BY <3>1 DEF Takes, Does
  <2> QED BY <2>0, <2>1, <2>2, <2>3
<1> HIDE DEF s
<1>0. at = 1 \/ at = 2 \/ at = 3
  BY <1>1, <1>2
<1>3. /\ Gets(s, 0) = {}
      /\ Gets(s, 1) = {"listener"}
      /\ Gets(s, 2) = {"listener", "server"}
      /\ Gets(s, 3) = {"listener", "server"}
  BY <1>2, GetsAre
<1>4. /\ {"listener", "server"} \ {"server"} = {"listener"}
      /\ {"listener"} \ {"listener"} = {}
  OBVIOUS
<1>5. /\ Safe({})
      /\ Safe({"listener"})
      /\ Safe({"listener", "server"})
  BY DEF Safe, Needs
<1>6. WellDown({}, <<>>, {})
  BY <1>4, <1>5, DownNone
<1>7. WellDown({"listener"}, <<>>, {"listener"})
  BY <1>4, <1>5, DownNone
<1>8. WellDown({"listener", "server"}, <<>>, {"listener", "server"})
  BY <1>4, <1>5, DownNone
<1>9. WellDown({"listener", "server"}, <<"server", "listener">>, {})
  BY <1>4, <1>5, DownTwo
<1>10. WellDown(Gets(s, at - 1), s[at].undo, KnownLeaks)
  <2>1. CASE at = 1
    <3>1. at - 1 = 0 /\ KnownLeaks = {}
      BY <2>1 DEF KnownLeaks
    <3> QED BY <1>2, <1>3, <1>6, <2>1, <3>1
  <2>2. CASE at = 2
    <3>1. at - 1 = 1 /\ KnownLeaks = {"listener"}
      BY <2>2 DEF KnownLeaks
    <3> QED BY <1>2, <1>3, <1>7, <2>2, <3>1
  <2>3. CASE at = 3
    <3>1. at - 1 = 2 /\ KnownLeaks = {"listener", "server"}
      BY <2>3 DEF KnownLeaks
    <3> QED BY <1>2, <1>3, <1>8, <2>3, <3>1
  <2> QED BY <1>0, <2>1, <2>2, <2>3
<1>11. \A k \in 0 .. Len(s) : Safe(Gets(s, k))
  <2>1. \A k \in 0 .. 3 : k = 0 \/ k = 1 \/ k = 2 \/ k = 3
    OBVIOUS
  <2> QED BY <1>2, <1>3, <1>5, <2>1
<1> QED BY <1>c, <1>2, <1>3, <1>9, <1>10, <1>11 DEF PlaceSound, s


(* So all of them, from wherever they fail and when they are closed.       *)
LEMMA PlacesSound ==
  ASSUME proc \in Procs, at \in 1 .. Len(Steps(proc))
  PROVE  PlaceSound
<1>1. proc \in {"socks5", "socks5_packet", "turn", "turn_dtls", "tls", "h2", "shadowsocks",
                "tlsfrag", "disorder", "dns_udp", "dns_stream", "dns_tls", "run_proxy"}
  BY ProcsAssumption
<1>2. CASE proc \in {"socks5", "shadowsocks"}
  <2>1. /\ Steps(proc) = << Takes("proxy", <<>>), Does(<<"proxy">>) >>
        /\ Closes(proc) = <<"proxy">> /\ KnownLeaks = {}
    BY <1>2 DEF Steps, Socks5Steps, ShadowsocksSteps, Closes, KnownLeaks
  <2> QED BY <2>1, OneThingSound
<1>3. CASE proc \in {"tlsfrag", "dns_stream"}
  <2>1. /\ Steps(proc) = << Takes("inner", <<>>), Does(<<"inner">>) >>
        /\ Closes(proc) = <<"inner">> /\ KnownLeaks = {}
    BY <1>3 DEF Steps, TlsFragSteps, DnsStreamSteps, Closes, KnownLeaks
  <2> QED BY <2>1, OneThingSound
<1>4. CASE proc = "dns_udp"
  <2>1. /\ Steps(proc) = << Takes("socket", <<>>), Does(<<"socket">>) >>
        /\ Closes(proc) = <<"socket">> /\ KnownLeaks = {}
    BY <1>4 DEF Steps, DnsUdpSteps, Closes, KnownLeaks
  <2> QED BY <2>1, OneThingSound
<1>5. CASE proc \in {"tls", "h2"}
  BY <1>5, TlsSound
<1>6. CASE proc \in {"socks5_packet", "turn", "turn_dtls", "disorder", "dns_tls", "run_proxy"}
  BY <1>6, Socks5PacketSound, TurnSound, TurnDtlsSound, DisorderSound, DnsTlsSound, RunProxySound
<1> QED BY <1>1, <1>2, <1>3, <1>4, <1>5, <1>6

(* The invariant holds at the start and after every step.                  *)
LEMMA TearInvInit == TearInit => TearInv
<1> SUFFICES ASSUME TearInit PROVE TearInv
  OBVIOUS
<1>1. Len(Steps(proc)) \in Nat /\ Len(Steps(proc)) # 0
  <2>1. proc \in Procs
    BY DEF TearInit
  <2>2. CASE proc = "turn_dtls"
    <3>1. Steps(proc) = TurnDtlsSteps
      BY <2>2 DEF Steps
    <3> QED BY <3>1, TurnDtlsRow
  <2>3. CASE proc # "turn_dtls"
    <3>1. Steps(proc) \in {Socks5Steps, Socks5PacketSteps, TurnSteps, TlsSteps, H2Steps, ShadowsocksSteps,
                          TlsFragSteps, DisorderSteps, DnsUdpSteps, DnsStreamSteps, DnsTlsSteps, RunProxySteps}
      BY <2>1, <2>3, ProcsAssumption DEF Steps
    <3>2. /\ Len(Socks5Steps) = 2 /\ Len(TlsSteps) = 2 /\ Len(H2Steps) = 2 /\ Len(ShadowsocksSteps) = 2
          /\ Len(TlsFragSteps) = 2 /\ Len(DnsUdpSteps) = 2 /\ Len(DnsStreamSteps) = 2
      BY DEF Socks5Steps, TlsSteps, H2Steps, ShadowsocksSteps, TlsFragSteps, DnsUdpSteps, DnsStreamSteps
    <3>3. /\ Len(Socks5PacketSteps) = 4 /\ Len(TurnSteps) = 5 /\ Len(DisorderSteps) = 3
          /\ Len(DnsTlsSteps) = 3 /\ Len(RunProxySteps) = 3
      BY DEF Socks5PacketSteps, TurnSteps, DisorderSteps, DnsTlsSteps, RunProxySteps
    <3> QED BY <3>1, <3>2, <3>3
  <2> QED BY <2>2, <2>3
<1>2. Gets(Steps(proc), 1 - 1) = {}
  BY GetsAre
<1> QED BY <1>1, <1>2 DEF TearInit, TearInv, Safe

(* Where nothing is open, a row of releases releases nothing.              *)
LEMMA DownEmpty ==
  ASSUME NEW h, NEW left, NEW t, WellDown(h, t, left)
  PROVE  WellDown({}, t, {})
BY DEF WellDown, Safe

(* A step takes what it takes, a failure starts the releases of its place, *)
(* and each of them leaves a row that ends as well.                        *)
LEMMA TearInvStep ==
  ASSUME TearInv, TearNext
  PROVE  TearInv'
<1>1. PlaceSound
  BY PlacesSound DEF TearInv
<1> DEFINE s == Steps(proc)
<1>2. /\ WellDown(Gets(s, at - 1), s[at].undo, KnownLeaks)
      /\ WellDown(Gets(s, Len(s)), Closes(proc), {})
      /\ \A k \in 0 .. Len(s) : Safe(Gets(s, k))
  BY <1>1 DEF PlaceSound
<1>3. at \in 1 .. Len(s) /\ at \in Nat /\ at # 0 /\ (at + 1) - 1 = at /\ Len(s) \in Nat /\ at \in 0 .. Len(s)
  <2>1. Len(s) \in Nat
    BY ProcsAssumption DEF TearInv, Steps
  <2> QED BY <2>1 DEF TearInv
<1>4. Gets(s, at) = Gets(s, at - 1) \cup s[at].gets
  BY <1>3, GetsNext
<1>5. proc' = proc /\ proc \in Procs /\ s' = s
  BY DEF TearInv, TearNext, Succeeds, Fails, Releases, Returns, CallerCloses, s
<1> HIDE DEF s
<1>6. CASE Succeeds
  <2>1. phase = "call" /\ held' = Gets(s, at)
    BY <1>4, <1>6 DEF Succeeds, TearInv, s
  <2>2. Safe(held')
    BY <1>2, <1>3, <2>1
  <2>3. CASE at = Len(s)
    <3>1. phase' = "open" /\ at' = at /\ held' = Gets(s, Len(s))
      BY <1>6, <2>1, <2>3 DEF Succeeds, s
    <3> QED BY <1>3, <1>5, <2>2, <3>1 DEF TearInv, s
  <2>4. CASE at # Len(s)
    <3>1. phase' = "call" /\ at' = at + 1
      BY <1>6, <2>1, <2>4 DEF Succeeds, s
    <3>2. at' \in 1 .. Len(s) /\ at' - 1 = at
      BY <1>3, <2>4, <3>1
    <3> QED BY <1>5, <2>1, <2>2, <3>1, <3>2 DEF TearInv, s
  <2> QED BY <2>3, <2>4
<1>7. CASE Fails
  <2>1. /\ phase' = "undo" /\ at' = at /\ held' = held /\ todo' = s[at].undo
        /\ held = Gets(s, at - 1) /\ Safe(held)
    BY <1>7 DEF Fails, TearInv, s
  <2>2. KnownLeaks' = KnownLeaks
    BY <1>5, <2>1 DEF KnownLeaks
  <2> QED BY <1>2, <1>3, <1>5, <2>1, <2>2 DEF TearInv, s
<1>8. CASE Releases
  <2>1. /\ phase \in {"undo", "closing"} /\ todo # <<>> /\ phase' = phase /\ at' = at
        /\ held' = held \ {Head(todo)} /\ todo' = Tail(todo)
    BY <1>8 DEF Releases
  <2>2. KnownLeaks' = KnownLeaks
    BY <1>5, <2>1 DEF KnownLeaks
  <2>3. CASE phase = "undo"
    <3>1. WellDown(held, todo, KnownLeaks)
      BY <2>3 DEF TearInv
    <3>2. Safe(held') /\ WellDown(held', todo', KnownLeaks)
      BY <2>1, <3>1, DownStep
    <3> QED BY <1>3, <1>5, <2>1, <2>2, <2>3, <3>2 DEF TearInv, s
  <2>4. CASE phase = "closing"
    <3>1. WellDown(held, todo, {})
      BY <2>4 DEF TearInv
    <3>2. Safe(held') /\ WellDown(held', todo', {})
      BY <2>1, <3>1, DownStep
    <3> QED BY <1>3, <1>5, <2>1, <2>4, <3>2 DEF TearInv, s
  <2> QED BY <2>1, <2>3, <2>4
<1>9. CASE Returns
  <2>1. /\ phase \in {"undo", "closing"} /\ todo = <<>> /\ at' = at /\ held' = held /\ Safe(held)
        /\ phase' = IF phase = "undo" THEN "failed" ELSE "closed"
    BY <1>9 DEF Returns, TearInv
  <2>2. KnownLeaks' = KnownLeaks
    BY <1>5, <2>1 DEF KnownLeaks
  <2>3. /\ phase = "undo" => held = KnownLeaks
        /\ phase = "closing" => held = {}
    BY <2>1, DownSafe DEF TearInv
  <2> QED BY <1>3, <1>5, <2>1, <2>2, <2>3 DEF TearInv, s
<1>10. CASE CallerCloses
  <2>1. /\ phase \in {"open", "closed"} /\ phase' = "closing" /\ at' = at /\ held' = held /\ Safe(held)
        /\ todo' = Closes(proc)
    BY <1>10 DEF CallerCloses, TearInv
  <2>2. WellDown({}, Closes(proc), {})
    BY <1>2, DownEmpty
  <2>3. WellDown(held', todo', {})
    <3>1. CASE phase = "open"
      BY <1>2, <2>1, <3>1 DEF TearInv, s
    <3>2. CASE phase = "closed"
      BY <2>1, <2>2, <3>2 DEF TearInv
    <3> QED BY <2>1, <3>1, <3>2
  <2> QED BY <1>3, <1>5, <2>1, <2>3 DEF TearInv, s
<1> QED BY <1>6, <1>7, <1>8, <1>9, <1>10 DEF TearNext

(* What the invariant says at the end of a call and of a close.            *)
LEMMA TearInvTornDown == TearInv => TornDown
BY DEF TearInv, TornDown, NothingLeaks, UsersGoFirst, Safe

-----------------------------------------------------------------------------
(***************************************************************************)
(* ConfigUrl: the objects the providers return, from the plain ones up,    *)
(* and what the parts have to carry, from the last one down.               *)
(***************************************************************************)
InstStep(f, n) ==
  [kind \in ObjectTypes |-> IF n = 0 THEN Base(kind)
                            ELSE BuildPart(config[n], n, kind, resolver, f[n - 1])]

IsInst(m, f) == f = [n \in 0 .. m |-> InstStep(f, n)]

Layer(over, type) ==
  {k \in {"stream", "packet"} :
     IF k = "stream" THEN "stream" \in over \/ type = "socks5" \/ (type = "ws" /\ over # {})
     ELSE \/ "stream" \in over /\ type = "do53"
          \/ "packet" \in over /\ type # "ws"
          \/ "listener" \in over}

CarStep(f, n) ==
  IF n = Len(config) THEN {Kind}
  ELSE {k \in Layer(f[n + 1], config[n + 1].type) : n >= FirstUsed}

IsCar(m, f) == f = [n \in m .. Len(config) |-> CarStep(f, n)]

(* The objects of the first parts are defined for every number of parts.   *)
LEMMA InstExists ==
  ASSUME NEW k \in Nat
  PROVE  \E f : IsInst(k, f)
<1> DEFINE T == {n \in Nat : \E f : IsInst(n, f)}
<1>1. 0 \in T
  <2> DEFINE f == [n \in 0 .. 0 |-> [kind \in ObjectTypes |-> Base(kind)]]
  <2>1. f = [n \in 0 .. 0 |-> InstStep(f, n)]
    BY DEF InstStep
  <2> QED BY <2>1 DEF IsInst
<1>2. \A n \in T : n + 1 \in T
  <2> SUFFICES ASSUME NEW n \in Nat, NEW f, IsInst(n, f)
               PROVE  \E g : IsInst(n + 1, g)
    OBVIOUS
  <2> DEFINE g == [i \in 0 .. n + 1 |-> IF i = n + 1 THEN InstStep(f, i) ELSE f[i]]
  <2>1. \A i \in 0 .. n : g[i] = f[i]
    OBVIOUS
  <2>2. \A i \in 0 .. n : f[i] = InstStep(f, i)
    BY DEF IsInst
  <2>3. \A i \in 0 .. n + 1 : i # 0 => i - 1 \in 0 .. n
    OBVIOUS
  <2>4. \A i \in 0 .. n + 1 : g[i] = InstStep(f, i)
    BY <2>2
  <2>5. g = [i \in 0 .. n + 1 |-> g[i]]
    OBVIOUS
  <2> HIDE DEF g
  <2>6. \A i \in 0 .. n + 1 : InstStep(f, i) = InstStep(g, i)
    BY <2>1, <2>3 DEF InstStep
  <2>7. g = [i \in 0 .. n + 1 |-> InstStep(g, i)]
    BY <2>4, <2>5, <2>6
  <2> QED BY <2>7 DEF IsInst
<1> HIDE DEF T
<1>3. T \in SUBSET Nat
  BY DEF T
<1>4. T = Nat
  BY <1>1, <1>2, <1>3, SetInduction
<1> QED BY <1>4 DEF T

(* What the providers return is the last of them.                          *)
LEMMA NewInstanceIs ==
  ASSUME Len(config) \in Nat
  PROVE  \E f : IsInst(Len(config), f) /\ NewInstance(config, resolver) = f[Len(config)]
<1> DEFINE F == CHOOSE f : IsInst(Len(config), f)
<1>1. IsInst(Len(config), F)
  BY InstExists
<1>2. NewInstance(config, resolver) = F[Len(config)]
  BY DEF NewInstance, IsInst, InstStep
<1> QED BY <1>1, <1>2

(* So is what the parts above a place carry, for every place.              *)
LEMMA CarExists ==
  ASSUME NEW k \in Nat, Len(config) \in Nat, k <= Len(config)
  PROVE  \E f : IsCar(Len(config) - k, f)
<1> DEFINE L == Len(config)
           T == {n \in Nat : n <= L => \E f : IsCar(L - n, f)}
<1>1. 0 \in T
  <2> DEFINE f == [n \in L .. L |-> {Kind}]
  <2>1. L - 0 = L /\ \A n \in L .. L : n = L
    OBVIOUS
  <2>2. f = [n \in L .. L |-> CarStep(f, n)]
    BY <2>1 DEF CarStep
  <2> QED BY <2>1, <2>2 DEF IsCar
<1>2. \A n \in T : n + 1 \in T
  <2> SUFFICES ASSUME NEW n \in Nat, n + 1 <= L, NEW f, IsCar(L - n, f)
               PROVE  \E g : IsCar(L - (n + 1), g)
    OBVIOUS
  <2> DEFINE m == L - (n + 1)
             g == [i \in m .. L |-> IF i = m THEN CarStep(f, i) ELSE f[i]]
  <2>0. m \in Nat /\ m + 1 = L - n /\ m < L /\ L \in Nat
    OBVIOUS
  <2> HIDE DEF m, L
  <2>1. \A i \in m .. L : i # m => i \in (m + 1) .. L
    BY <2>0
  <2>2. \A i \in (m + 1) .. L : i \in m .. L /\ i # m
    BY <2>0
  <2>3. \A i \in (m + 1) .. L : f[i] = CarStep(f, i) /\ g[i] = f[i]
    BY <2>0, <2>2 DEF IsCar, L
  <2>4. \A i \in m .. L : g[i] = CarStep(f, i)
    BY <2>1, <2>3
  <2>5. g = [i \in m .. L |-> g[i]]
    OBVIOUS
  <2> HIDE DEF g
  <2>6. \A i \in m .. L : i # L => i + 1 \in (m + 1) .. L
    BY <2>0
  <2>7. \A i \in m .. L : CarStep(f, i) = CarStep(g, i)
    BY <2>3, <2>6 DEF CarStep, L
  <2>8. g = [i \in m .. L |-> CarStep(g, i)]
    BY <2>4, <2>5, <2>7
  <2> QED BY <2>8 DEF IsCar, m, L
<1> HIDE DEF T
<1>3. T \in SUBSET Nat
  BY DEF T
<1>4. T = Nat
  BY <1>1, <1>2, <1>3, SetInduction
<1> QED BY <1>4 DEF T, L

(* What is carried is given by its equations, from the last part down.     *)
LEMMA CarriedIs ==
  ASSUME Len(config) \in Nat
  PROVE  IsCar(0, Carried)
<1> DEFINE F == CHOOSE f : IsCar(0, f)
<1>1. Len(config) - Len(config) = 0 /\ Len(config) <= Len(config)
  OBVIOUS
<1>2. \E f : IsCar(0, f)
  BY <1>1, CarExists
<1>3. IsCar(0, F)
  BY <1>2
<1>4. \A f, n : CarStep(f, n) = IF n = Len(config) THEN {Kind}
        ELSE LET over == f[n + 1]
                 type == config[n + 1].type
             IN  {k \in {"stream", "packet"} :
                    /\ n >= FirstUsed
                    /\ IF k = "stream"
                       THEN "stream" \in over \/ type = "socks5" \/ (type = "ws" /\ over # {})
                       ELSE \/ "stream" \in over /\ type = "do53"
                            \/ "packet" \in over /\ type # "ws"
                            \/ "listener" \in over}
  BY DEF CarStep, Layer
<1>5. Carried = F
  BY <1>4 DEF Carried, IsCar
<1> QED BY <1>3, <1>5

(* The first part in use, if any, is the last that opens its own way out.  *)
Own == {"turn", "dnstt", "h3connect"}

(* The part FirstUsed opens its own way out, and none above it does.       *)
LEMMA FirstUsedIs ==
  ASSUME config \in Seq(Parts)
  PROVE  /\ FirstUsed \in 0 .. Len(config)
         /\ FirstUsed # 0 => config[FirstUsed].type \in Own
         /\ \A n \in 1 .. Len(config) : n > FirstUsed => config[n].type \notin Own
<1> DEFINE own == {i \in DOMAIN config : config[i].type \in Own}
<1>1. DOMAIN config = 1 .. Len(config) /\ Len(config) \in Nat
  BY LenProperties
<1>2. FirstUsed = IF own = {} THEN 0 ELSE CHOOSE i \in own : \A j \in own : j <= i
  BY DEF FirstUsed, Own
<1>3. CASE own = {}
  BY <1>1, <1>2, <1>3
<1>4. CASE own # {}
  <2>1. own \in SUBSET (0 .. Len(config)) /\ \A i \in own : i \in 1 .. Len(config)
    BY <1>1
  <2> HIDE DEF own
  <2>2. \E i \in own : \A j \in own : j <= i
    BY <1>1, <1>4, <2>1, GreatestElement
  <2>3. FirstUsed \in own /\ \A j \in own : j <= FirstUsed
    BY <1>2, <1>4, <2>2
  <2>4. \A n \in 1 .. Len(config) : n > FirstUsed => n \notin own
    BY <1>1, <2>1, <2>3
  <2> QED BY <1>1, <2>1, <2>3, <2>4 DEF own
<1> QED BY <1>3, <1>4

(* The kinds a part has built below it.                                    *)
BaseKinds(type, kind) == {Bases(type, kind)[i] : i \in DOMAIN Bases(type, kind)}

(* They are at most two.                                                   *)
LEMMA BasesAre ==
  ASSUME NEW type, NEW kind \in ObjectTypes
  PROVE  /\ Bases(type, kind) \in {<<>>, <<"stream">>, <<"packet">>, <<"listener">>, <<"stream", "packet">>}
         /\ BaseKinds(type, kind) =
              IF type \in Own THEN {}
              ELSE IF type = "do53" \/ (type = "socks5" /\ kind # "stream") THEN {"stream", "packet"}
              ELSE IF type \in {"socks5", "ws"} \/ (type = "ss" /\ kind = "stream") THEN {"stream"}
              ELSE IF type = "ss" THEN {"packet"} ELSE {kind}
<1> DEFINE b == Bases(type, kind)
<1>1. /\ DOMAIN <<>> = {} /\ DOMAIN <<kind>> = {1} /\ <<kind>>[1] = kind
      /\ DOMAIN <<"stream">> = {1} /\ <<"stream">>[1] = "stream"
      /\ DOMAIN <<"packet">> = {1} /\ <<"packet">>[1] = "packet"
  OBVIOUS
<1>2. /\ DOMAIN <<"stream", "packet">> = {1, 2}
      /\ <<"stream", "packet">>[1] = "stream" /\ <<"stream", "packet">>[2] = "packet"
  OBVIOUS
<1>3. kind \in {"stream", "packet", "listener"}
  BY DEF ObjectTypes
<1>4. CASE type \in Own
  <2>1. b = <<>>
    BY <1>4 DEF Bases, Own
  <2> QED BY <1>1, <1>4, <2>1 DEF BaseKinds
<1>5. CASE type = "do53" \/ (type = "socks5" /\ kind # "stream")
  <2>1. b = <<"stream", "packet">> /\ type \notin Own
    BY <1>5 DEF Bases, Own, Socks5Bases
  <2> QED BY <1>2, <1>5, <2>1 DEF BaseKinds
<1>6. CASE type = "ws" \/ (type \in {"ss", "socks5"} /\ kind = "stream")
  <2>1. b = <<"stream">> /\ type \notin Own
    BY <1>6 DEF Bases, Own, Socks5Bases, ShadowsocksBases
  <2> QED BY <1>1, <1>6, <2>1 DEF BaseKinds
<1>7. CASE type = "ss" /\ kind # "stream"
  <2>1. b = <<"packet">> /\ type \notin Own
    BY <1>7 DEF Bases, Own, ShadowsocksBases
  <2> QED BY <1>1, <1>7, <2>1 DEF BaseKinds
<1>8. CASE type \notin Own /\ type \notin {"do53", "socks5", "ws", "ss"}
  <2>1. b = <<kind>>
    BY <1>8 DEF Bases, Own
  <2> QED BY <1>1, <1>3, <1>8, <2>1 DEF BaseKinds
<1> QED BY <1>4, <1>5, <1>6, <1>7, <1>8

(* What the parts up to one have to carry is what it has built of them.    *)
LEMMA LayerIs ==
  ASSUME NEW type, type \notin Own, NEW over \in SUBSET ObjectTypes, over # {},
         \A k \in over : type \in Registered[k]
  PROVE  \A b : b \in Layer(over, type) <=> \E k \in over : b \in BaseKinds(type, k)
<1>1. \A k \in over : k \in {"stream", "packet", "listener"}
  BY DEF ObjectTypes
<1>2. /\ "packet" \in over => type \in {"override", "socks5", "ss", "ws"}
      /\ "listener" \in over => type \in {"socks5", "ss"}
  BY DEF Registered, Own
<1>3. \A b : b \in Layer(over, type) =>
        \/ b = "stream" /\ ("stream" \in over \/ type = "socks5" \/ type = "ws")
        \/ b = "packet" /\ (\/ "stream" \in over /\ type = "do53"
                            \/ "packet" \in over /\ type # "ws"
                            \/ "listener" \in over)
  BY DEF Layer
<1>4. /\ "stream" \in over \/ type = "socks5" \/ type = "ws" => "stream" \in Layer(over, type)
      /\ (\/ "stream" \in over /\ type = "do53"
          \/ "packet" \in over /\ type # "ws"
          \/ "listener" \in over) => "packet" \in Layer(over, type)
  BY DEF Layer
<1>5. ASSUME NEW k \in over
      PROVE  BaseKinds(type, k) =
              IF type = "do53" \/ (type = "socks5" /\ k # "stream") THEN {"stream", "packet"}
              ELSE IF type \in {"socks5", "ws"} \/ (type = "ss" /\ k = "stream") THEN {"stream"}
              ELSE IF type = "ss" THEN {"packet"} ELSE {k}
  BY BasesAre
<1>6. ASSUME NEW b \in Layer(over, type) PROVE \E k \in over : b \in BaseKinds(type, k)
  <2>1. CASE b = "stream"
    <3>1. PICK k \in over : k = "stream" \/ type \in {"socks5", "ws"}
      BY <1>3, <2>1
    <3>2. "stream" \in BaseKinds(type, k)
      BY <1>5, <3>1
    <3> QED BY <2>1, <3>2
  <2>2. CASE b = "packet"
    <3>1. CASE "stream" \in over /\ type = "do53"
      <4>1. "packet" \in BaseKinds(type, "stream")
        BY <1>5, <3>1
      <4> QED BY <2>2, <3>1, <4>1
    <3>2. CASE "packet" \in over /\ type # "ws"
      <4>1. "packet" \in BaseKinds(type, "packet")
        BY <1>2, <1>5, <3>2
      <4> QED BY <2>2, <3>2, <4>1
    <3>3. CASE "listener" \in over
      <4>1. "packet" \in BaseKinds(type, "listener")
        BY <1>2, <1>5, <3>3
      <4> QED BY <2>2, <3>3, <4>1
    <3> QED BY <1>3, <2>2, <3>1, <3>2, <3>3
  <2> QED BY <1>3, <2>1, <2>2
<1>7. ASSUME NEW k \in over, NEW b \in BaseKinds(type, k) PROVE b \in Layer(over, type)
  <2>1. CASE k = "stream"
    BY <1>4, <1>5, <1>7, <2>1
  <2>2. CASE k = "packet"
    BY <1>2, <1>4, <1>5, <1>7, <2>2
  <2>3. CASE k = "listener"
    BY <1>2, <1>4, <1>5, <1>7, <2>3
  <2> QED BY <1>1, <2>1, <2>2, <2>3
<1> QED BY <1>6, <1>7

(* What a part is built for, by itself.                                    *)
Cond(n, k) == /\ config[n].type \in Registered[k]
              /\ OptionsAccepted(config[n], k, resolver)
              /\ config[n].type \in {"turn", "dnstt"} => n = 1

(* When a part is built, and through what.                                 *)
LEMMA BuildIs ==
  ASSUME NEW n, NEW k \in ObjectTypes, NEW below
  PROVE  LET p == BuildPart(config[n], n, k, resolver, below)
             B == BaseKinds(config[n].type, k)
         IN  /\ p.ok <=> Cond(n, k) /\ \A b \in B : below[b].ok
             /\ p.ok => \A x : x \in p.objects <=> x = <<k, n>> \/ \E b \in B : x \in below[b].objects
<1> DEFINE part == config[n]
           bases == Bases(part.type, k)
           B == BaseKinds(part.type, k)
           p == BuildPart(part, n, k, resolver, below)
           U == UNION {below[bases[i]].objects : i \in DOMAIN bases}
           o == <<k, n>>
<1>1. (\A i \in DOMAIN bases : below[bases[i]].ok) <=> \A b \in B : below[b].ok
  BY DEF BaseKinds
<1>2. \A x : x \in U <=> \E b \in B : x \in below[b].objects
  BY DEF BaseKinds
<1> DEFINE good == MayStandAt(part, n) /\ (\A i \in DOMAIN bases : below[bases[i]].ok)
                     /\ OptionsAccepted(part, k, resolver)
<1> DEFINE Tried(i) == \A j \in 1 .. (i - 1) : below[bases[j]].ok
           SocketsOf(i) == IF i \in DOMAIN bases /\ Tried(i) THEN below[bases[i]].sockets ELSE 0
           opened == SocketsOf(1) + SocketsOf(2)
           own == IF part.type = "h3connect" THEN 1 ELSE 0
<1>3. \E s, u : p = IF part.type \in Registered[k] /\ good
                   THEN [ok |-> TRUE, objects |-> {o} \cup U, sockets |-> s] ELSE Refusal(u)
  <2>1. p = IF part.type \notin Registered[k] THEN Refusal(0)
            ELSE IF good THEN [ok |-> TRUE, objects |-> {o} \cup U, sockets |-> opened + own]
            ELSE Refusal(opened)
    BY DEF BuildPart
  <2> HIDE DEF good, p, U, o, opened, own
  <2>2. CASE part.type \notin Registered[k]
    BY <2>1, <2>2
  <2>3. CASE part.type \in Registered[k]
    BY <2>1, <2>3
  <2> QED BY <2>2, <2>3
<1>4. part.type \in Registered[k] /\ good <=> Cond(n, k) /\ \A b \in B : below[b].ok
  BY <1>1 DEF MayStandAt, Cond
<1> HIDE DEF good
<1> HIDE DEF U, o, p, B
<1>5. p.ok => \A x : x \in p.objects <=> x = o \/ \E b \in B : x \in below[b].objects
  BY <1>2, <1>3 DEF Refusal
<1>6. p.ok <=> Cond(n, k) /\ \A b \in B : below[b].ok
  BY <1>3, <1>4 DEF Refusal
<1> QED BY <1>5, <1>6 DEF p, B, o

(* It has opened sockets if what it is built on has, or it opens its own.  *)
LEMMA SocketsAre ==
  ASSUME NEW n, NEW k \in ObjectTypes, NEW below,
         \A b \in ObjectTypes : below[b].sockets \in Nat
  PROVE  LET p == BuildPart(config[n], n, k, resolver, below)
             B == BaseKinds(config[n].type, k)
         IN  /\ p.sockets \in Nat
             /\ p.ok => (p.sockets > 0 <=> \/ config[n].type = "h3connect"
                                           \/ \E b \in B : below[b].sockets > 0)
<1> DEFINE part == config[n]
           bases == Bases(part.type, k)
           B == BaseKinds(part.type, k)
           p == BuildPart(part, n, k, resolver, below)
           Tried(i) == \A j \in 1 .. (i - 1) : below[bases[j]].ok
           SocketsOf(i) == IF i \in DOMAIN bases /\ Tried(i) THEN below[bases[i]].sockets ELSE 0
           opened == SocketsOf(1) + SocketsOf(2)
           own == IF part.type = "h3connect" THEN 1 ELSE 0
           good == MayStandAt(part, n) /\ (\A i \in DOMAIN bases : below[bases[i]].ok)
                     /\ OptionsAccepted(part, k, resolver)
<1>1. /\ DOMAIN bases \subseteq {1, 2} /\ (2 \in DOMAIN bases => 1 \in DOMAIN bases)
      /\ \A i \in DOMAIN bases : bases[i] \in ObjectTypes
  <2>1. bases \in {<<>>, <<"stream">>, <<"packet">>, <<"listener">>, <<"stream", "packet">>}
    BY BasesAre
  <2>2. /\ DOMAIN <<>> = {} /\ DOMAIN <<"stream">> = {1} /\ <<"stream">>[1] = "stream"
        /\ DOMAIN <<"packet">> = {1} /\ <<"packet">>[1] = "packet"
        /\ DOMAIN <<"listener">> = {1} /\ <<"listener">>[1] = "listener"
    OBVIOUS
  <2>3. /\ DOMAIN <<"stream", "packet">> = {1, 2}
        /\ <<"stream", "packet">>[1] = "stream" /\ <<"stream", "packet">>[2] = "packet"
    OBVIOUS
  <2> HIDE DEF bases
  <2> QED BY <2>1, <2>2, <2>3 DEF ObjectTypes
<1>2. p = IF part.type \notin Registered[k] THEN Refusal(0)
          ELSE IF good
          THEN [ok      |-> TRUE,
                objects |-> {<<k, n>>} \cup UNION {below[bases[i]].objects : i \in DOMAIN bases},
                sockets |-> opened + own]
          ELSE Refusal(opened)
  BY DEF BuildPart
<1>3. SocketsOf(1) \in Nat /\ SocketsOf(2) \in Nat
  <2>1. \A i \in DOMAIN bases : below[bases[i]].sockets \in Nat
    BY <1>1
  <2> QED BY <2>1
<1>4. B = {bases[i] : i \in DOMAIN bases}
  BY DEF BaseKinds
<1>5. good => (opened > 0 <=> \E b \in B : below[b].sockets > 0)
  <2> SUFFICES ASSUME good PROVE opened > 0 <=> \E b \in B : below[b].sockets > 0
    OBVIOUS
  <2>1. \A i \in DOMAIN bases : Tried(i)
    <3>1. 1 - 1 = 0 /\ 2 - 1 = 1 /\ 1 .. 0 = {} /\ 1 .. 1 = {1}
      OBVIOUS
    <3> QED BY <1>1, <3>1
  <2>2. SocketsOf(1) = IF 1 \in DOMAIN bases THEN below[bases[1]].sockets ELSE 0
    BY <2>1
  <2>3. SocketsOf(2) = IF 2 \in DOMAIN bases THEN below[bases[2]].sockets ELSE 0
    BY <2>1
  <2> HIDE DEF good, Tried
  <2>4. opened > 0 <=> SocketsOf(1) > 0 \/ SocketsOf(2) > 0
    <3> DEFINE x == SocketsOf(1)
               y == SocketsOf(2)
    <3>1. x \in Nat /\ y \in Nat
      BY <1>3
    <3> HIDE DEF x, y
    <3>2. x + y > 0 <=> x > 0 \/ y > 0
      BY <3>1
    <3> QED BY <3>2 DEF x, y
  <2>5. ~(0 > 0)
    OBVIOUS
  <2>6. SocketsOf(1) > 0 <=> 1 \in DOMAIN bases /\ below[bases[1]].sockets > 0
    BY <2>2, <2>5
  <2>7. SocketsOf(2) > 0 <=> 2 \in DOMAIN bases /\ below[bases[2]].sockets > 0
    BY <2>3, <2>5
  <2> HIDE DEF SocketsOf, opened, bases, B
  <2> QED BY <1>1, <1>4, <2>4, <2>6, <2>7
<1>6. opened \in Nat /\ own \in Nat /\ 0 \in Nat
  BY <1>3
<1> HIDE DEF opened, good, bases, B
<1>7. CASE part.type \notin Registered[k]
  BY <1>2, <1>6, <1>7 DEF Refusal
<1>8. CASE part.type \in Registered[k] /\ good
  <2>1. p.sockets = opened + own
    BY <1>2, <1>8
  <2>2. CASE part.type = "h3connect"
    <3>1. own = 1
      BY <2>2
    <3>2. opened + 1 \in Nat /\ opened + 1 > 0
      BY <1>6
    <3> QED BY <2>1, <2>2, <3>1, <3>2 DEF B
  <2>3. CASE part.type # "h3connect"
    <3>1. own = 0
      BY <2>3
    <3>2. opened + 0 = opened
      BY <1>6
    <3>3. p.sockets = opened
      BY <2>1, <3>1, <3>2
    <3> QED BY <1>5, <1>6, <1>8, <2>3, <3>3 DEF B
  <2> QED BY <2>2, <2>3
<1>9. CASE part.type \in Registered[k] /\ ~good
  <2>1. p = Refusal(opened)
    BY <1>2, <1>9
  <2>2. p.sockets = opened /\ p.ok = FALSE
    BY <2>1 DEF Refusal
  <2> QED BY <1>6, <2>2
<1> QED BY <1>7, <1>8, <1>9

(* Sockets and objects of whatever is built, of whatever parts.            *)
SocketsOwn(r, n, k) ==
  /\ r[n][k].sockets \in Nat
  /\ r[n][k].ok =>
       /\ r[n][k].objects \subseteq ObjectTypes \X (0 .. n)
       /\ r[n][k].sockets > 0 <=> \E m \in 1 .. n : /\ <<"stream", m>> \in r[n][k].objects
                                                    /\ config[m].type = "h3connect"

(* One part more has the sockets of its own and of those below.            *)
LEMMA SocketsStep ==
  ASSUME NEW r, NEW n \in Nat, n # 0, NEW k \in ObjectTypes,
         \A b \in ObjectTypes : SocketsOwn(r, n - 1, b),
         r[n][k] = BuildPart(config[n], n, k, resolver, r[n - 1])
  PROVE  SocketsOwn(r, n, k)
<1> DEFINE p == r[n][k]
           q == r[n - 1]
           B == BaseKinds(config[n].type, k)
           H(m) == config[m].type = "h3connect"
<1>1. \A b \in ObjectTypes : q[b].sockets \in Nat
  BY DEF SocketsOwn
<1>2. /\ p.sockets \in Nat
      /\ p.ok => (p.sockets > 0 <=> H(n) \/ \E b \in B : q[b].sockets > 0)
  BY <1>1, SocketsAre
<1>3. /\ p.ok <=> Cond(n, k) /\ \A b \in B : q[b].ok
      /\ p.ok => \A x : x \in p.objects <=> x = <<k, n>> \/ \E b \in B : x \in q[b].objects
  <2> DEFINE w == BuildPart(config[n], n, k, resolver, q)
  <2>1. /\ w.ok <=> Cond(n, k) /\ \A b \in B : q[b].ok
        /\ w.ok => \A x : x \in w.objects <=> x = <<k, n>> \/ \E b \in B : x \in q[b].objects
    BY BuildIs
  <2>2. p = w
    OBVIOUS
  <2> HIDE DEF w, p
  <2> QED BY <2>1, <2>2
<1>4. B \subseteq ObjectTypes
  BY BasesAre DEF ObjectTypes
<1>5. H(n) /\ Cond(n, k) => k = "stream"
  BY DEF Cond, Registered, ObjectTypes, ConnectTypes
<1>6. n - 1 \in Nat /\ n \in 1 .. n /\ n \notin 0 .. (n - 1) /\ n \in 0 .. n
      /\ \A m \in 0 .. (n - 1) : m \in 0 .. n
  OBVIOUS
<1>7. \A m \in 1 .. n : m = n \/ m \in 1 .. (n - 1)
  OBVIOUS
<1>8. \A m \in 1 .. (n - 1) : m \in 1 .. n
  OBVIOUS
<1> HIDE DEF p, q, B, H
<1> SUFFICES ASSUME p.ok
             PROVE  /\ p.objects \subseteq ObjectTypes \X (0 .. n)
                    /\ p.sockets > 0 <=> \E m \in 1 .. n : <<"stream", m>> \in p.objects /\ H(m)
  BY <1>2 DEF SocketsOwn, p, H
<1>9. ASSUME NEW b \in B
      PROVE  /\ q[b].objects \subseteq ObjectTypes \X (0 .. (n - 1))
             /\ q[b].sockets > 0 <=> \E m \in 1 .. (n - 1) : <<"stream", m>> \in q[b].objects /\ H(m)
  BY <1>3, <1>4 DEF SocketsOwn, q, H
<1>10. \A x : x \in p.objects <=> x = <<k, n>> \/ \E b \in B : x \in q[b].objects
  BY <1>3
<1>11. p.objects \subseteq ObjectTypes \X (0 .. n)
  <2>1. \A b \in B : q[b].objects \subseteq ObjectTypes \X (0 .. n)
    BY <1>6, <1>9
  <2>2. <<k, n>> \in ObjectTypes \X (0 .. n)
    BY <1>6
  <2> QED BY <1>10, <2>1, <2>2
<1>12. ASSUME p.sockets > 0 PROVE \E m \in 1 .. n : <<"stream", m>> \in p.objects /\ H(m)
  <2>1. CASE H(n)
    BY <1>3, <1>5, <1>6, <1>10, <2>1
  <2>2. CASE ~H(n)
    <3>1. PICK b \in B : q[b].sockets > 0
      BY <1>2, <1>12, <2>2
    <3>2. PICK m \in 1 .. (n - 1) : <<"stream", m>> \in q[b].objects /\ H(m)
      BY <1>9, <3>1
    <3> QED BY <1>8, <1>10, <3>2
  <2> QED BY <2>1, <2>2
<1>13. ASSUME NEW m \in 1 .. n, <<"stream", m>> \in p.objects, H(m) PROVE p.sockets > 0
  <2>1. CASE m = n
    BY <1>2, <1>13, <2>1
  <2>2. CASE m # n
    <3>1. <<"stream", m>> # <<k, n>>
      BY <2>2
    <3>2. PICK b \in B : <<"stream", m>> \in q[b].objects
      BY <1>10, <1>13, <3>1
    <3>3. m \in 1 .. (n - 1)
      BY <1>7, <2>2
    <3>4. q[b].sockets > 0
      BY <1>9, <1>13, <3>2, <3>3
    <3> QED BY <1>2, <3>4
  <2> QED BY <2>1, <2>2
<1> QED BY <1>11, <1>12, <1>13

(* So has every part, of every kind.                                       *)
LEMMA SocketsOwned ==
  ASSUME Len(config) \in Nat, NEW r, IsInst(Len(config), r)
  PROVE  \A n \in 0 .. Len(config) : \A k \in ObjectTypes : SocketsOwn(r, n, k)
<1> DEFINE L == Len(config)
           T == {n \in Nat : n <= L => \A k \in ObjectTypes : SocketsOwn(r, n, k)}
<1>0. \A n \in 0 .. L : r[n] = InstStep(r, n)
  BY DEF IsInst
<1> HIDE DEF L
<1>1. 0 \in T
  <2>1. L \in Nat => 0 \in 0 .. L
    OBVIOUS
  <2>2. \A k \in ObjectTypes : r[0][k] = Base(k)
    BY <1>0, <2>1 DEF InstStep, L
  <2>3. 0 \in 0 .. 0 /\ 1 .. 0 = {} /\ ~(0 > 0) /\ 0 \in Nat
    OBVIOUS
  <2>4. ASSUME NEW k \in ObjectTypes PROVE SocketsOwn(r, 0, k)
    <3> DEFINE o == {<<k, 0>>}
    <3>2. r[0][k] = [ok |-> TRUE, objects |-> o, sockets |-> 0]
      BY <2>2 DEF Base
    <3> HIDE DEF o
    <3>3. r[0][k].sockets = 0 /\ r[0][k].objects = o
      BY <3>2
    <3>1. r[0][k].sockets = 0 /\ r[0][k].objects = {<<k, 0>>}
      BY <3>3 DEF o
    <3> QED BY <2>3, <3>1 DEF SocketsOwn
  <2> QED BY <2>4
<1>2. \A n \in T : n + 1 \in T
  <2> SUFFICES ASSUME NEW n \in Nat, n + 1 <= L, \A k \in ObjectTypes : SocketsOwn(r, n, k),
                      NEW k \in ObjectTypes
               PROVE  SocketsOwn(r, n + 1, k)
    <3>1. L \in Nat
      BY DEF L
    <3> QED BY <3>1
  <2>1. n + 1 \in Nat /\ n + 1 # 0 /\ (n + 1) - 1 = n
    OBVIOUS
  <2>2. n + 1 \in 0 .. L
    BY DEF L
  <2>3. r[n + 1][k] = BuildPart(config[n + 1], n + 1, k, resolver, r[(n + 1) - 1])
    BY <1>0, <2>1, <2>2 DEF InstStep
  <2> QED BY <2>1, <2>3, SocketsStep
<1> HIDE DEF T
<1>3. T \in SUBSET Nat
  BY DEF T
<1>4. T = Nat
  BY <1>1, <1>2, <1>3, SetInduction
<1> QED BY <1>4 DEF T, L

(* What is carried is of the kinds there are; from the first part in use   *)
(* up, every part carries something, and below it none does.               *)
LEMMA CarriedKinds ==
  ASSUME config \in Seq(Parts), Kind \in ObjectTypes, NEW c, IsCar(0, c)
  PROVE  /\ c[Len(config)] = {Kind}
         /\ \A n \in 0 .. Len(config) : c[n] \in SUBSET ObjectTypes
         /\ \A n \in 0 .. Len(config) : n >= FirstUsed => c[n] # {}
         /\ \A n \in 0 .. Len(config) : n < FirstUsed => c[n] = {}
         /\ \A n \in 1 .. Len(config) : n > FirstUsed => c[n - 1] = Layer(c[n], config[n].type)
<1> DEFINE L == Len(config)
           FU == FirstUsed
<1>1. L \in Nat
  BY LenProperties
<1>2. FU \in 0 .. L
  BY FirstUsedIs
<1>3. \A n \in 0 .. L : c[n] = CarStep(c, n)
  BY DEF IsCar
<1>4. c[L] = {Kind}
  <2>1. L \in 0 .. L
    BY <1>1
  <2> QED BY <1>3, <2>1 DEF CarStep
<1>5. \A n \in 0 .. L : n # L => c[n] = {k \in Layer(c[n + 1], config[n + 1].type) : n >= FU}
  BY <1>3 DEF CarStep
<1>6. \A over, type : Layer(over, type) \subseteq ObjectTypes
  BY DEF Layer, ObjectTypes
<1> HIDE DEF L, FU
<1>7. \A n \in 0 .. L : c[n] \in SUBSET ObjectTypes
  <2> TAKE n \in 0 .. L
  <2>1. CASE n = L
    BY <1>4, <2>1
  <2>2. CASE n # L
    BY <1>5, <1>6, <2>2
  <2> QED BY <2>1, <2>2
<1>8. \A n \in 0 .. L : n # L /\ n >= FU => c[n] = Layer(c[n + 1], config[n + 1].type)
  BY <1>5
<1>9. \A n \in 0 .. L : n < FU => c[n] = {}
  <2> TAKE n \in 0 .. L
  <2>1. n < FU => n # L /\ ~(n >= FU)
    BY <1>1, <1>2
  <2> QED BY <1>5, <2>1
<1>10. \A n \in 1 .. L : n > FU => c[n - 1] = Layer(c[n], config[n].type)
  <2> TAKE n \in 1 .. L
  <2>1. n - 1 \in 0 .. L /\ n - 1 # L /\ (n - 1) + 1 = n
    BY <1>1
  <2>2. n > FU => n - 1 >= FU
    BY <1>1, <1>2
  <2> QED BY <1>8, <2>1, <2>2
<1>11. \A type : \A over \in SUBSET ObjectTypes : over # {} => Layer(over, type) # {}
  <2> SUFFICES ASSUME NEW type, NEW over \in SUBSET ObjectTypes, over # {} PROVE Layer(over, type) # {}
    OBVIOUS
  <2>1. PICK k \in over : k \in {"stream", "packet", "listener"}
    BY DEF ObjectTypes
  <2>2. CASE k = "stream" \/ type = "ws"
    <3>1. "stream" \in Layer(over, type)
      BY <2>1, <2>2 DEF Layer
    <3> QED BY <3>1
  <2>3. CASE k # "stream" /\ type # "ws"
    <3>1. "packet" \in Layer(over, type)
      BY <2>1, <2>3 DEF Layer
    <3> QED BY <3>1
  <2> QED BY <2>2, <2>3
<1> DEFINE T == {m \in Nat : m <= L - FU => c[L - m] # {}}
<1>12. 0 \in T
  <2>1. L - 0 = L
    BY <1>1
  <2> QED BY <1>4, <2>1
<1>13. \A m \in T : m + 1 \in T
  <2> SUFFICES ASSUME NEW m \in Nat, m + 1 <= L - FU, c[L - m] # {}
               PROVE  c[L - (m + 1)] # {}
    <3>1. \A m \in Nat : m + 1 <= L - FU => m <= L - FU
      BY <1>1, <1>2
    <3> QED BY <3>1
  <2> DEFINE n == L - m
  <2>1. n \in 1 .. L /\ n \in 0 .. L /\ n > FU /\ L - (m + 1) = n - 1
    BY <1>1, <1>2
  <2> HIDE DEF n
  <2>2. c[n - 1] = Layer(c[n], config[n].type) /\ c[n] \in SUBSET ObjectTypes /\ c[n] # {}
    BY <1>7, <1>10, <2>1 DEF n
  <2>3. c[n - 1] # {}
    BY <1>11, <2>2
  <2> QED BY <2>1, <2>3
<1> HIDE DEF T
<1>14. T \in SUBSET Nat
  BY DEF T
<1>15. T = Nat
  BY <1>12, <1>13, <1>14, SetInduction
<1>16. \A n \in 0 .. L : n >= FU => c[n] # {}
  <2> TAKE n \in 0 .. L
  <2> HAVE n >= FU
  <2>1. L - n \in Nat /\ L - n <= L - FU /\ L - (L - n) = n
    BY <1>1, <1>2
  <2> QED BY <1>15, <2>1 DEF T
<1> QED BY <1>4, <1>7, <1>9, <1>10, <1>16 DEF L, FU

(* From the first part in use up: everything that is carried is built if   *)
(* every part can carry it, and is built through everything carried.       *)
Able(c, n) == \A m \in 1 .. n : m >= FirstUsed => \A k \in c[m] : Cond(m, k)

Through(c, n) == {o \in ObjectTypes \X (FirstUsed .. n) : o[1] \in c[o[2]]}

Layered(r, c, n) ==
  /\ (\A k \in c[n] : r[n][k].ok) <=> Able(c, n)
  /\ Able(c, n) => \A x : x \in Through(c, n) <=> \E k \in c[n] : x \in r[n][k].objects

(* One part more: it is built if what it needs is and it may be, and it is *)
(* built through what the parts below were and itself.                     *)
LEMMA LayeredStep ==
  ASSUME config \in Seq(Parts), NEW r, NEW c, NEW n \in Nat, n - 1 \in Nat, FirstUsed \in Nat, n > FirstUsed,
         config[n].type \notin Own,
         c[n] \in SUBSET ObjectTypes, c[n] # {},
         c[n - 1] = Layer(c[n], config[n].type),
         \A k \in c[n] : r[n][k] = BuildPart(config[n], n, k, resolver, r[n - 1]),
         Layered(r, c, n - 1)
  PROVE  Layered(r, c, n)
<1> DEFINE q == r[n - 1]
           B(k) == BaseKinds(config[n].type, k)
<1>1. ASSUME NEW k \in c[n]
      PROVE  /\ r[n][k].ok <=> Cond(n, k) /\ \A b \in B(k) : q[b].ok
             /\ r[n][k].ok => \A x : x \in r[n][k].objects <=> x = <<k, n>> \/ \E b \in B(k) : x \in q[b].objects
  <2> DEFINE w == BuildPart(config[n], n, k, resolver, q)
  <2>1. /\ w.ok <=> Cond(n, k) /\ \A b \in B(k) : q[b].ok
        /\ w.ok => \A x : x \in w.objects <=> x = <<k, n>> \/ \E b \in B(k) : x \in q[b].objects
    BY BuildIs
  <2>2. r[n][k] = w
    OBVIOUS
  <2> HIDE DEF w
  <2> QED BY <2>1, <2>2
<1>2. (\A k \in c[n] : Cond(n, k)) => \A b : b \in c[n - 1] <=> \E k \in c[n] : b \in B(k)
  <2> SUFFICES ASSUME \A k \in c[n] : Cond(n, k)
               PROVE  \A b : b \in c[n - 1] <=> \E k \in c[n] : b \in B(k)
    OBVIOUS
  <2>1. \A k \in c[n] : config[n].type \in Registered[k]
    BY DEF Cond
  <2> QED BY <2>1, LayerIs
<1> HIDE DEF q, B
<1>3. \A m \in 1 .. n : m = n \/ m \in 1 .. (n - 1)
  OBVIOUS
<1>4. n \in 1 .. n /\ n >= FirstUsed /\ n - 1 >= FirstUsed /\ \A m \in 1 .. (n - 1) : m \in 1 .. n
  OBVIOUS
<1>5. Able(c, n) <=> Able(c, n - 1) /\ \A k \in c[n] : Cond(n, k)
  BY <1>3, <1>4 DEF Able
<1>6. (\A b \in c[n - 1] : q[b].ok) <=> Able(c, n - 1)
  BY DEF Layered, q
<1>7. (\A k \in c[n] : r[n][k].ok) <=> Able(c, n)
  <2>1. ASSUME \A k \in c[n] : r[n][k].ok PROVE Able(c, n)
    BY <1>1, <1>2, <1>5, <1>6, <2>1
  <2>2. ASSUME Able(c, n) PROVE \A k \in c[n] : r[n][k].ok
    BY <1>1, <1>2, <1>5, <1>6, <2>2
  <2> QED BY <2>1, <2>2
<1>8. ASSUME Able(c, n)
      PROVE  \A x : x \in Through(c, n) <=> \E k \in c[n] : x \in r[n][k].objects
  <2>1. \A x : x \in Through(c, n - 1) <=> \E b \in c[n - 1] : x \in q[b].objects
    BY <1>5, <1>8 DEF Layered, q
  <2>2. ASSUME NEW k \in c[n], NEW x
        PROVE  x \in r[n][k].objects <=> x = <<k, n>> \/ \E b \in B(k) : x \in q[b].objects
    BY <1>1, <1>7, <1>8
  <2>3. \A x : (\E k \in c[n] : x \in r[n][k].objects) <=>
                 (\E k \in c[n] : x = <<k, n>>) \/ \E b \in c[n - 1] : x \in q[b].objects
    BY <1>2, <1>5, <1>8, <2>2
  <2>4. \A x : x \in Through(c, n) <=> x \in Through(c, n - 1) \/ \E k \in c[n] : x = <<k, n>>
    <3>1. \A i \in FirstUsed .. n : i = n \/ i \in FirstUsed .. (n - 1)
      BY <1>4
    <3>2. n \in FirstUsed .. n /\ \A i \in FirstUsed .. (n - 1) : i \in FirstUsed .. n
      BY <1>4
    <3>3. ASSUME NEW x \in Through(c, n) PROVE x \in Through(c, n - 1) \/ \E k \in c[n] : x = <<k, n>>
      <4>1. x \in ObjectTypes \X (FirstUsed .. n) /\ x[1] \in c[x[2]] /\ x = <<x[1], x[2]>>
        BY DEF Through
      <4> QED BY <3>1, <4>1 DEF Through
    <3>4. ASSUME NEW x \in Through(c, n - 1) PROVE x \in Through(c, n)
      BY <3>2 DEF Through
    <3>5. ASSUME NEW k \in c[n] PROVE <<k, n>> \in Through(c, n)
      BY <3>2 DEF Through
    <3> QED BY <3>3, <3>4, <3>5
  <2> QED BY <2>1, <2>3, <2>4
<1> QED BY <1>7, <1>8 DEF Layered

(* Up to the last part, what is asked for is built exactly if every part is*)
(* able to, and through all that is carried.                               *)
LEMMA LayeredAll ==
  ASSUME config \in Seq(Parts), Kind \in ObjectTypes, NEW r, IsInst(Len(config), r), NEW c, IsCar(0, c)
  PROVE  Layered(r, c, Len(config))
<1> DEFINE L == Len(config)
           FU == FirstUsed
           T == {m \in Nat : FU + m <= L => Layered(r, c, FU + m)}
<1>1. L \in Nat
  BY LenProperties
<1>2. FU \in 0 .. L /\ (FU # 0 => config[FU].type \in Own)
  BY FirstUsedIs
<1>3. \A n \in 0 .. L : r[n] = InstStep(r, n)
  BY DEF IsInst
<1>4. /\ \A n \in 0 .. L : c[n] \in SUBSET ObjectTypes
      /\ \A n \in 0 .. L : n >= FU => c[n] # {}
      /\ \A n \in 0 .. L : n < FU => c[n] = {}
      /\ \A n \in 1 .. L : n > FU => c[n - 1] = Layer(c[n], config[n].type)
  BY CarriedKinds
<1>5. \A n \in 1 .. L : n > FU => config[n].type \notin Own
  BY FirstUsedIs
<1> HIDE DEF L, FU, T
<1>6. Layered(r, c, FU)
  <2>1. FU .. FU = {FU} /\ FU \in 0 .. L
    BY <1>2
  <2>2. ASSUME NEW x PROVE x \in Through(c, FU) <=> \E k \in c[FU] : x = <<k, FU>>
    <3>1. c[FU] \subseteq ObjectTypes
      BY <1>4, <2>1
    <3>2. ASSUME x \in Through(c, FU) PROVE \E k \in c[FU] : x = <<k, FU>>
      <4>1. x \in ObjectTypes \X (FU .. FU) /\ x[1] \in c[x[2]] /\ x = <<x[1], x[2]>>
        BY <3>2 DEF Through, FU
      <4> QED BY <2>1, <4>1
    <3>3. ASSUME NEW k \in c[FU], x = <<k, FU>> PROVE x \in Through(c, FU)
      <4>1. x \in ObjectTypes \X (FU .. FU) /\ x[1] \in c[x[2]]
        BY <2>1, <3>1, <3>3
      <4> QED BY <4>1 DEF Through, FU
    <3> QED BY <3>2, <3>3
  <2>3. CASE FU = 0
    <3>1. \A k \in ObjectTypes : r[0][k] = Base(k)
      BY <1>3, <2>1, <2>3 DEF InstStep
    <3>2. ASSUME NEW k \in ObjectTypes
          PROVE  r[0][k].ok /\ \A x : x \in r[0][k].objects <=> x = <<k, 0>>
      <4> DEFINE o == {<<k, 0>>}
      <4>1. r[0][k] = [ok |-> TRUE, objects |-> o, sockets |-> 0]
        BY <3>1 DEF Base
      <4> HIDE DEF o
      <4>2. r[0][k].ok /\ r[0][k].objects = o
        BY <4>1
      <4> QED BY <4>2 DEF o
    <3>3. c[0] \subseteq ObjectTypes
      BY <1>4, <2>1, <2>3
    <3>4. Able(c, 0)
      <4>1. 1 .. 0 = {}
        OBVIOUS
      <4> QED BY <4>1 DEF Able
    <3>5. \A k \in c[0] : r[0][k].ok
      BY <3>2, <3>3
    <3>6. \A x : x \in Through(c, 0) <=> \E k \in c[0] : x \in r[0][k].objects
      BY <2>2, <2>3, <3>2, <3>3
    <3>7. Layered(r, c, 0)
      BY <3>4, <3>5, <3>6 DEF Layered
    <3> QED BY <2>3, <3>7
  <2>4. CASE FU # 0
    <3>1. FU \in 1 .. L /\ FU \in 1 .. FU /\ FU >= FU
      BY <1>1, <1>2, <2>4
    <3>2. c[FU] \subseteq ObjectTypes
      BY <1>4, <2>1
    <3>3. \A k \in ObjectTypes : r[FU][k] = BuildPart(config[FU], FU, k, resolver, r[FU - 1])
      BY <1>3, <2>1, <2>4 DEF InstStep
    <3>4. ASSUME NEW k \in ObjectTypes
          PROVE  /\ r[FU][k].ok <=> Cond(FU, k)
                 /\ r[FU][k].ok => \A x : x \in r[FU][k].objects <=> x = <<k, FU>>
      <4> DEFINE w == BuildPart(config[FU], FU, k, resolver, r[FU - 1])
      <4>1. BaseKinds(config[FU].type, k) = {}
        BY <1>2, <2>4, BasesAre
      <4>2. /\ w.ok <=> Cond(FU, k) /\ \A b \in BaseKinds(config[FU].type, k) : r[FU - 1][b].ok
            /\ w.ok => \A x : x \in w.objects <=>
                         x = <<k, FU>> \/ \E b \in BaseKinds(config[FU].type, k) : x \in r[FU - 1][b].objects
        BY BuildIs
      <4>3. r[FU][k] = w
        BY <3>3
      <4> HIDE DEF w
      <4> QED BY <4>1, <4>2, <4>3
    <3>5. Able(c, FU) <=> \A k \in c[FU] : Cond(FU, k)
      <4>1. \A m \in 1 .. FU : m >= FU => m = FU
        BY <1>1, <1>2
      <4> QED BY <3>1, <4>1 DEF Able, FU
    <3>6. (\A k \in c[FU] : r[FU][k].ok) <=> Able(c, FU)
      BY <3>2, <3>4, <3>5
    <3>7. Able(c, FU) => \A x : x \in Through(c, FU) <=> \E k \in c[FU] : x \in r[FU][k].objects
      BY <2>2, <3>2, <3>4, <3>6
    <3> QED BY <3>6, <3>7 DEF Layered
  <2> QED BY <2>3, <2>4
<1>7. 0 \in T
  <2>1. FU + 0 = FU
    BY <1>1, <1>2
  <2> QED BY <1>6, <2>1 DEF T
<1>8. \A m \in T : m + 1 \in T
  <2> SUFFICES ASSUME NEW m \in T, FU + (m + 1) <= L
               PROVE  Layered(r, c, FU + (m + 1))
    BY DEF T
  <2> DEFINE n == FU + (m + 1)
  <2>1. m \in Nat
    BY DEF T
  <2>2. /\ n \in Nat /\ n - 1 = FU + m /\ n - 1 \in Nat /\ FU \in Nat /\ n > FU /\ n >= FU
        /\ n \in 1 .. L /\ n \in 0 .. L /\ n # 0 /\ FU + m <= L
    BY <1>1, <1>2, <2>1
  <2> HIDE DEF n
  <2>3. Layered(r, c, n - 1)
    BY <2>2 DEF T
  <2>4. c[n] \in SUBSET ObjectTypes /\ c[n] # {} /\ c[n - 1] = Layer(c[n], config[n].type)
    BY <1>4, <2>2
  <2>5. \A k \in ObjectTypes : r[n][k] = BuildPart(config[n], n, k, resolver, r[n - 1])
    BY <1>3, <2>2 DEF InstStep
  <2>6. \A k \in c[n] : r[n][k] = BuildPart(config[n], n, k, resolver, r[n - 1])
    BY <2>4, <2>5
  <2>7. config[n].type \notin Own
    BY <1>5, <2>2
  <2>8. Layered(r, c, n)
    BY <2>2, <2>3, <2>4, <2>6, <2>7, LayeredStep DEF FU
  <2> QED BY <2>8 DEF n
<1>9. T \in SUBSET Nat
  BY DEF T
<1>10. T = Nat
  BY <1>7, <1>8, <1>9, SetInduction
<1>11. L - FU \in Nat /\ FU + (L - FU) = L
  BY <1>1, <1>2
<1>12. Layered(r, c, L)
  <2>1. L - FU \in T
    BY <1>10, <1>11
  <2>2. FU + (L - FU) <= L => Layered(r, c, FU + (L - FU))
    BY <2>1 DEF T
  <2> QED BY <1>1, <1>11, <2>2
<1> QED BY <1>12 DEF L

(* A behavior reads parts, then has one result: the text was no text, or   *)
(* it is what the providers returned for one kind.                         *)
Proxies ==
  IF config # <<>> /\ Last(config).type \in ConnectTypes
  THEN {Proxy(Last(config), order) : order \in SetToSeqs(Last(config).opts \ {"user", "server"})}
  ELSE {}

Returned(kind) == [kind |-> kind, result |-> NewInstance(config, resolver)[kind], proxies |-> Proxies]

ConfigInv ==
  /\ config \in Seq(Parts)
  /\ \/ built = {}
     \/ built = {[kind |-> "none", result |-> Refusal(0), proxies |-> {}]}
     \/ \E kind \in ObjectTypes : built = {Returned(kind)}

(* At the start no part is read.                                           *)
LEMMA ConfigInvInit == ConfigInit => ConfigInv
BY EmptySeq DEF ConfigInit, ConfigInv

(* A part is read, or the one result is made of the parts read so far.     *)
LEMMA ConfigInvStep ==
  ASSUME ConfigInv, ConfigNext
  PROVE  ConfigInv'
<1>1. CASE ReadPart
  <2>1. CASE (\E part \in Parts : config' = Append(config, part)) /\ built' = built
    <3>1. built' = {}
      BY <1>1, <2>1 DEF ReadPart
    <3>2. config' \in Seq(Parts)
      BY <2>1, AppendProperties DEF ConfigInv
    <3> QED BY <3>1, <3>2 DEF ConfigInv
  <2>2. CASE built' = {[kind |-> "none", result |-> Refusal(0), proxies |-> {}]} /\ config' = config
    BY <2>2 DEF ConfigInv
  <2> QED BY <1>1, <2>1, <2>2 DEF ReadPart
<1>2. CASE Build
  <2>1. config' = config /\ resolver' = resolver
    BY <1>2 DEF Build
  <2>2. \E kind \in ObjectTypes : built' = {Returned(kind)}
    BY <1>2 DEF Build, Returned, Proxies
  <2>3. \A kind : Returned(kind)' = Returned(kind)
    BY <2>1 DEF Returned, Proxies
  <2> QED BY <2>1, <2>2, <2>3 DEF ConfigInv
<1> QED BY <1>1, <1>2 DEF ConfigNext

(* A step of another layer leaves the config alone.                        *)
LEMMA ConfigInvStutter ==
  ASSUME ConfigInv, UNCHANGED configVars
  PROVE  ConfigInv'
<1>1. config' = config /\ resolver' = resolver /\ built' = built
  BY DEF configVars
<1>2. \A kind : Returned(kind)' = Returned(kind)
  BY <1>1 DEF Returned, Proxies
<1> QED BY <1>1, <1>2 DEF ConfigInv

(* The one result is the one that is looked at.                            *)
LEMMA ChosenOne ==
  ASSUME NEW b, built = {b}
  PROVE  Result = b.result /\ Kind = b.kind
<1>1. (CHOOSE x \in built : TRUE) = b
  OBVIOUS
<1> QED BY <1>1 DEF Result, Kind

(* The proxies a CONNECT part may turn out to be are one and the same.     *)
LEMMA ConnectIs ==
  ASSUME config \in Seq(Parts), NEW p \in Proxies
  PROVE  LET last == Last(config)
         IN  /\ p.plain <=> /\ last.type # "h3connect" /\ "plain" \in last.opts
                            /\ last.opts \cap TlsOptions = {}
             /\ p.header = IF "auth" \in last.opts THEN "auth"
                           ELSE IF "user" \in last.opts THEN "user" ELSE "none"
<1> DEFINE last == Last(config)
<1>1. config # <<>> /\ \E order \in SetToSeqs(last.opts \ {"user", "server"}) : p = Proxy(last, order)
  BY DEF Proxies
<1>2. last \in Parts
  BY <1>1, LastIn
<1>3. IsFiniteSet(last.opts)
  BY <1>2, ConfigAssumption
<1> HIDE DEF last
<1>4. PICK order \in SetToSeqs(last.opts \ {"user", "server"}) : p = Proxy(last, order)
  BY <1>1
<1>5. /\ p.plain <=> /\ last.type # "h3connect" /\ "plain" \in last.opts
                     /\ last.opts \cap TlsOptions = {}
      /\ p.header = IF "auth" \in last.opts THEN "auth"
                    ELSE IF "user" \in last.opts THEN "user" ELSE "none"
  BY <1>3, <1>4, ProxyIs
<1> QED BY <1>5 DEF last

(* What the one result says of the parts.                                  *)
LEMMA ConfigInvSound == ConfigInv => BuildSound
<1> SUFFICES ASSUME ConfigInv, built # {} PROVE NothingBypassed /\ RefusedForCause /\ ConnectOrderFree /\ SocketsAreUsed
  BY DEF BuildSound
<1>1. config \in Seq(Parts) /\ Len(config) \in Nat
  BY LenProperties DEF ConfigInv
<1>2. CASE built = {[kind |-> "none", result |-> Refusal(0), proxies |-> {}]}
  <2> DEFINE b == [kind |-> "none", result |-> Refusal(0), proxies |-> {}]
  <2>1. Result = b.result /\ Kind = b.kind
    BY <1>2, ChosenOne
  <2>2. ~Result.ok /\ Kind = "none"
    BY <2>1 DEF Refusal
  <2>3. ConnectOrderFree
    BY <1>2 DEF ConnectOrderFree
  <2> QED BY <2>2, <2>3 DEF NothingBypassed, RefusedForCause, SocketsAreUsed
<1>3. CASE \E kind \in ObjectTypes : built = {Returned(kind)}
  <2>1. PICK kind \in ObjectTypes : built = {Returned(kind)}
    BY <1>3
  <2>2. Result = NewInstance(config, resolver)[kind] /\ Kind = kind
    <3> DEFINE b == Returned(kind)
               made == NewInstance(config, resolver)[kind]
               dialed == Proxies
    <3>1. Result = b.result /\ Kind = b.kind
      BY <2>1, ChosenOne
    <3>2. b = [kind |-> kind, result |-> made, proxies |-> dialed]
      BY DEF Returned
    <3> HIDE DEF b, made, dialed
    <3>3. Result = made /\ Kind = kind
      BY <3>1, <3>2
    <3> QED BY <3>3 DEF made
  <2>3. PICK r : IsInst(Len(config), r) /\ NewInstance(config, resolver) = r[Len(config)]
    BY <1>1, NewInstanceIs
  <2> DEFINE L == Len(config)
             c == Carried
  <2>4. IsCar(0, c)
    BY <1>1, CarriedIs
  <2> HIDE DEF c
  <2>5. Layered(r, c, L) /\ c[L] = {Kind}
    BY <1>1, <2>2, <2>3, <2>4, LayeredAll, CarriedKinds
  <2>6. Result = r[L][Kind]
    BY <2>2, <2>3
  <2>7. Result.ok <=> Able(c, L)
    BY <2>5, <2>6 DEF Layered
  <2>8. NothingBypassed
    <3> SUFFICES ASSUME Result.ok PROVE Result.objects = Through(c, L)
      BY DEF NothingBypassed, Through, c
    <3>1. \A x : x \in Through(c, L) <=> x \in Result.objects
      BY <2>5, <2>6, <2>7 DEF Layered
    <3> QED BY <3>1
  <2>10. RefusedForCause
    BY <2>7 DEF RefusedForCause, Able, Cond, c
  <2>11. ConnectOrderFree
    <3>1. \A b \in built : b.proxies = Proxies
      BY <2>1 DEF Returned
    <3> QED BY <1>1, <3>1, ConnectIs DEF ConnectOrderFree
  <2>12. SocketsAreUsed
    <3>1. SocketsOwn(r, L, Kind)
      <4>1. L \in 0 .. L
        BY <1>1
      <4> QED BY <1>1, <2>2, <2>3, <4>1, SocketsOwned
    <3> QED BY <2>6, <3>1 DEF SocketsAreUsed, SocketsOwn
  <2> QED BY <2>8, <2>10, <2>11, <2>12
<1> QED BY <1>2, <1>3 DEF ConfigInv

-----------------------------------------------------------------------------
(* A step of another layer leaves the call alone.                          *)
LEMMA TearInvStutter ==
  ASSUME TearInv, UNCHANGED tearVars
  PROVE  TearInv'
<1>1. /\ proc' = proc /\ at' = at /\ held' = held /\ phase' = phase /\ todo' = todo
      /\ KnownLeaks' = KnownLeaks
  BY DEF tearVars, KnownLeaks
<1> QED BY <1>1 DEF TearInv

(* What a call has opened is taken down, completely and from the top: of   *)
(* every function that opens resources in a row, wherever it fails.        *)
THEOREM CallsAreTornDown == TearSpec => []TornDown
<1>1. TearInv /\ [TearNext]_tearVars => TearInv'
  BY TearInvStep, TearInvStutter
<1> QED BY <1>1, TearInvInit, TearInvTornDown, PTL DEF TearSpec

(* A config is built, or refused for cause, through every part in use.     *)
THEOREM BuildsAreSound == ConfigSpec => []BuildSound
<1>1. ConfigInv /\ [ConfigNext]_configVars => ConfigInv'
  BY ConfigInvStep, ConfigInvStutter
<1> QED BY <1>1, ConfigInvInit, ConfigInvSound, PTL DEF ConfigSpec

(* A dialer is built through every part of its text and for what it needs  *)
(* of each, and of a dial or a start that fails half-way nothing stays     *)
(* open but the known leaks, whatever the text and wherever it fails.      *)
THEOREM DialersAreBuiltWhole == MCDialingSpec => []BuiltWhole
<1> DEFINE Inv == TearInv /\ ConfigInv
<1>1. MCDialingInit => Inv
  BY TearInvInit, ConfigInvInit DEF MCDialingInit
<1>2. Inv /\ [MCDialingNext]_dialingVars => Inv'
  <2> SUFFICES ASSUME TearInv, ConfigInv, [MCDialingNext]_dialingVars PROVE TearInv' /\ ConfigInv'
    OBVIOUS
  <2>1. \/ TearNext \/ UNCHANGED tearVars
    BY DEF MCDialingNext, dialingVars
  <2>2. \/ ConfigNext \/ UNCHANGED configVars
    BY DEF MCDialingNext, dialingVars
  <2>3. TearInv'
    BY <2>1, TearInvStep, TearInvStutter
  <2>4. ConfigInv'
    BY <2>2, ConfigInvStep, ConfigInvStutter
  <2> QED BY <2>3, <2>4
<1>3. Inv => BuiltWhole
  BY TearInvTornDown, ConfigInvSound DEF BuiltWhole
<1> QED BY <1>1, <1>2, <1>3, PTL DEF MCDialingSpec
=============================================================================
