---------------------------- MODULE SmartProofs -----------------------------
(***************************************************************************)
(* Proofs about SmartRace, SmartDns, SmartFinder and DnsQuery, for any     *)
(* number of entries, of test domains and of calls.                        *)
(***************************************************************************)
EXTENDS SmartDns, SmartFinder, DnsQuery, Integers, SequenceTheorems, FiniteSetTheorems,
        WellFoundedInduction, TLAPS

-----------------------------------------------------------------------------
(***************************************************************************)
(* SmartDns: the resolver that is selected is vetted.                      *)
(***************************************************************************)
(* The states of a visit of a test domain.                                 *)
VisitStates == {"idle", "dial", "handshake", "read", "ok", "err", "address", "cname"}

(* Every variable keeps its type.                                          *)
SearchTypeOK ==
  /\ kind \in {"dialers", "resolvers"} /\ race \in {"open", "won", "failed", "cancelled"}
  /\ winner \in Nat /\ next \in 0..NumEntries /\ toTest \in 0..NumEntries
  /\ waitCh \in {"ready", "timer", "nil"}
  /\ tst \in [Entries -> {"idle", "make", "run", "passed", "failed"}]
  /\ results \in Seq(Entries)
  /\ visit \in [Entries -> [Domains -> VisitStates]]
  /\ class \in [Entries -> Classes] /\ behaviour \in [Entries -> Behaviours]

(* The tests are started in order, all of them unless the race ends.       *)
StartInv == /\ waitCh # "nil" /\ NumEntries # 0 => next < NumEntries
            /\ \A e \in Entries : e > next <=> tst[e] = "idle"

(* A test that has ended waits in the channel or its result was taken. The *)
(* results still awaited and those taken make up all entries.              *)
Ended(e) == tst[e] \in {"passed", "failed"}
Queued(e) == \E i \in 1..Len(results) : results[i] = e
Taken == {e \in Entries : Ended(e) /\ ~Queued(e)}
QueueInv == /\ \A i \in 1..Len(results) : Ended(results[i])
            /\ \A i, j \in 1..Len(results) : results[i] = results[j] => i = j
            /\ Cardinality(Taken) = NumEntries - toTest
            /\ race = "open" => \A e \in Taken : tst[e] = "failed"
            /\ race = "won" => winner \in Entries /\ tst[winner] = "passed"

(* What a test has reported agrees with what became of its visits.         *)
VisitInv ==
  \A e \in Entries :
    /\ tst[e] \in {"idle", "make"} => \A d \in Domains : visit[e][d] = "idle"
    /\ kind = "dialers" /\ tst[e] = "passed" => \A d \in Domains : visit[e][d] = "ok"
    /\ kind = "dialers" /\ tst[e] = "failed" => \E d \in Domains : visit[e][d] \in {"err", "idle"}
    /\ kind = "resolvers" /\ tst[e] = "passed" => \A d \in Asked : visit[e][d] = "ok"

(* A visit that was answered well vouches for the resolver.                *)
AnswerInv ==
  kind = "resolvers" => \A e \in Entries, d \in Domains :
    /\ visit[e][d] = "ok" => Trustworthy(class[e], behaviour[e])
    /\ visit[e][d] = "cname" => class[e] = "plain" /\ AddressOk(AddressAnswer(behaviour[e]))

SearchInv == SearchTypeOK /\ StartInv /\ QueueInv /\ VisitInv /\ AnswerInv

(* What the end of a test changes.                                         *)
LEMMA EndEffect ==
  ASSUME SearchTypeOK, NEW e \in Entries, NEW r \in {"passed", "failed"}, EndTest(e, r)
  PROVE  /\ tst' \in [Entries -> {"idle", "make", "run", "passed", "failed"}]
         /\ tst'[e] = r /\ \A g \in Entries : g # e => tst'[g] = tst[g]
         /\ results' \in Seq(Entries) /\ Len(results) \in Nat /\ Len(results') = Len(results) + 1
         /\ \A i \in 1..Len(results) : results'[i] = results[i]
         /\ results'[Len(results) + 1] = e
<1>1. tst \in [Entries -> {"idle", "make", "run", "passed", "failed"}] /\ results \in Seq(Entries)
  BY DEF SearchTypeOK
<1>2. tst' = [tst EXCEPT ![e] = r] /\ results' = Append(results, e)
  BY DEF EndTest
<1>3. Len(results) \in Nat
  BY <1>1, LenProperties
<1> QED
  BY <1>1, <1>2, <1>3, AppendProperties

(* The end of a test keeps the invariant when its verdict is the one its   *)
(* visits call for.                                                        *)
LEMMA EndKeeps ==
  ASSUME SearchInv, NEW e \in Entries, NEW r \in {"passed", "failed"}, EndTest(e, r),
         tst[e] \in {"make", "run"},
         UNCHANGED <<kind, race, winner, next, toTest, waitCh, parent, visit, tripped, dnsVars>>,
         kind = "dialers" /\ r = "passed" => \A d \in Domains : visit[e][d] = "ok",
         kind = "dialers" /\ r = "failed" => \E d \in Domains : visit[e][d] \in {"err", "idle"},
         kind = "resolvers" /\ r = "passed" => \A d \in Asked : visit[e][d] = "ok"
  PROVE  SearchInv'
<1>0. SearchTypeOK /\ StartInv /\ QueueInv /\ VisitInv /\ AnswerInv
  BY DEF SearchInv
<1>1. /\ tst' \in [Entries -> {"idle", "make", "run", "passed", "failed"}]
      /\ tst'[e] = r /\ \A g \in Entries : g # e => tst'[g] = tst[g]
      /\ results' \in Seq(Entries) /\ Len(results) \in Nat /\ Len(results') = Len(results) + 1
      /\ \A i \in 1..Len(results) : results'[i] = results[i]
      /\ results'[Len(results) + 1] = e
  BY <1>0, EndEffect
<1>2. SearchTypeOK'
  BY <1>0, <1>1 DEF SearchTypeOK, dnsVars
<1>3. StartInv'
  <2>1. \A g \in Entries : tst'[g] = "idle" <=> tst[g] = "idle"
    BY <1>1
  <2> QED
    BY <1>0, <2>1 DEF StartInv
<1>4. QueueInv'
  <2>1. ~Ended(e) /\ Ended(e)' /\ \A g \in Entries : g # e => (Ended(g)' <=> Ended(g))
    BY <1>1 DEF Ended
  <2>2. \A i \in 1..Len(results) : results[i] \in Entries /\ Ended(results[i])
    BY <1>0, ElementOfSeq DEF SearchTypeOK, QueueInv
  <2>3. ~Queued(e)
    BY <2>1, <2>2 DEF Queued
  <2>4. \A i \in 1..Len(results') : i \in 1..Len(results) \/ i = Len(results) + 1
    BY <1>1
  <2>5. Queued(e)'
    BY <1>1 DEF Queued
  <2>6. ASSUME NEW g \in Entries, g # e PROVE Queued(g)' <=> Queued(g)
    BY <1>1, <2>4, <2>6 DEF Queued
  <2>7. Taken' = Taken
    BY <2>1, <2>3, <2>5, <2>6 DEF Taken
  <2>8. \A i \in 1..Len(results') : tst'[results'[i]] \in {"passed", "failed"}
    <3>1. \A i \in 1..Len(results) : results[i] # e
      BY <2>3 DEF Queued
    <3> QED
      BY <1>1, <2>2, <2>4, <3>1 DEF Ended
  <2>9. ASSUME NEW i \in 1..Len(results'), NEW j \in 1..Len(results'), results'[i] = results'[j]
        PROVE  i = j
    <3>1. CASE i \in 1..Len(results) /\ j \in 1..Len(results)
      BY <1>0, <1>1, <2>9, <3>1 DEF QueueInv
    <3>2. CASE i = Len(results) + 1 /\ j = Len(results) + 1
      BY <3>2
    <3>3. CASE i \in 1..Len(results) /\ j = Len(results) + 1
      BY <1>1, <2>3, <2>9, <3>3 DEF Queued
    <3>4. CASE j \in 1..Len(results) /\ i = Len(results) + 1
      BY <1>1, <2>3, <2>9, <3>4 DEF Queued
    <3> QED
      BY <2>4, <3>1, <3>2, <3>3, <3>4
  <2>10. \A g \in Taken : g # e /\ g \in Entries
    BY <2>1 DEF Taken
  <2>11. race' = "open" => \A g \in Taken' : tst'[g] = "failed"
    BY <1>0, <1>1, <2>7, <2>10 DEF QueueInv
  <2>12. race' = "won" => winner' \in Entries /\ tst'[winner'] = "passed"
    BY <1>0, <1>1 DEF QueueInv
  <2> QED
    BY <1>0, <2>7, <2>8, <2>9, <2>11, <2>12 DEF QueueInv, Ended
<1>5. VisitInv'
  <2> SUFFICES ASSUME NEW g \in Entries
               PROVE  /\ tst'[g] \in {"idle", "make"} => \A d \in Domains : visit[g][d] = "idle"
                      /\ kind = "dialers" /\ tst'[g] = "passed" => \A d \in Domains : visit[g][d] = "ok"
                      /\ kind = "dialers" /\ tst'[g] = "failed" =>
                           \E d \in Domains : visit[g][d] \in {"err", "idle"}
                      /\ kind = "resolvers" /\ tst'[g] = "passed" => \A d \in Asked : visit[g][d] = "ok"
    BY DEF VisitInv
  <2>1. CASE g = e
    BY <1>1, <2>1
  <2>2. CASE g # e
    BY <1>0, <1>1, <2>2 DEF VisitInv
  <2> QED
    BY <2>1, <2>2
<1>6. AnswerInv'
  BY <1>0 DEF AnswerInv, dnsVars
<1> QED
  BY <1>2, <1>3, <1>4, <1>5, <1>6 DEF SearchInv

(* The progress of a test that has not ended, and of visits.               *)
LEMMA TestKeeps ==
  ASSUME SearchInv, NEW e \in Entries,
         tst' \in [Entries -> {"idle", "make", "run", "passed", "failed"}],
         visit' \in [Entries -> [Domains -> VisitStates]],
         \A g \in Entries : g # e => tst'[g] = tst[g] /\ visit'[g] = visit[g],
         (tst[e] = "make" /\ tst'[e] = "run") \/ (tst[e] \in {"run", "failed"} /\ tst'[e] = tst[e]),
         \A d \in Domains : visit[e][d] \in {"ok", "err"} => visit'[e][d] = visit[e][d],
         \A d \in Domains : tst[e] # "make" /\ visit[e][d] = "idle" /\ kind = "dialers" => visit'[e][d] = "idle",
         kind = "resolvers" => \A d \in Domains :
           /\ visit'[e][d] = "ok" => Trustworthy(class[e], behaviour[e])
           /\ visit'[e][d] = "cname" => class[e] = "plain" /\ AddressOk(AddressAnswer(behaviour[e])),
         UNCHANGED <<kind, race, winner, next, toTest, waitCh, results, dnsVars>>
  PROVE  SearchInv'
<1>0. SearchTypeOK /\ StartInv /\ QueueInv /\ VisitInv /\ AnswerInv
  BY DEF SearchInv
<1>1. \A g \in Entries : /\ tst'[g] = tst[g] \/ (tst[g] = "make" /\ tst'[g] = "run")
                         /\ tst'[g] = "passed" <=> tst[g] = "passed"
                         /\ tst'[g] = "failed" <=> tst[g] = "failed"
                         /\ tst'[g] = "idle" <=> tst[g] = "idle"
  OBVIOUS
<1>2. SearchTypeOK'
  BY <1>0 DEF SearchTypeOK, dnsVars
<1>3. StartInv'
  BY <1>0, <1>1 DEF StartInv
<1>4. QueueInv'
  <2>1. \A i \in 1..Len(results) : results[i] \in Entries
    BY <1>0, ElementOfSeq DEF SearchTypeOK
  <2>2. \A g \in Entries : Ended(g)' <=> Ended(g)
    BY <1>1 DEF Ended
  <2>3. \A g \in Entries : Queued(g)' <=> Queued(g)
    BY DEF Queued
  <2>4. Taken' = Taken /\ Taken \subseteq Entries
    BY <2>2, <2>3 DEF Taken
  <2> QED
    BY <1>0, <1>1, <2>1, <2>2, <2>4 DEF QueueInv
<1>5. VisitInv'
  <2> SUFFICES ASSUME NEW g \in Entries
               PROVE  /\ tst'[g] \in {"idle", "make"} => \A d \in Domains : visit'[g][d] = "idle"
                      /\ kind = "dialers" /\ tst'[g] = "passed" => \A d \in Domains : visit'[g][d] = "ok"
                      /\ kind = "dialers" /\ tst'[g] = "failed" =>
                           \E d \in Domains : visit'[g][d] \in {"err", "idle"}
                      /\ kind = "resolvers" /\ tst'[g] = "passed" => \A d \in Asked : visit'[g][d] = "ok"
    BY DEF VisitInv
  <2>1. CASE g = e
    BY <1>0, <2>1 DEF VisitInv
  <2>2. CASE g # e
    BY <1>0, <2>2 DEF VisitInv
  <2> QED
    BY <2>1, <2>2
<1>6. AnswerInv'
  BY <1>0 DEF AnswerInv, dnsVars
<1> QED
  BY <1>2, <1>3, <1>4, <1>5, <1>6 DEF SearchInv

(* The next test is started.                                               *)
LEMMA StartTestKeeps == ASSUME SearchInv, StartTest, UNCHANGED dnsVars PROVE SearchInv'
<1>0. SearchTypeOK /\ StartInv /\ QueueInv /\ VisitInv /\ AnswerInv
  BY DEF SearchInv
<1>1. next + 1 \in Entries /\ next' = next + 1 /\ next \in Nat /\ NumEntries \in Nat
  <2>1. NumEntries \in Nat /\ next \in 0..NumEntries /\ toTest \in 0..NumEntries
    BY <1>0, SearchAssumption DEF SearchTypeOK
  <2>2. toTest > 0 /\ waitCh # "nil" /\ next' = next + 1
    BY DEF StartTest, WaitOver
  <2>3. next < NumEntries
    BY <1>0, <2>1, <2>2 DEF StartInv
  <2>4. next \in Nat /\ next + 1 \in 1..NumEntries
    BY <2>1, <2>3
  <2> QED
    BY <2>1, <2>2, <2>4 DEF Entries
<1>2. PICK e \in Entries : e = next + 1 /\ tst' = [tst EXCEPT ![e] = "make"] /\ tst[e] = "idle"
  <2>1. next + 1 > next
    BY <1>1
  <2>2. tst[next + 1] = "idle"
    BY <1>0, <1>1, <2>1 DEF StartInv
  <2>3. tst' = [tst EXCEPT ![next + 1] = "make"]
    BY DEF StartTest
  <2> QED
    BY <1>1, <2>2, <2>3, Zenon
<1>3. /\ tst' \in [Entries -> {"idle", "make", "run", "passed", "failed"}]
      /\ tst'[e] = "make" /\ \A g \in Entries : g # e => tst'[g] = tst[g]
  BY <1>0, <1>2 DEF SearchTypeOK
<1>4. SearchTypeOK'
  <2>1. next' \in 0..NumEntries
    BY <1>1 DEF Entries
  <2>2. waitCh' \in {"ready", "timer", "nil"}
    BY DEF StartTest
  <2>3. UNCHANGED <<kind, race, winner, toTest, results, visit, class, behaviour>>
    BY DEF StartTest, dnsVars
  <2> QED
    BY <1>0, <1>3, <2>1, <2>2, <2>3 DEF SearchTypeOK
<1>5. StartInv'
  <2>1. waitCh' # "nil" => next' < NumEntries
    BY <1>1 DEF StartTest, Entries
  <2>2. ASSUME NEW g \in Entries PROVE g > next' <=> tst'[g] = "idle"
    <3>1. CASE g = e
      BY <1>1, <1>2, <1>3, <3>1
    <3>2. CASE g # e
      BY <1>0, <1>1, <1>2, <1>3, <3>2 DEF StartInv, Entries
    <3> QED
      BY <3>1, <3>2
  <2> QED
    BY <2>1, <2>2 DEF StartInv
<1>6. QueueInv'
  <2>1. \A i \in 1..Len(results) : results[i] \in Entries
    BY <1>0, ElementOfSeq DEF SearchTypeOK
  <2>2. \A g \in Entries : (Ended(g)' <=> Ended(g)) /\ (Ended(g) => tst'[g] = tst[g])
    BY <1>2, <1>3 DEF Ended
  <2>3. UNCHANGED <<results, toTest, race, winner>>
    BY DEF StartTest
  <2>4. \A g \in Entries : Queued(g)' <=> Queued(g)
    BY <2>3 DEF Queued
  <2>5. Taken' = Taken /\ \A g \in Taken : g \in Entries /\ Ended(g)
    BY <2>2, <2>4 DEF Taken
  <2>6. race = "won" => Ended(winner)
    BY <1>0 DEF QueueInv, Ended
  <2> QED
    BY <1>0, <2>1, <2>2, <2>3, <2>5, <2>6 DEF QueueInv
<1>7. VisitInv'
  <2>1. UNCHANGED <<kind, visit>>
    BY DEF StartTest
  <2> SUFFICES ASSUME NEW g \in Entries
               PROVE  /\ tst'[g] \in {"idle", "make"} => \A d \in Domains : visit[g][d] = "idle"
                      /\ kind = "dialers" /\ tst'[g] = "passed" => \A d \in Domains : visit[g][d] = "ok"
                      /\ kind = "dialers" /\ tst'[g] = "failed" =>
                           \E d \in Domains : visit[g][d] \in {"err", "idle"}
                      /\ kind = "resolvers" /\ tst'[g] = "passed" => \A d \in Asked : visit[g][d] = "ok"
    BY <2>1 DEF VisitInv
  <2>2. CASE g = e
    BY <1>0, <1>2, <1>3, <2>2 DEF VisitInv
  <2>3. CASE g # e
    BY <1>0, <1>3, <2>3 DEF VisitInv
  <2> QED
    BY <2>2, <2>3
<1>8. AnswerInv'
  BY <1>0 DEF AnswerInv, dnsVars, StartTest
<1> QED
  BY <1>4, <1>5, <1>6, <1>7, <1>8 DEF SearchInv

(* There are finitely many entries.                                        *)
LEMMA TakenIsFinite == IsFiniteSet(Taken) /\ IsFiniteSet(Entries) /\ Cardinality(Entries) = NumEntries
<1>1. IsFiniteSet(Entries) /\ Cardinality(Entries) = NumEntries
  BY SearchAssumption, FS_Interval DEF Entries
<1>2. Taken \in SUBSET Entries
  BY DEF Taken
<1> QED
  BY <1>1, <1>2, FS_Subset

(* The result that is taken counts once.                                   *)
LEMMA TakeResultKeeps == ASSUME SearchInv, TakeResult, UNCHANGED dnsVars PROVE SearchInv'
<1>0. SearchTypeOK /\ StartInv /\ QueueInv /\ VisitInv /\ AnswerInv
  BY DEF SearchInv
<1>1. results \in Seq(Entries) /\ results # <<>>
  BY <1>0 DEF TakeResult, SearchTypeOK
<1>2. PICK h \in Entries :
        /\ h = results[1] /\ h = Head(results) /\ Len(results) \in Nat /\ Len(results) > 0
        /\ results' \in Seq(Entries) /\ Len(results') = Len(results) - 1
        /\ \A i \in 1..Len(results') : results'[i] = results[i + 1]
  BY <1>1, HeadTailProperties, EmptySeq DEF TakeResult
<1>3. /\ toTest > 0 /\ toTest' = toTest - 1 /\ race = "open"
      /\ IF tst[h] = "passed" THEN race' = "won" /\ winner' = h ELSE UNCHANGED <<race, winner>>
      /\ UNCHANGED <<kind, next, waitCh, parent, tst, visit, tripped>>
  BY <1>2 DEF TakeResult
<1>4. SearchTypeOK'
  <2>1. race' \in {"open", "won", "failed", "cancelled"} /\ winner' \in Nat
    BY <1>0, <1>2, <1>3 DEF SearchTypeOK, Entries
  <2>2. toTest' \in 0..NumEntries
    BY <1>0, <1>3, SearchAssumption DEF SearchTypeOK
  <2> QED
    BY <1>0, <1>2, <1>3, <2>1, <2>2 DEF SearchTypeOK, dnsVars
<1>5. StartInv'
  BY <1>0, <1>3 DEF StartInv
<1>6. QueueInv'
  <2>1. \A i \in 1..Len(results') : i + 1 \in 1..Len(results) /\ i + 1 # 1
    BY <1>2
  <2>2. \A i \in 1..Len(results) : i = 1 \/ i - 1 \in 1..Len(results')
    BY <1>2
  <2>3. Ended(h) /\ Queued(h) /\ 1 \in 1..Len(results)
    BY <1>0, <1>2 DEF QueueInv, Queued
  <2>4. ~\E i \in 1..Len(results') : results'[i] = h
    BY <1>0, <1>2, <2>1, <2>3 DEF QueueInv
  <2>5. ASSUME NEW g \in Entries, g # h PROVE Queued(g)' <=> Queued(g)
    <3>1. ASSUME NEW i \in 1..Len(results), results[i] = g PROVE Queued(g)'
      <4>1. i - 1 \in 1..Len(results') /\ i - 1 + 1 = i
        BY <1>2, <2>2, <2>5, <3>1
      <4> QED
        BY <1>2, <3>1, <4>1 DEF Queued
    <3>2. ASSUME NEW i \in 1..Len(results'), results'[i] = g PROVE Queued(g)
      BY <1>2, <2>1, <3>2 DEF Queued
    <3> QED
      BY <3>1, <3>2 DEF Queued
  <2>6. Taken' = Taken \cup {h} /\ h \notin Taken
    BY <1>3, <2>3, <2>4, <2>5 DEF Taken, Queued, Ended
  <2>7. Cardinality(Taken') = Cardinality(Taken) + 1
    BY <2>6, TakenIsFinite, FS_AddElement
  <2>8. Cardinality(Taken') = NumEntries - toTest'
    <3>1. Cardinality(Taken) = NumEntries - toTest /\ toTest \in Nat /\ NumEntries \in Nat
      BY <1>0, SearchAssumption DEF QueueInv, SearchTypeOK
    <3> QED
      BY <1>3, <2>7, <3>1
  <2>9. \A i \in 1..Len(results') : tst[results'[i]] \in {"passed", "failed"}
    BY <1>0, <1>2, <2>1 DEF QueueInv, Ended
  <2>10. ASSUME NEW i \in 1..Len(results'), NEW j \in 1..Len(results'), results'[i] = results'[j]
         PROVE  i = j
    <3>1. i + 1 = j + 1
      BY <1>0, <1>2, <2>1, <2>10, SMTT(30) DEF QueueInv
    <3> QED
      BY <3>1
  <2>11. race' = "open" => \A g \in Taken' : tst[g] = "failed"
    BY <1>0, <1>3, <2>3, <2>6 DEF QueueInv, Ended
  <2>12. race' = "won" => winner' \in Entries /\ tst[winner'] = "passed"
    BY <1>3
  <2> QED
    BY <1>3, <2>8, <2>9, <2>10, <2>11, <2>12 DEF QueueInv, Ended
<1>7. VisitInv'
  BY <1>0, <1>3 DEF VisitInv
<1>8. AnswerInv'
  BY <1>0, <1>3 DEF AnswerInv, dnsVars
<1> QED
  BY <1>4, <1>5, <1>6, <1>7, <1>8 DEF SearchInv

(* The race ends without a winner, or nothing of the tests changes.        *)
LEMMA QuietKeeps ==
  ASSUME SearchInv,
         \/ Quit \/ Exhausted \/ WaitExpires \/ CallerCancels
         \/ UNCHANGED raceVars,
         UNCHANGED dnsVars
  PROVE  SearchInv'
<1>0. SearchTypeOK /\ StartInv /\ QueueInv /\ VisitInv /\ AnswerInv
  BY DEF SearchInv
<1>1. /\ UNCHANGED <<kind, winner, next, toTest, tst, results, visit, class, behaviour>>
      /\ race' = race \/ race' \in {"cancelled", "failed"}
      /\ waitCh' = waitCh \/ (waitCh = "timer" /\ waitCh' = "ready")
  BY DEF Quit, Exhausted, WaitExpires, CallerCancels, raceVars, dnsVars
<1>2. SearchTypeOK'
  BY <1>0, <1>1 DEF SearchTypeOK
<1>3. StartInv'
  BY <1>0, <1>1 DEF StartInv
<1>4. QueueInv'
  <2>1. Taken' = Taken
    BY <1>1 DEF Taken, Ended, Queued
  <2>2. \A g : Ended(g)' <=> Ended(g)
    BY <1>1 DEF Ended
  <2> QED
    BY <1>0, <1>1, <2>1, <2>2 DEF QueueInv
<1>5. VisitInv' /\ AnswerInv'
  BY <1>0, <1>1 DEF VisitInv, AnswerInv
<1> QED
  BY <1>2, <1>3, <1>4, <1>5 DEF SearchInv

(* There is a domain to ask for.                                           *)
LEMMA Nonempty == Domains # {} /\ \A d \in Asked : d \in Domains
BY SearchAssumption

(* The answers tell: what an unauthenticated resolver answers well to both *)
(* questions, or what the system's resolver looks up, is not forged.       *)
LEMMA AnswersTell ==
  ASSUME NEW b \in Behaviours
  PROVE  /\ AddressOk(AddressAnswer(b)) /\ CnameOk(CnameAnswer(b)) => Trustworthy("plain", b)
         /\ SystemOk(AddressAnswer(b)) => Trustworthy("system", b)
         /\ Trustworthy("secure", b)
<1>1. AddressOk(AddressAnswer(b)) => b \notin {"refused", "blank", "private", "lowercase"}
  <2>1. ~AddressOk(Response("failure", <<>>, 0))
    BY DEF AddressOk, Response
  <2>2. Addresses(<<>>) = {}
    BY DEF Addresses
  <2>3. ~AddressOk(Response("success", <<>>, 0))
    BY <2>2 DEF AddressOk, Response
  <2>4. ~AddressOk(Response("success", <<Record("A", "asked", "private")>>, 0))
    BY DEF AddressOk, Response, Record, Addresses, Public
  <2>5. ~AddressOk(Response("success", <<Record("A", "lower", "public")>>, 0))
    BY DEF AddressOk, Response, Record
  <2> QED
    BY <2>1, <2>3, <2>4, <2>5 DEF AddressAnswer
<1>2. CnameOk(CnameAnswer(b)) => b \notin {"forger", "bare"}
  <2>1. ~CnameOk(Response("success", <<Record("A", "asked", "public")>>, 0))
    BY DEF CnameOk, Response, Record
  <2>2. ~CnameOk(Response("success", <<>>, 0))
    BY DEF CnameOk, Response
  <2> QED
    BY <2>1, <2>2 DEF CnameAnswer
<1>3. SystemOk(AddressAnswer(b)) => b \notin {"refused", "blank", "private"}
  <2>1. ~SystemOk(Response("failure", <<>>, 0))
    BY DEF SystemOk, Response
  <2>2. Addresses(<<>>) = {}
    BY DEF Addresses
  <2>3. ~SystemOk(Response("success", <<>>, 0))
    BY <2>2 DEF SystemOk, Response
  <2>4. ~SystemOk(Response("success", <<Record("A", "asked", "private")>>, 0))
    BY DEF SystemOk, Response, Record, Addresses, Public
  <2> QED
    BY <2>1, <2>3, <2>4 DEF AddressAnswer
<1> QED
  BY <1>1, <1>2, <1>3 DEF Trustworthy, Behaviours

(* Nothing has started and every result is awaited.                        *)
LEMMA SearchInitial == SearchInit => SearchInv
<1> SUFFICES ASSUME SearchInit PROVE SearchInv
  OBVIOUS
<1> USE DEF SearchInit, RaceInit
<1>1. SearchTypeOK
  <2>1. class \in [Entries -> Classes] /\ behaviour \in [Entries -> Behaviours]
    <3>1. PICK odd \in Entries, c \in Classes, b \in Behaviours :
            /\ class = [e \in Entries |-> IF e = odd THEN c ELSE "plain"]
            /\ behaviour = [e \in Entries |-> IF e = odd THEN b ELSE "honest"]
      BY DEF DnsInit
    <3>2. "plain" \in Classes /\ "honest" \in Behaviours
      BY DEF Classes, Behaviours
    <3> QED
      BY <3>1, <3>2
  <2>2. tst \in [Entries -> {"idle", "make", "run", "passed", "failed"}]
    OBVIOUS
  <2>3. visit \in [Entries -> [Domains -> VisitStates]]
    BY DEF VisitStates
  <2>4. results \in Seq(Entries)
    OBVIOUS
  <2>5. next \in 0..NumEntries /\ toTest \in 0..NumEntries
    BY SearchAssumption
  <2> QED
    BY <2>1, <2>2, <2>3, <2>4, <2>5 DEF SearchTypeOK
<1>2. StartInv
  BY SearchAssumption DEF StartInv, Entries
<1>3. QueueInv
  <2>1. Taken = {} /\ Len(results) = 0
    BY DEF Taken, Ended
  <2>2. Cardinality(Taken) = 0
    BY <2>1, FS_EmptySet
  <2> QED
    BY <2>1, <2>2, SearchAssumption DEF QueueInv
<1>4. VisitInv /\ AnswerInv
  BY DEF VisitInv, AnswerInv
<1> QED
  BY <1>1, <1>2, <1>3, <1>4 DEF SearchInv

(* The search moves by the loop, by the end of a test or by its progress.  *)
LEMMA VisitEffect ==
  ASSUME SearchTypeOK, NEW e \in Entries, NEW d \in Domains, NEW v \in VisitStates,
         visit' = [visit EXCEPT ![e][d] = v]
  PROVE  /\ visit' \in [Entries -> [Domains -> VisitStates]]
         /\ visit'[e][d] = v
         /\ \A o \in Domains : o # d => visit'[e][o] = visit[e][o]
         /\ \A g \in Entries : g # e => visit'[g] = visit[g]
BY DEF SearchTypeOK

(* A step of the test of a dialer.                                         *)
LEMMA DialerTestKeeps == ASSUME SearchInv, DialerTest, UNCHANGED dnsVars PROVE SearchInv'
<1>0. SearchTypeOK /\ VisitInv
  BY DEF SearchInv
<1>1. kind = "dialers"
  BY DEF DialerTest, MakeFails, Visits, TestEnds, Dialled, Secured, Answered, VisitFails, VisitStep
<1>2. ASSUME NEW e \in Entries, MakeFails(e) PROVE SearchInv'
  <2>1. \E d \in Domains : visit[e][d] \in {"err", "idle"}
    BY <1>0, <1>2, Nonempty DEF VisitInv, MakeFails
  <2> QED
    BY <1>1, <1>2, <2>1, EndKeeps DEF MakeFails
<1>3. ASSUME NEW e \in Entries, TestEnds(e) PROVE SearchInv'
  <2>1. PICK r \in {"passed", "failed"} :
          /\ EndTest(e, r)
          /\ r = "passed" => \A d \in Domains : visit[e][d] = "ok"
          /\ r = "failed" => \E d \in Domains : visit[e][d] \in {"err", "idle"}
    BY <1>3 DEF TestEnds
  <2> QED
    BY <1>1, <1>3, <2>1, EndKeeps DEF TestEnds
<1>4. ASSUME NEW e \in Entries, Visits(e) PROVE SearchInv'
  <2>1. /\ tst[e] = "make" /\ tst' = [tst EXCEPT ![e] = "run"]
        /\ visit' = [visit EXCEPT ![e] = [d \in Domains |-> "dial"]]
        /\ UNCHANGED <<kind, race, winner, next, toTest, waitCh, results>>
    BY <1>4 DEF Visits
  <2>2. /\ tst' \in [Entries -> {"idle", "make", "run", "passed", "failed"}]
        /\ tst'[e] = "run" /\ \A g \in Entries : g # e => tst'[g] = tst[g]
    BY <1>0, <2>1 DEF SearchTypeOK
  <2>3. [d \in Domains |-> "dial"] \in [Domains -> VisitStates]
    BY DEF VisitStates
  <2>4. /\ visit' \in [Entries -> [Domains -> VisitStates]]
        /\ \A g \in Entries : g # e => visit'[g] = visit[g]
    BY <1>0, <2>1, <2>3 DEF SearchTypeOK
  <2>5. \A d \in Domains : visit[e][d] = "idle"
    BY <1>0, <2>1 DEF VisitInv
  <2> QED
    BY <1>1, <2>1, <2>2, <2>4, <2>5, TestKeeps
<1>5. ASSUME NEW e \in Entries, NEW d \in Domains,
             Dialled(e, d) \/ Secured(e, d) \/ Answered(e, d) \/ VisitFails(e, d)
      PROVE  SearchInv'
  <2>1. PICK v \in {"handshake", "read", "ok", "err"} : visit' = [visit EXCEPT ![e][d] = v]
    BY <1>5 DEF Dialled, Secured, Answered, VisitFails, VisitStep
  <2>2. /\ visit[e][d] \in {"dial", "handshake", "read"}
        /\ UNCHANGED <<kind, race, winner, next, toTest, waitCh, tst, results>>
    BY <1>5 DEF Dialled, Secured, Answered, VisitFails, VisitStep
  <2>3. /\ visit' \in [Entries -> [Domains -> VisitStates]]
        /\ visit'[e][d] = v
        /\ \A o \in Domains : o # d => visit'[e][o] = visit[e][o]
        /\ \A g \in Entries : g # e => visit'[g] = visit[g]
    <3>1. v \in VisitStates
      BY DEF VisitStates
    <3>2. SearchTypeOK
      BY <1>0
    <3> QED
      BY <2>1, <3>1, <3>2, VisitEffect, Zenon
  <2>4. tst[e] \in {"run", "failed"}
    BY <1>0, <1>1, <2>2 DEF SearchTypeOK, VisitInv
  <2>5. tst' \in [Entries -> {"idle", "make", "run", "passed", "failed"}]
    BY <1>0, <2>2 DEF SearchTypeOK
  <2>6. \A o \in Domains : visit[e][o] \in {"ok", "err", "idle"} => visit'[e][o] = visit[e][o]
    BY <2>2, <2>3
  <2> QED
    BY <1>1, <2>2, <2>3, <2>4, <2>5, <2>6, TestKeeps
<1> QED
  BY <1>2, <1>3, <1>4, <1>5 DEF DialerTest

(* A step of the test of a resolver.                                       *)
LEMMA ResolverTestKeeps == ASSUME SearchInv, ResolverTest, UNCHANGED dnsVars PROVE SearchInv'
<1>0. SearchTypeOK /\ VisitInv /\ AnswerInv
  BY DEF SearchInv
<1>1. kind = "resolvers"
  BY DEF ResolverTest, Begin, Resolved, StopsAtDomain, Asks, GetsNothing, AddressArrives,
         CnameArrives, AtDomain
<1>2. ASSUME NEW e \in Entries, Begin(e) PROVE SearchInv'
  <2>1. /\ tst[e] = "make" /\ tst' = [tst EXCEPT ![e] = "run"]
        /\ UNCHANGED <<kind, race, winner, next, toTest, waitCh, results, visit>>
    BY <1>2 DEF Begin
  <2>2. /\ tst' \in [Entries -> {"idle", "make", "run", "passed", "failed"}]
        /\ tst'[e] = "run" /\ \A g \in Entries : g # e => tst'[g] = tst[g]
    BY <1>0, <2>1 DEF SearchTypeOK
  <2>3. \A d \in Domains : visit[e][d] = "idle"
    BY <1>0, <2>1 DEF VisitInv
  <2>4. visit' \in [Entries -> [Domains -> VisitStates]]
    BY <1>0, <2>1 DEF SearchTypeOK
  <2> QED
    BY <1>1, <2>1, <2>2, <2>3, <2>4, TestKeeps
<1>3. ASSUME NEW e \in Entries, Resolved(e) PROVE SearchInv'
  BY <1>1, <1>3, EndKeeps DEF Resolved
<1>4. ASSUME NEW e \in Entries, tst[e] = "run", FailTest(e) PROVE SearchInv'
  BY <1>1, <1>4, EndKeeps DEF FailTest
<1>5. ASSUME NEW e \in Entries, NEW d \in Domains, NEW v \in VisitStates, tst[e] = "run", To(e, d, v),
             visit[e][d] \in {"idle", "address", "cname"},
             v = "ok" => Trustworthy(class[e], behaviour[e]),
             v = "cname" => class[e] = "plain" /\ AddressOk(AddressAnswer(behaviour[e]))
      PROVE  SearchInv'
  <2>1. /\ visit' = [visit EXCEPT ![e][d] = v]
        /\ UNCHANGED <<kind, race, winner, next, toTest, waitCh, tst, results>>
    BY <1>5 DEF To
  <2>2. /\ visit' \in [Entries -> [Domains -> VisitStates]]
        /\ visit'[e][d] = v
        /\ \A o \in Domains : o # d => visit'[e][o] = visit[e][o]
        /\ \A g \in Entries : g # e => visit'[g] = visit[g]
    <3>1. SearchTypeOK
      BY <1>0
    <3> QED
      BY <2>1, <3>1, VisitEffect, Zenon
  <2>3. tst' \in [Entries -> {"idle", "make", "run", "passed", "failed"}]
    BY <1>0, <2>1 DEF SearchTypeOK
  <2>4. \A o \in Domains : visit[e][o] \in {"ok", "err"} => visit'[e][o] = visit[e][o]
    BY <1>5, <2>2
  <2>5. \A o \in Domains :
           /\ visit'[e][o] = "ok" => Trustworthy(class[e], behaviour[e])
           /\ visit'[e][o] = "cname" => class[e] = "plain" /\ AddressOk(AddressAnswer(behaviour[e]))
    BY <1>0, <1>1, <1>5, <2>2 DEF AnswerInv
  <2> QED
    BY <1>1, <1>5, <2>1, <2>2, <2>3, <2>4, <2>5, TestKeeps
<1>6. ASSUME NEW e \in Entries, NEW d \in Asked,
             \/ StopsAtDomain(e, d) \/ Asks(e, d) \/ GetsNothing(e, d)
             \/ AddressArrives(e, d) \/ CnameArrives(e, d)
      PROVE  SearchInv'
  <2>1. d \in Domains /\ tst[e] = "run"
    BY <1>6, Nonempty DEF StopsAtDomain, Asks, GetsNothing, AddressArrives, CnameArrives, AtDomain
  <2>2. class[e] \in Classes /\ behaviour[e] \in Behaviours
    BY <1>0 DEF SearchTypeOK
  <2>3. CASE FailTest(e)
    BY <1>4, <2>1, <2>3
  <2>4. CASE Asks(e, d)
    <3>1. visit[e][d] = "idle" /\ To(e, d, "address") /\ "address" \in VisitStates
      BY <2>4 DEF Asks, VisitStates
    <3> QED
      BY <1>5, <2>1, <3>1
  <2>5. CASE AddressArrives(e, d) /\ ~FailTest(e)
    <3>1. PICK v \in {"ok", "cname"} :
            /\ To(e, d, v) /\ visit[e][d] = "address"
            /\ v = "ok" => class[e] = "secure" \/ (class[e] = "system" /\ SystemOk(AddressAnswer(behaviour[e])))
            /\ v = "cname" => class[e] = "plain" /\ AddressOk(AddressAnswer(behaviour[e]))
      BY <2>5 DEF AddressArrives
    <3>2. v = "ok" => Trustworthy(class[e], behaviour[e])
      BY <2>2, <3>1, AnswersTell
    <3>3. v \in VisitStates
      BY DEF VisitStates
    <3> QED
      BY <1>5, <2>1, <3>1, <3>2, <3>3
  <2>6. CASE CnameArrives(e, d) /\ ~FailTest(e)
    <3>1. To(e, d, "ok") /\ visit[e][d] = "cname" /\ CnameOk(CnameAnswer(behaviour[e]))
      BY <2>6 DEF CnameArrives
    <3>2. class[e] = "plain" /\ AddressOk(AddressAnswer(behaviour[e]))
      BY <1>0, <1>1, <2>1, <3>1 DEF AnswerInv
    <3>3. Trustworthy(class[e], behaviour[e]) /\ "ok" \in VisitStates
      BY <2>2, <3>1, <3>2, AnswersTell DEF VisitStates
    <3> QED
      BY <1>5, <2>1, <3>1, <3>3
  <2> QED
    BY <1>6, <2>3, <2>4, <2>5, <2>6 DEF StopsAtDomain, GetsNothing
<1> QED
  BY <1>2, <1>3, <1>6 DEF ResolverTest

(* The inductive invariant of the search for a resolver.                   *)
THEOREM SearchInvariance == SearchSpec => []SearchInv
<1>1. SearchInv /\ [SearchNext]_<<raceVars, dnsVars>> => SearchInv'
  <2> SUFFICES ASSUME SearchInv, [SearchNext]_<<raceVars, dnsVars>> PROVE SearchInv'
    OBVIOUS
  <2>1. CASE SearchNext
    BY <2>1, StartTestKeeps, TakeResultKeeps, QuietKeeps, DialerTestKeeps, ResolverTestKeeps
       DEF SearchNext, Loop
  <2>2. CASE UNCHANGED <<raceVars, dnsVars>>
    BY <2>2, QuietKeeps
  <2> QED
    BY <2>1, <2>2
<1> QED
  BY <1>1, SearchInitial, PTL DEF SearchSpec

(* A resolver that wins the race of x/smart (testDNSResolver) is one whose *)
(* answers can be used: nobody selects an unauthenticated resolver whose   *)
(* answers are forged, rewritten or empty, for any number of entries and   *)
(* test domains and whatever the order of the answers.                     *)
THEOREM ResolverIsVetted == SearchSpec => []ResolverVetted
<1>1. SearchInv => ResolverVetted
  <2> SUFFICES ASSUME SearchInv, kind = "resolvers", race = "won"
               PROVE  Trustworthy(class[winner], behaviour[winner])
    BY DEF ResolverVetted
  <2>1. winner \in Entries /\ tst[winner] = "passed"
    BY DEF SearchInv, QueueInv
  <2>2. PICK d \in Asked : visit[winner][d] = "ok"
    BY <2>1, SearchAssumption DEF SearchInv, VisitInv
  <2> QED
    BY <2>1, <2>2, Nonempty DEF SearchInv, AnswerInv
<1> QED
  BY <1>1, SearchInvariance, PTL

-----------------------------------------------------------------------------
(***************************************************************************)
(* SmartRace: the race implements the contract of RaceContract.            *)
(***************************************************************************)
(* The verdict of an entry, by what is raced.                              *)
LEMMA VerdictIs ==
  ASSUME SearchTypeOK, VisitInv, NEW e \in Entries
  PROVE  /\ kind = "resolvers" =>
              Verdict(e) = IF tst[e] \in {"passed", "failed"} THEN tst[e] ELSE "none"
         /\ kind = "dialers" =>
              Verdict(e) = IF \E d \in Domains : visit[e][d] = "err" THEN "failed"
                           ELSE IF \A d \in Domains : visit[e][d] = "ok" THEN "passed"
                           ELSE IF tst[e] = "failed" THEN "failed" ELSE "none"
<1> DEFINE bad == \E d \in Domains : visit[e][d] = "err"
           good == \A d \in Domains : visit[e][d] = "ok"
<1>1. kind = "dialers" => (tst[e] = "failed" => ~good) /\ ~(bad /\ good)
  BY DEF VisitInv
<1>2. CASE kind = "resolvers"
  BY <1>2 DEF Verdict
<1>3. CASE kind = "dialers"
  <2> HIDE DEF bad, good
  <2>1. Verdict(e) = CASE tst[e] = "failed" -> "failed" [] bad -> "failed" [] good -> "passed"
                       [] OTHER -> "none"
    BY <1>3 DEF Verdict, bad, good
  <2> QED
    BY <1>1, <1>3, <2>1 DEF bad, good
<1> QED
  BY <1>2, <1>3 DEF SearchTypeOK

(* The same after a step.                                                  *)
LEMMA VerdictIsNext ==
  ASSUME SearchTypeOK', VisitInv', NEW e \in Entries
  PROVE  /\ kind' = "resolvers" =>
              Verdict(e)' = IF tst'[e] \in {"passed", "failed"} THEN tst'[e] ELSE "none"
         /\ kind' = "dialers" =>
              Verdict(e)' = IF \E d \in Domains : visit'[e][d] = "err" THEN "failed"
                            ELSE IF \A d \in Domains : visit'[e][d] = "ok" THEN "passed"
                            ELSE IF tst'[e] = "failed" THEN "failed" ELSE "none"
<1> DEFINE bad == \E d \in Domains : visit'[e][d] = "err"
           good == \A d \in Domains : visit'[e][d] = "ok"
<1>1. kind' = "dialers" => (tst'[e] = "failed" => ~good) /\ ~(bad /\ good)
  BY DEF VisitInv
<1>2. CASE kind' = "resolvers"
  BY <1>2 DEF Verdict
<1>3. CASE kind' = "dialers"
  <2> HIDE DEF bad, good
  <2>1. Verdict(e)' = CASE tst'[e] = "failed" -> "failed" [] bad -> "failed" [] good -> "passed"
                        [] OTHER -> "none"
    BY <1>3 DEF Verdict, bad, good
  <2> QED
    BY <1>1, <1>3, <2>1 DEF bad, good
<1> QED
  BY <1>2, <1>3 DEF SearchTypeOK

(* A step that gives at most one entry its verdict, and nothing else.      *)
LEMMA OneVerdict ==
  ASSUME SearchTypeOK, NEW e \in Entries, \A g \in Entries : g # e => Verdict(g)' = Verdict(g),
         \/ Verdict(e)' = Verdict(e)
         \/ Verdict(e) = "none" /\ Verdict(e)' \in {"passed", "failed"},
         UNCHANGED <<race, winner>>
  PROVE  [Contract!ContractNext]_(Contract!contractVars)
<1> DEFINE V == [g \in Entries |-> Verdict(g)]
<1>1. CASE Verdict(e)' = Verdict(e)
  <2>1. V' = V
    BY <1>1
  <2> QED
    BY <2>1 DEF Contract!contractVars
<1>2. CASE Verdict(e) = "none" /\ Verdict(e)' \in {"passed", "failed"}
  <2>1. V' = [V EXCEPT ![e] = Verdict(e)']
    BY Zenon
  <2>2. V[e] = "none"
    BY <1>2
  <2>3. Contract!Judge(e)
    BY <1>2, <2>1, <2>2 DEF Contract!Judge
  <2> QED
    BY <2>3 DEF Contract!ContractNext, Contract!RaceEntries, Entries
<1> QED
  BY <1>1, <1>2

(* The end of a test is when its verdict falls, or later.                  *)
LEMMA EndJudges ==
  ASSUME SearchInv, SearchInv', NEW e \in Entries, NEW r \in {"passed", "failed"}, EndTest(e, r),
         tst[e] \in {"make", "run"}, UNCHANGED <<kind, race, winner, visit>>,
         kind = "dialers" /\ r = "passed" => \A d \in Domains : visit[e][d] = "ok"
  PROVE  [Contract!ContractNext]_(Contract!contractVars)
<1>0. SearchTypeOK /\ VisitInv /\ SearchTypeOK' /\ VisitInv'
  BY DEF SearchInv
<1>1. tst'[e] = r /\ \A g \in Entries : g # e => tst'[g] = tst[g]
  BY <1>0, EndEffect
<1>2. ASSUME NEW g \in Entries, g # e PROVE Verdict(g)' = Verdict(g)
  BY <1>1, <1>2 DEF Verdict
<1>3. Verdict(e)' = Verdict(e) \/ (Verdict(e) = "none" /\ Verdict(e)' \in {"passed", "failed"})
  <2>1. CASE kind = "resolvers"
    BY <1>0, <1>1, <2>1, VerdictIs, VerdictIsNext
  <2>2. CASE kind = "dialers"
    BY <1>0, <1>1, <2>2, VerdictIs, VerdictIsNext
  <2> QED
    BY <1>0, <2>1, <2>2 DEF SearchTypeOK
<1> QED
  BY <1>0, <1>2, <1>3, OneVerdict

(* A step of the test of a dialer gives its verdict, or none.              *)
LEMMA DialerTestJudges ==
  ASSUME SearchInv, SearchInv', DialerTest
  PROVE  [Contract!ContractNext]_(Contract!contractVars)
<1>0. SearchTypeOK /\ VisitInv /\ SearchTypeOK' /\ VisitInv'
  BY DEF SearchInv
<1>1. kind = "dialers" /\ UNCHANGED <<kind, race, winner>>
  BY DEF DialerTest, MakeFails, Visits, TestEnds, Dialled, Secured, Answered, VisitFails, VisitStep
<1>2. ASSUME NEW e \in Entries, MakeFails(e) PROVE [Contract!ContractNext]_(Contract!contractVars)
  BY <1>2, EndJudges DEF MakeFails
<1>3. ASSUME NEW e \in Entries, TestEnds(e) PROVE [Contract!ContractNext]_(Contract!contractVars)
  <2>1. PICK r \in {"passed", "failed"} :
          EndTest(e, r) /\ (r = "passed" => \A d \in Domains : visit[e][d] = "ok")
    BY <1>3 DEF TestEnds
  <2> QED
    BY <1>3, <2>1, EndJudges DEF TestEnds
<1>4. ASSUME NEW e \in Entries, Visits(e) PROVE [Contract!ContractNext]_(Contract!contractVars)
  <2>1. /\ tst[e] = "make" /\ tst' = [tst EXCEPT ![e] = "run"]
        /\ visit' = [visit EXCEPT ![e] = [d \in Domains |-> "dial"]]
    BY <1>4 DEF Visits
  <2>2. /\ tst'[e] = "run" /\ \A d \in Domains : visit'[e][d] = "dial"
        /\ \A g \in Entries : g # e => tst'[g] = tst[g] /\ visit'[g] = visit[g]
    BY <1>0, <2>1 DEF SearchTypeOK
  <2>3. \A d \in Domains : visit[e][d] = "idle"
    BY <1>0, <2>1 DEF VisitInv
  <2>4. Verdict(e)' = "none" /\ Verdict(e) = "none"
    BY <1>0, <1>1, <2>1, <2>2, <2>3, Nonempty, VerdictIs, VerdictIsNext
  <2>5. \A g \in Entries : g # e => Verdict(g)' = Verdict(g)
    BY <1>1, <2>2 DEF Verdict
  <2> QED
    BY <1>0, <1>1, <2>4, <2>5, OneVerdict
<1>5. ASSUME NEW e \in Entries, NEW d \in Domains,
             Dialled(e, d) \/ Secured(e, d) \/ Answered(e, d) \/ VisitFails(e, d)
      PROVE  [Contract!ContractNext]_(Contract!contractVars)
  <2>1. PICK v \in {"handshake", "read", "ok", "err"} : visit' = [visit EXCEPT ![e][d] = v]
    BY <1>5 DEF Dialled, Secured, Answered, VisitFails, VisitStep
  <2>2. visit[e][d] \in {"dial", "handshake", "read"} /\ UNCHANGED tst
    BY <1>5 DEF Dialled, Secured, Answered, VisitFails, VisitStep
  <2>3. /\ visit'[e][d] = v
        /\ \A o \in Domains : o # d => visit'[e][o] = visit[e][o]
        /\ \A g \in Entries : g # e => visit'[g] = visit[g]
    <3>1. v \in VisitStates
      BY DEF VisitStates
    <3>2. SearchTypeOK
      BY <1>0
    <3> QED
      BY <2>1, <3>1, <3>2, VisitEffect, Zenon
  <2>4. \A g \in Entries : g # e => Verdict(g)' = Verdict(g)
    BY <1>1, <2>2, <2>3 DEF Verdict
  <2>5. /\ (\E o \in Domains : visit[e][o] = "err") => \E o \in Domains : visit'[e][o] = "err"
        /\ ~\A o \in Domains : visit[e][o] = "ok"
    BY <2>2, <2>3
  <2>6. Verdict(e)' = Verdict(e) \/ (Verdict(e) = "none" /\ Verdict(e)' \in {"passed", "failed"})
    <3>1. CASE \E o \in Domains : visit[e][o] = "err"
      BY <1>0, <1>1, <2>5, <3>1, VerdictIs, VerdictIsNext
    <3>2. CASE ~(\E o \in Domains : visit[e][o] = "err") /\ tst[e] # "failed"
      BY <1>0, <1>1, <2>2, <2>5, <3>2, VerdictIs, VerdictIsNext
    <3>3. CASE ~(\E o \in Domains : visit[e][o] = "err") /\ tst[e] = "failed"
      <4>1. \E o \in Domains : visit[e][o] = "idle"
        BY <1>0, <1>1, <3>3 DEF VisitInv
      <4>2. \E o \in Domains : visit'[e][o] = "idle"
        BY <2>2, <2>3, <4>1
      <4> QED
        BY <1>0, <1>1, <2>2, <2>5, <3>3, <4>2, VerdictIs, VerdictIsNext
    <3> QED
      BY <3>1, <3>2, <3>3
  <2> QED
    BY <1>0, <1>1, <2>4, <2>6, OneVerdict
<1> QED
  BY <1>2, <1>3, <1>4, <1>5 DEF DialerTest

(* A step of the test of a resolver gives its verdict, or none.            *)
LEMMA ResolverTestJudges ==
  ASSUME SearchInv, SearchInv', ResolverTest
  PROVE  [Contract!ContractNext]_(Contract!contractVars)
<1>0. SearchTypeOK /\ VisitInv /\ SearchTypeOK' /\ VisitInv'
  BY DEF SearchInv
<1>1. kind = "resolvers" /\ UNCHANGED <<kind, race, winner>>
  BY DEF ResolverTest, Begin, Resolved, StopsAtDomain, Asks, GetsNothing, AddressArrives,
         CnameArrives, AtDomain, To, FailTest
<1>2. ASSUME NEW e \in Entries, Begin(e) PROVE [Contract!ContractNext]_(Contract!contractVars)
  <2>1. tst[e] = "make" /\ tst' = [tst EXCEPT ![e] = "run"]
    BY <1>2 DEF Begin
  <2>2. tst'[e] = "run" /\ \A g \in Entries : g # e => tst'[g] = tst[g]
    BY <1>0, <2>1 DEF SearchTypeOK
  <2>3. \A g \in Entries : Verdict(g)' = Verdict(g)
    BY <1>0, <1>1, <2>1, <2>2, VerdictIs, VerdictIsNext
  <2> QED
    BY <1>0, <1>1, <2>3, OneVerdict
<1>3. ASSUME NEW e \in Entries, Resolved(e) PROVE [Contract!ContractNext]_(Contract!contractVars)
  BY <1>1, <1>3, EndJudges DEF Resolved
<1>4. ASSUME NEW e \in Entries, tst[e] = "run", FailTest(e)
      PROVE  [Contract!ContractNext]_(Contract!contractVars)
  BY <1>1, <1>4, EndJudges DEF FailTest
<1>5. ASSUME NEW e \in Entries, NEW d, NEW v, To(e, d, v)
      PROVE  [Contract!ContractNext]_(Contract!contractVars)
  <2>1. UNCHANGED tst
    BY <1>5 DEF To
  <2>2. \A g \in Entries : Verdict(g)' = Verdict(g)
    BY <1>0, <1>1, <2>1, VerdictIs, VerdictIsNext
  <2> QED
    BY <1>0, <1>1, <2>2, OneVerdict
<1>6. ASSUME NEW e \in Entries, NEW d \in Asked,
             \/ StopsAtDomain(e, d) \/ Asks(e, d) \/ GetsNothing(e, d)
             \/ AddressArrives(e, d) \/ CnameArrives(e, d)
      PROVE  tst[e] = "run" /\ (FailTest(e) \/ \E v \in VisitStates : To(e, d, v))
  BY <1>6 DEF StopsAtDomain, Asks, GetsNothing, AddressArrives, CnameArrives, AtDomain, VisitStates
<1> QED
  BY <1>2, <1>3, <1>4, <1>5, <1>6 DEF ResolverTest

(* The loop: the winner has passed, and a search that fails has judged all.*)
LEMMA LoopIsHonest ==
  ASSUME SearchInv, SearchInv', Loop
  PROVE  [Contract!ContractNext]_(Contract!contractVars)
<1> DEFINE V == [g \in Entries |-> Verdict(g)]
<1>0. SearchTypeOK /\ StartInv /\ QueueInv /\ VisitInv /\ SearchTypeOK' /\ VisitInv'
  BY DEF SearchInv
<1>1. CASE Quit \/ TakeResult \/ Exhausted
  <2>1. V' = V
    BY <1>1 DEF Quit, TakeResult, Exhausted, Verdict
  <2>2. CASE Quit
    <3>1. Contract!Cancel
      BY <2>1, <2>2 DEF Quit, Contract!Cancel
    <3> QED
      BY <3>1 DEF Contract!ContractNext
  <2>3. CASE TakeResult
    <3>1. PICK h \in Entries :
            /\ h = Head(results) /\ race = "open"
            /\ IF tst[h] = "passed" THEN race' = "won" /\ winner' = h ELSE UNCHANGED <<race, winner>>
      BY <1>0, <2>3, HeadTailProperties DEF TakeResult, SearchTypeOK
    <3>2. CASE tst[h] = "passed"
      <4>1. ~\E d \in Domains : visit[h][d] = "err" /\ kind = "dialers"
        BY <1>0, <3>2 DEF VisitInv
      <4>2. V[h] = "passed"
        BY <1>0, <3>2, <4>1, VerdictIs, SMTT(30) DEF SearchTypeOK, VisitInv
      <4>3. Contract!Win(h)
        BY <2>1, <3>1, <3>2, <4>2 DEF Contract!Win
      <4> QED
        BY <4>3 DEF Contract!ContractNext, Contract!RaceEntries, Entries
    <3>3. CASE tst[h] # "passed"
      BY <2>1, <3>1, <3>3 DEF Contract!contractVars
    <3> QED
      BY <3>2, <3>3
  <2>4. CASE Exhausted
    <3>1. Cardinality(Taken) = Cardinality(Entries) /\ race = "open"
      BY <1>0, <2>4, TakenIsFinite, SearchAssumption DEF Exhausted, QueueInv
    <3>2. Taken = Entries
      <4>1. Taken \in SUBSET Entries
        BY DEF Taken
      <4> QED
        BY <3>1, <4>1, TakenIsFinite, FS_Subset
    <3>3. \A g \in Entries : tst[g] = "failed"
      BY <1>0, <3>1, <3>2 DEF QueueInv
    <3>4. ASSUME NEW g \in Entries PROVE V[g] = "failed"
      <4>1. kind = "dialers" => ~\A d \in Domains : visit[g][d] = "ok"
        BY <1>0, <3>3 DEF VisitInv
      <4> QED
        BY <1>0, <3>3, <4>1, VerdictIs DEF SearchTypeOK
    <3>5. Contract!Lose
      BY <2>1, <2>4, <3>4 DEF Exhausted, Contract!Lose, Contract!RaceEntries, Entries
    <3> QED
      BY <3>5 DEF Contract!ContractNext
  <2> QED
    BY <1>1, <2>2, <2>3, <2>4
<1>2. CASE StartTest
  <2>1. UNCHANGED <<kind, race, winner, visit>>
    BY <1>2 DEF StartTest
  <2>2. /\ tst' = [tst EXCEPT ![next + 1] = "make"]
        /\ \A g \in Entries : g = next + 1 => tst[g] = "idle"
    <3>1. next \in 0..NumEntries
      BY <1>0 DEF SearchTypeOK
    <3>2. \A g \in Entries : g = next + 1 => g > next
      BY <3>1, SearchAssumption DEF Entries
    <3> QED
      BY <1>0, <1>2, <3>2 DEF StartTest, StartInv
  <2>3. \A g \in Entries : tst'[g] = tst[g] \/ (tst[g] = "idle" /\ tst'[g] = "make")
    BY <1>0, <2>2 DEF SearchTypeOK
  <2>4. ASSUME NEW g \in Entries PROVE Verdict(g)' = Verdict(g)
    <3>1. CASE tst'[g] = tst[g]
      BY <2>1, <3>1 DEF Verdict
    <3>2. CASE tst[g] = "idle" /\ tst'[g] = "make"
      BY <2>1, <3>2 DEF Verdict
    <3> QED
      BY <2>3, <3>1, <3>2
  <2>5. V' = V
    BY <2>4
  <2> QED
    BY <2>1, <2>5 DEF Contract!contractVars
<1> QED
  BY <1>1, <1>2 DEF Loop

(* raceTests of x/smart keeps the contract of a race: an entry is judged   *)
(* at most once, the winner is one whose test has passed, and the race     *)
(* fails only when the tests of all entries have failed, for any number of *)
(* entries and whatever is raced.                                          *)
THEOREM HonestRace == SearchSpec => IsHonestRace
<1>1. SearchInit => Contract!ContractInit
  <2> SUFFICES ASSUME SearchInit PROVE Contract!ContractInit
    OBVIOUS
  <2>1. SearchTypeOK /\ VisitInv
    BY SearchInitial DEF SearchInv
  <2>2. ASSUME NEW e \in Entries PROVE Verdict(e) = "none"
    <3>1. tst[e] = "idle" /\ \A d \in Domains : visit[e][d] = "idle"
      BY DEF SearchInit, RaceInit
    <3> QED
      BY <2>1, <3>1, Nonempty, VerdictIs DEF SearchTypeOK
  <2>3. race = "open" /\ winner = 0
    BY DEF SearchInit, RaceInit
  <2> QED
    BY <2>2, <2>3 DEF Contract!ContractInit, Contract!RaceEntries, Entries
<1>2. SearchInv /\ SearchInv' /\ [SearchNext]_<<raceVars, dnsVars>>
        => [Contract!ContractNext]_(Contract!contractVars)
  <2> SUFFICES ASSUME SearchInv, SearchInv', [SearchNext]_<<raceVars, dnsVars>>
               PROVE  [Contract!ContractNext]_(Contract!contractVars)
    OBVIOUS
  <2>1. CASE WaitExpires \/ CallerCancels \/ UNCHANGED <<raceVars, dnsVars>>
    <3>1. UNCHANGED <<kind, race, winner, tst, visit>>
      BY <2>1 DEF WaitExpires, CallerCancels, raceVars
    <3>2. \A g \in Entries : Verdict(g)' = Verdict(g)
      BY <3>1 DEF Verdict
    <3> QED
      BY <3>1, <3>2 DEF Contract!contractVars
  <2> QED
    BY <2>1, LoopIsHonest, DialerTestJudges, ResolverTestJudges DEF SearchNext
<1> QED
  BY <1>1, <1>2, SearchInvariance, PTL DEF SearchSpec, IsHonestRace, Contract!ContractSpec

-----------------------------------------------------------------------------
(***************************************************************************)
(* SmartFinder: a search finds only what has passed.                       *)
(***************************************************************************)
(* A configuration, its lists over the entries known.                      *)
ConfigRecs == [dns: Seq(KnownEntries), tls: Seq(KnownEntries), fallback: Seq(KnownEntries),
               hasFallback: BOOLEAN]
(* A strategy over the entries known.                                      *)
Strategies == [dns: Seq(KnownEntries), tls: Seq(KnownEntries), fallback: Seq(KnownEntries)]

(* At most one strategy.                                                   *)
AtMostOne == {{}} \cup {{w} : w \in Strategies}

(* Every variable keeps its type.                                          *)
FinderTypeOK ==
  /\ cache \in AtMostOne /\ tcpBase \in BOOLEAN
  /\ stage \in [Callers -> {"new", "resume", "dns", "tls", "fallback", "put", "done"}]
  /\ input \in [Callers -> Configs] /\ ranked \in [Callers -> ConfigRecs]
  /\ seen \in [Callers -> AtMostOne] /\ found \in [Callers -> AtMostOne]
  /\ chosenDns \in [Callers -> Seq(KnownEntries)] /\ passed \in [Callers -> SUBSET KnownEntries]

(* What is ranked is a reordering of the input.                            *)
SameEntries(s, t) == Len(s) = Len(t) /\ Elements(s) = Elements(t)
RankInv == \A c \in Callers :
  /\ SameEntries(ranked[c].dns, input[c].dns) /\ SameEntries(ranked[c].tls, input[c].tls)
  /\ SameEntries(ranked[c].fallback, input[c].fallback)
  /\ stage[c] # "new" => \A w \in seen[c] :
       /\ Len(w.dns) = 1 /\ w.dns[1] \in Elements(input[c].dns) => ranked[c].dns[1] = w.dns[1]
       /\ Len(w.tls) = 1 /\ w.tls[1] \in Elements(input[c].tls) => ranked[c].tls[1] = w.tls[1]

(* Where a call is says what it has: nothing is found before its last      *)
(* race, and the resolver that won its race is still to be used.           *)
StageInv == \A c \in Callers :
  /\ stage[c] \in {"new", "resume", "dns", "tls", "fallback"} => found[c] = {}
  /\ stage[c] = "resume" => \E w \in seen[c] : IsExclusiveFallback(w, input[c])
  /\ stage[c] = "tls" => \E e \in passed[c] : chosenDns[c] = <<e>> /\ e \in Elements(input[c].dns)

(* What a call has found is made of entries tested in this very call.      *)
FoundInv == \A c \in Callers : ReturnsTested(c)

(* The cache is what a call that has ended has found, or nothing has ended *)
(* and everybody has read the same.                                        *)
CacheInv == \/ \E c \in Callers : stage[c] = "done" /\ cache = found[c]
            \/ \A c \in Callers : stage[c] # "done" /\ (stage[c] # "new" => seen[c] = cache)

(* The inductive invariant of the search for a strategy.                   *)
FinderInv == FinderTypeOK /\ RankInv /\ StageInv /\ FoundInv /\ CacheInv

(* The elements of a sequence.                                             *)
LEMMA ElementsOf ==
  ASSUME NEW S, NEW s \in Seq(S)
  PROVE  /\ Elements(s) \subseteq S
         /\ \A e : e \in Elements(s) <=> \E i \in 1..Len(s) : s[i] = e
<1>1. DOMAIN s = 1..Len(s)
  BY LenProperties
<1> QED
  BY <1>1, ElementOfSeq DEF Elements

(* moveToFront keeps every entry and puts the one it is given first.       *)
LEMMA Moved ==
  ASSUME NEW S, NEW s \in Seq(S), NEW e
  PROVE  /\ MoveToFront(s, e) \in Seq(S)
         /\ SameEntries(MoveToFront(s, e), s)
         /\ e \in Elements(s) => MoveToFront(s, e)[1] = e
<1>1. CASE e \notin Elements(s)
  BY <1>1 DEF MoveToFront, SameEntries
<1>2. CASE e \in Elements(s)
  <2> DEFINE nth == CHOOSE i \in DOMAIN s : s[i] = e
             front == SubSeq(s, 1, nth - 1)
             back == SubSeq(s, nth + 1, Len(s))
             t == <<e>> \o front \o back
  <2>1. DOMAIN s = 1..Len(s) /\ Len(s) \in Nat
    BY LenProperties
  <2>2. nth \in 1..Len(s) /\ s[nth] = e
    BY <1>2, <2>1 DEF Elements
  <2> HIDE DEF nth
  <2>3. \A i \in 1..Len(s) : s[i] \in S
    BY ElementOfSeq
  <2>4. /\ front \in Seq(S) /\ Len(front) = nth - 1
        /\ \A i \in 1..(nth - 1) : front[i] = s[i]
    <3>1. \A i \in 1..(nth - 1) : s[i] \in S
      BY <2>1, <2>2, <2>3
    <3>2. /\ front \in Seq(S) /\ Len(front) = IF 1 <= nth - 1 THEN (nth - 1) - 1 + 1 ELSE 0
          /\ \A i \in 1..((nth - 1) - 1 + 1) : front[i] = s[1 + i - 1]
      <4>1. 1 \in Int /\ nth - 1 \in Int
        BY <2>2
      <4> QED
        BY <3>1, <4>1, SubSeqProperties
    <3> HIDE DEF front
    <3>3. (nth - 1) - 1 + 1 = nth - 1 /\ (IF 1 <= nth - 1 THEN (nth - 1) - 1 + 1 ELSE 0) = nth - 1
      BY <2>1, <2>2
    <3>4. \A i \in 1..(nth - 1) : 1 + i - 1 = i
      OBVIOUS
    <3> QED
      BY <3>2, <3>3, <3>4
  <2>5. /\ back \in Seq(S) /\ Len(back) = Len(s) - nth
        /\ \A i \in 1..(Len(s) - nth) : back[i] = s[nth + i]
    <3>1. \A i \in (nth + 1)..Len(s) : s[i] \in S
      BY <2>1, <2>2, <2>3
    <3>2. /\ back \in Seq(S) /\ Len(back) = IF nth + 1 <= Len(s) THEN Len(s) - (nth + 1) + 1 ELSE 0
          /\ \A i \in 1..(Len(s) - (nth + 1) + 1) : back[i] = s[(nth + 1) + i - 1]
      <4>1. nth + 1 \in Int /\ Len(s) \in Int
        BY <2>1, <2>2
      <4> QED
        BY <3>1, <4>1, SubSeqProperties
    <3> HIDE DEF back
    <3>3. /\ Len(s) - (nth + 1) + 1 = Len(s) - nth
          /\ (IF nth + 1 <= Len(s) THEN Len(s) - (nth + 1) + 1 ELSE 0) = Len(s) - nth
      <4>1. Len(s) \in Nat /\ nth \in Nat /\ nth <= Len(s)
        BY <2>1, <2>2
      <4>2. \A m, n \in Nat : n <= m =>
              m - (n + 1) + 1 = m - n /\ (IF n + 1 <= m THEN m - (n + 1) + 1 ELSE 0) = m - n
        OBVIOUS
      <4> QED
        BY <4>1, <4>2
    <3>4. \A i \in 1..(Len(s) - nth) : (nth + 1) + i - 1 = nth + i
      BY <2>2
    <3> QED
      BY <3>2, <3>3, <3>4
  <2> HIDE DEF front, back
  <2>6. <<e>> \in Seq(S) /\ Len(<<e>>) = 1 /\ <<e>>[1] = e
    BY <2>2, <2>3
  <2> DEFINE u == <<e>> \o front
  <2>7. /\ u \in Seq(S) /\ Len(u) = nth
        /\ \A i \in 1..nth : u[i] = IF i = 1 THEN e ELSE s[i - 1]
    <3>1. /\ u \in Seq(S) /\ Len(u) = 1 + Len(front)
          /\ \A i \in 1..(1 + Len(front)) : u[i] = IF i <= 1 THEN <<e>>[i] ELSE front[i - 1]
      BY <2>4, <2>6, ConcatProperties
    <3> HIDE DEF u
    <3>2. 1 + Len(front) = nth /\ nth \in Nat
      BY <2>2, <2>4
    <3>3. ASSUME NEW i \in 1..nth PROVE u[i] = IF i = 1 THEN e ELSE s[i - 1]
      <4>1. CASE i = 1
        BY <2>6, <3>1, <3>2, <4>1
      <4>2. CASE i # 1
        <5>1. i - 1 \in 1..(nth - 1) /\ ~(i <= 1)
          BY <3>2, <4>2
        <5>2. u[i] = front[i - 1]
          BY <3>1, <3>2, <5>1
        <5> QED
          BY <2>4, <4>2, <5>1, <5>2
      <4> QED
        BY <4>1, <4>2
    <3> QED
      BY <3>1, <3>2, <3>3
  <2> HIDE DEF u
  <2>8. /\ t \in Seq(S) /\ Len(t) = Len(s)
        /\ \A i \in 1..Len(s) : t[i] = IF i = 1 THEN e ELSE IF i <= nth THEN s[i - 1] ELSE s[i]
    <3>1. /\ u \o back \in Seq(S) /\ Len(u \o back) = Len(u) + Len(back)
          /\ \A i \in 1..(Len(u) + Len(back)) :
               (u \o back)[i] = IF i <= Len(u) THEN u[i] ELSE back[i - Len(u)]
      BY <2>5, <2>7, ConcatProperties, SMTT(30)
    <3>2. t = u \o back
      BY DEF u
    <3> HIDE DEF t
    <3>3. Len(u) + Len(back) = Len(s)
      BY <2>1, <2>2, <2>5, <2>7
    <3>4. ASSUME NEW i \in 1..Len(s)
          PROVE  t[i] = IF i = 1 THEN e ELSE IF i <= nth THEN s[i - 1] ELSE s[i]
      <4>1. CASE i <= nth
        BY <2>2, <2>7, <3>1, <3>2, <3>3, <4>1
      <4>2. CASE i > nth
        <5>1. i - nth \in 1..(Len(s) - nth) /\ nth + (i - nth) = i /\ i # 1
          BY <2>1, <2>2, <4>2
        <5>2. t[i] = back[i - nth]
          BY <2>2, <2>7, <3>1, <3>2, <3>3, <4>2
        <5>3. back[i - nth] = s[nth + (i - nth)]
          BY <2>5, <5>1
        <5>4. ~(i <= nth)
          BY <2>2, <4>2
        <5> QED
          BY <5>1, <5>2, <5>3, <5>4
      <4> QED
        BY <2>2, <4>1, <4>2
    <3> QED
      BY <3>1, <3>2, <3>3, <3>4
  <2>9. MoveToFront(s, e) = t
    BY <1>2 DEF MoveToFront, nth, front, back
  <2> HIDE DEF t
  <2>10. \A i \in 1..Len(s) : \E j \in 1..Len(s) : t[i] = s[j]
    BY <2>2, <2>8
  <2>11. \A j \in 1..Len(s) : \E i \in 1..Len(s) : t[i] = s[j]
    <3>1. TAKE j \in 1..Len(s)
    <3>2. CASE j = nth
      BY <2>2, <2>8, <3>2
    <3>3. CASE j < nth
      <4>1. j + 1 \in 1..Len(s) /\ j + 1 # 1 /\ j + 1 <= nth /\ (j + 1) - 1 = j
        BY <2>1, <2>2, <3>3
      <4> QED
        BY <2>8, <4>1
    <3>4. CASE j > nth
      BY <2>2, <2>8, <3>4
    <3> QED
      BY <2>2, <3>2, <3>3, <3>4
  <2>12. Elements(t) = Elements(s)
    <3>1. \A x : x \in Elements(t) <=> \E i \in 1..Len(s) : t[i] = x
      BY <2>8, ElementsOf
    <3>2. \A x : x \in Elements(s) <=> \E i \in 1..Len(s) : s[i] = x
      BY ElementsOf
    <3>3. \A x : x \in Elements(t) <=> x \in Elements(s)
      BY <2>10, <2>11, <3>1, <3>2
    <3> QED
      BY <3>3
  <2>13. t[1] = e
    BY <2>2, <2>8
  <2> QED
    BY <2>8, <2>9, <2>12, <2>13 DEF SameEntries
<1> QED
  BY <1>1, <1>2

(* The inputs and the strategies are of their types.                       *)
LEMMA TheRecords ==
  /\ Configs \subseteq ConfigRecs /\ Leftovers \subseteq Strategies
  /\ {} \in AtMostOne /\ \A w \in Strategies : {w} \in AtMostOne
BY FinderAssumption DEF ConfigRecs, Strategies, AtMostOne

(* It holds before any call.                                               *)
LEMMA FinderInitial ==
  ASSUME FinderInit
  PROVE  FinderInv
<1>1. FinderTypeOK
  <2>1. cache \in AtMostOne
    BY TheRecords DEF FinderInit, AtMostOne
  <2>2. /\ input \in [Callers -> Configs] /\ ranked \in [Callers -> ConfigRecs]
    BY TheRecords DEF FinderInit
  <2>3. /\ seen \in [Callers -> AtMostOne] /\ found \in [Callers -> AtMostOne]
    BY TheRecords DEF FinderInit
  <2>4. chosenDns \in [Callers -> Seq(KnownEntries)]
    BY DEF FinderInit
  <2>5. passed \in [Callers -> SUBSET KnownEntries] /\ tcpBase \in BOOLEAN
        /\ stage \in [Callers -> {"new", "resume", "dns", "tls", "fallback", "put", "done"}]
    BY DEF FinderInit
  <2> QED
    BY <2>1, <2>2, <2>3, <2>4, <2>5 DEF FinderTypeOK
<1>2. RankInv
  BY DEF FinderInit, RankInv, SameEntries
<1>3. StageInv
  BY DEF FinderInit, StageInv
<1>4. FoundInv
  BY DEF FinderInit, FoundInv, ReturnsTested
<1>5. CacheInv
  BY DEF FinderInit, CacheInv
<1> QED
  BY <1>1, <1>2, <1>3, <1>4, <1>5 DEF FinderInv

(* promoteProxylessToFront reorders and puts the cached entries first.     *)
LEMMA Promoted ==
  ASSUME NEW w \in Strategies, NEW cfg \in ConfigRecs
  PROVE  /\ Promote(w, cfg) \in ConfigRecs
         /\ SameEntries(Promote(w, cfg).dns, cfg.dns) /\ SameEntries(Promote(w, cfg).tls, cfg.tls)
         /\ Promote(w, cfg).fallback = cfg.fallback
         /\ Len(w.dns) = 1 /\ w.dns[1] \in Elements(cfg.dns) => Promote(w, cfg).dns[1] = w.dns[1]
         /\ Len(w.tls) = 1 /\ w.tls[1] \in Elements(cfg.tls) => Promote(w, cfg).tls[1] = w.tls[1]
<1> DEFINE d == IF Len(w.dns) = 1 THEN MoveToFront(cfg.dns, w.dns[1]) ELSE cfg.dns
           t == IF Len(w.tls) = 1 THEN MoveToFront(cfg.tls, w.tls[1]) ELSE cfg.tls
<1>1. cfg.dns \in Seq(KnownEntries) /\ cfg.tls \in Seq(KnownEntries)
  BY DEF ConfigRecs
<1>2. /\ d \in Seq(KnownEntries) /\ SameEntries(d, cfg.dns)
      /\ Len(w.dns) = 1 /\ w.dns[1] \in Elements(cfg.dns) => d[1] = w.dns[1]
  BY <1>1, Moved DEF SameEntries
<1>3. /\ t \in Seq(KnownEntries) /\ SameEntries(t, cfg.tls)
      /\ Len(w.tls) = 1 /\ w.tls[1] \in Elements(cfg.tls) => t[1] = w.tls[1]
  BY <1>1, Moved DEF SameEntries
<1>4. Promote(w, cfg) = [cfg EXCEPT !.dns = d, !.tls = t]
  BY DEF Promote
<1> HIDE DEF d, t
<1>5. /\ Promote(w, cfg) \in ConfigRecs /\ Promote(w, cfg).dns = d /\ Promote(w, cfg).tls = t
      /\ Promote(w, cfg).fallback = cfg.fallback
  BY <1>2, <1>3, <1>4 DEF ConfigRecs
<1> QED
  BY <1>2, <1>3, <1>5

(* A call moves on; nobody else does.                                      *)
LEMMA Going ==
  ASSUME FinderTypeOK, NEW c \in Callers,
         NEW s \in {"new", "resume", "dns", "tls", "fallback", "put", "done"}, Goto(c, s)
  PROVE  /\ stage' \in [Callers -> {"new", "resume", "dns", "tls", "fallback", "put", "done"}]
         /\ stage'[c] = s /\ \A x \in Callers : x # c => stage'[x] = stage[x]
BY DEF Goto, FinderTypeOK

(* NewDialer reads the cache and ranks what it is given.                   *)
LEMMA ReadCacheKeeps ==
  ASSUME FinderInv, NEW c \in Callers, ReadCache(c)
  PROVE  FinderInv'
<1>0. FinderTypeOK
  BY DEF FinderInv
<1>1. /\ stage[c] = "new" /\ seen' = [seen EXCEPT ![c] = cache]
      /\ UNCHANGED <<cache, tcpBase, input, chosenDns, passed, found>>
  BY DEF ReadCache
<1>2. /\ seen' \in [Callers -> AtMostOne] /\ seen'[c] = cache
      /\ \A x \in Callers : x # c => seen'[x] = seen[x]
  BY <1>0, <1>1 DEF FinderTypeOK
<1>3. /\ \/ (\E w \in cache : IsExclusiveFallback(w, input[c])) /\ Goto(c, "resume")
         \/ (~\E w \in cache : IsExclusiveFallback(w, input[c])) /\ Goto(c, "dns")
      /\ stage' \in [Callers -> {"new", "resume", "dns", "tls", "fallback", "put", "done"}]
      /\ stage'[c] \in {"resume", "dns"} /\ \A x \in Callers : x # c => stage'[x] = stage[x]
      /\ stage'[c] = "resume" => \E w \in cache : IsExclusiveFallback(w, input[c])
  <2>1. \/ (\E w \in cache : IsExclusiveFallback(w, input[c])) /\ Goto(c, "resume")
        \/ (~\E w \in cache : IsExclusiveFallback(w, input[c])) /\ Goto(c, "dns")
    BY DEF ReadCache
  <2> QED
    BY <1>0, <2>1, Going
<1>4. /\ ranked' \in [Callers -> ConfigRecs] /\ \A x \in Callers : x # c => ranked'[x] = ranked[x]
      /\ SameEntries(ranked'[c].dns, ranked[c].dns) /\ SameEntries(ranked'[c].tls, ranked[c].tls)
      /\ SameEntries(ranked'[c].fallback, ranked[c].fallback)
      /\ \A w \in cache :
           /\ Len(w.dns) = 1 /\ w.dns[1] \in Elements(ranked[c].dns) => ranked'[c].dns[1] = w.dns[1]
           /\ Len(w.tls) = 1 /\ w.tls[1] \in Elements(ranked[c].tls) => ranked'[c].tls[1] = w.tls[1]
  <2>1. CASE \E w \in cache : IsExclusiveFallback(w, input[c])
    <3>1. ranked' = ranked
      BY <2>1 DEF ReadCache
    <3>2. \A w \in cache : w.dns = <<>> /\ w.tls = <<>>
      BY <1>0, <2>1 DEF FinderTypeOK, AtMostOne, IsExclusiveFallback
    <3>3. Len(<<>>) # 1
      OBVIOUS
    <3> QED
      BY <1>0, <3>1, <3>2, <3>3 DEF FinderTypeOK, SameEntries
  <2>2. CASE ~\E w \in cache : IsExclusiveFallback(w, input[c])
    <3>1. CASE cache = {}
      <4>1. ranked' = ranked
        BY <2>2, <3>1 DEF ReadCache
      <4> QED
        BY <1>0, <3>1, <4>1 DEF FinderTypeOK, SameEntries
    <3>2. CASE cache # {}
      <4>1. PICK w \in Strategies : cache = {w}
        BY <1>0, <3>2 DEF FinderTypeOK, AtMostOne
      <4>2. ranked' = [ranked EXCEPT ![c] = Promote(w, ranked[c])]
        BY <2>2, <3>2, <4>1 DEF ReadCache
      <4>3. ranked[c] \in ConfigRecs
        BY <1>0 DEF FinderTypeOK
      <4>4. ranked'[c] = Promote(w, ranked[c])
        BY <1>0, <4>2 DEF FinderTypeOK
      <4>5. /\ ranked' \in [Callers -> ConfigRecs] /\ \A x \in Callers : x # c => ranked'[x] = ranked[x]
        BY <1>0, <4>2, <4>3, Promoted DEF FinderTypeOK
      <4> QED
        BY <4>1, <4>3, <4>4, <4>5, Promoted DEF SameEntries
    <3> QED
      BY <3>1, <3>2
  <2> QED
    BY <2>1, <2>2
<1>5. FinderTypeOK'
  BY <1>0, <1>1, <1>2, <1>3, <1>4 DEF FinderTypeOK
<1>6. RankInv'
  <2>1. ASSUME NEW x \in Callers
        PROVE  /\ SameEntries(ranked'[x].dns, input[x].dns) /\ SameEntries(ranked'[x].tls, input[x].tls)
               /\ SameEntries(ranked'[x].fallback, input[x].fallback)
               /\ stage'[x] # "new" => \A w \in seen'[x] :
                    /\ Len(w.dns) = 1 /\ w.dns[1] \in Elements(input[x].dns) => ranked'[x].dns[1] = w.dns[1]
                    /\ Len(w.tls) = 1 /\ w.tls[1] \in Elements(input[x].tls) => ranked'[x].tls[1] = w.tls[1]
    <3>1. CASE x = c
      BY <1>2, <1>4, <3>1 DEF FinderInv, RankInv, SameEntries
    <3>2. CASE x # c
      BY <1>2, <1>3, <1>4, <3>2 DEF FinderInv, RankInv
    <3> QED
      BY <3>1, <3>2
  <2> QED
    BY <1>1, <2>1 DEF RankInv
<1>7. StageInv'
  <2>1. ASSUME NEW x \in Callers
        PROVE  /\ stage'[x] \in {"new", "resume", "dns", "tls", "fallback"} => found[x] = {}
               /\ stage'[x] = "resume" => \E w \in seen'[x] : IsExclusiveFallback(w, input[x])
               /\ stage'[x] = "tls" => \E e \in passed[x] : chosenDns[x] = <<e>> /\ e \in Elements(input[x].dns)
    <3>1. CASE x = c
      BY <1>1, <1>2, <1>3, <3>1 DEF FinderInv, StageInv
    <3>2. CASE x # c
      BY <1>2, <1>3, <3>2 DEF FinderInv, StageInv
    <3> QED
      BY <3>1, <3>2
  <2> QED
    BY <1>1, <2>1 DEF StageInv, IsExclusiveFallback
<1>8. FoundInv'
  BY <1>1 DEF FinderInv, FoundInv, ReturnsTested
<1>9. CacheInv'
  <2>1. CASE \E x \in Callers : stage[x] = "done" /\ cache = found[x]
    BY <1>1, <1>3, <2>1 DEF CacheInv
  <2>2. CASE \A x \in Callers : stage[x] # "done" /\ (stage[x] # "new" => seen[x] = cache)
    <3>1. \A x \in Callers : stage'[x] # "done" /\ (stage'[x] # "new" => seen'[x] = cache)
      BY <1>2, <1>3, <2>2
    <3> QED
      BY <1>1, <3>1 DEF CacheInv
  <2> QED
    BY <2>1, <2>2 DEF FinderInv, CacheInv
<1> QED
  BY <1>5, <1>6, <1>7, <1>8, <1>9 DEF FinderInv

(* What a race gives back: a strategy of tested entries of the input.      *)
Tested(w, given, ok) ==
  /\ Parts(w) \subseteq ok
  /\ Parts(w) \subseteq Elements(given.dns) \cup Elements(given.tls) \cup Elements(given.fallback)
  /\ Cardinality(Parts(w)) >= 1

(* What the strategies that a search can find are made of.                 *)
LEMMA PartsOf ==
  /\ \A e : Parts(Strategy(<<e>>, <<>>, <<>>)) = {e} /\ Parts(Strategy(<<>>, <<>>, <<e>>)) = {e}
  /\ \A e, t : Parts(Strategy(<<e>>, <<t>>, <<>>)) = {e, t}
  /\ \A e : Cardinality({e}) >= 1
  /\ \A e, t : Cardinality({e, t}) >= 1
<1>1. Elements(<<>>) = {} /\ \A e : Elements(<<e>>) = {e}
  BY DEF Elements
<1>2. \A a, b, f : /\ Strategy(a, b, f).dns = a /\ Strategy(a, b, f).tls = b
                   /\ Strategy(a, b, f).fallback = f
  BY DEF Strategy
<1>3. \A e : IsFiniteSet({e}) /\ Cardinality({e}) = 1
  BY FS_Singleton
<1>4. ASSUME NEW e, NEW t PROVE Cardinality({e, t}) >= 1
  <2>1. CASE e = t
    <3>1. {e, t} = {e}
      BY <2>1
    <3>2. Cardinality({e, t}) = 1
      BY <1>3, <3>1, Zenon
    <3> QED
      BY <3>2
  <2>2. CASE e # t
    <3>1. {e, t} = {e} \cup {t}
      BY Zenon
    <3>2. {e} \cup {t} = {e} \cup {t} /\ t \notin {e}
      BY <2>2
    <3>3. IsFiniteSet({e}) /\ Cardinality({e}) = 1
      BY <1>3
    <3>4. Cardinality({e} \cup {t}) = Cardinality({e}) + 1
      BY <3>2, <3>3, FS_AddElement, Zenon
    <3>5. Cardinality({e} \cup {t}) = 2
      BY <3>3, <3>4
    <3> QED
      BY <3>1, <3>5
  <2> QED
    BY <2>1, <2>2
<1>5. ASSUME NEW e, NEW t
      PROVE  /\ Parts(Strategy(<<e>>, <<>>, <<>>)) = {e}
             /\ Parts(Strategy(<<>>, <<>>, <<e>>)) = {e}
             /\ Parts(Strategy(<<e>>, <<t>>, <<>>)) = {e, t}
  <2>1. Parts(Strategy(<<e>>, <<>>, <<>>)) = {e} \cup {} \cup {}
    <3> DEFINE w == Strategy(<<e>>, <<>>, <<>>)
    <3>1. w.dns = <<e>> /\ w.tls = <<>> /\ w.fallback = <<>>
      BY <1>2
    <3>2. Parts(w) = Elements(w.dns) \cup Elements(w.tls) \cup Elements(w.fallback)
      BY DEF Parts
    <3> HIDE DEF w
    <3>3. Parts(w) = Elements(<<e>>) \cup Elements(<<>>) \cup Elements(<<>>)
      BY <3>1, <3>2
    <3> QED
      BY <1>1, <3>3 DEF w
  <2>2. Parts(Strategy(<<>>, <<>>, <<e>>)) = {} \cup {} \cup {e}
    <3> DEFINE w == Strategy(<<>>, <<>>, <<e>>)
    <3>1. w.dns = <<>> /\ w.tls = <<>> /\ w.fallback = <<e>>
      BY <1>2
    <3>2. Parts(w) = Elements(w.dns) \cup Elements(w.tls) \cup Elements(w.fallback)
      BY DEF Parts
    <3> HIDE DEF w
    <3>3. Parts(w) = Elements(<<>>) \cup Elements(<<>>) \cup Elements(<<e>>)
      BY <3>1, <3>2
    <3> QED
      BY <1>1, <3>3 DEF w
  <2>3. Parts(Strategy(<<e>>, <<t>>, <<>>)) = {e} \cup {t} \cup {}
    <3> DEFINE w == Strategy(<<e>>, <<t>>, <<>>)
    <3>1. w.dns = <<e>> /\ w.tls = <<t>> /\ w.fallback = <<>>
      BY SMTT(30) DEF Strategy
    <3>2. Parts(w) = Elements(w.dns) \cup Elements(w.tls) \cup Elements(w.fallback)
      BY DEF Parts
    <3> HIDE DEF w
    <3>3. Parts(w) = Elements(<<e>>) \cup Elements(<<t>>) \cup Elements(<<>>)
      BY <3>1, <3>2
    <3> QED
      BY <1>1, <3>3 DEF w
  <2> QED
    BY <2>1, <2>2, <2>3
<1>6. \A e : Cardinality({e}) >= 1
  <2> TAKE e
  <2>1. Cardinality({e}) = 1
    BY <1>3
  <2> QED
    BY <2>1
<1> QED
  BY <1>4, <1>5, <1>6

(* A call that is racing goes on, with the outcome of the race.            *)
LEMMA RaceKeeps ==
  ASSUME FinderInv, NEW c \in Callers, stage[c] \notin {"new", "done"},
         NEW s \in {"dns", "tls", "fallback", "put", "done"}, Goto(c, s),
         UNCHANGED <<cache, tcpBase, input, ranked, seen>>,
         found' \in [Callers -> AtMostOne], chosenDns' \in [Callers -> Seq(KnownEntries)],
         passed' \in [Callers -> SUBSET KnownEntries],
         \A x \in Callers : x # c =>
           found'[x] = found[x] /\ passed'[x] = passed[x] /\ chosenDns'[x] = chosenDns[x],
         s \in {"dns", "tls", "fallback"} => found'[c] = {},
         s = "tls" => \E e \in passed'[c] : chosenDns'[c] = <<e>> /\ e \in Elements(input[c].dns),
         \A w \in found'[c] : Tested(w, input[c], passed'[c]),
         s = "done" /\ CacheInv
           => found'[c] = cache \/ \E x \in Callers : stage[x] = "done" /\ cache = found[x]
  PROVE  FinderInv'
<1>1. /\ stage' \in [Callers -> {"new", "resume", "dns", "tls", "fallback", "put", "done"}]
      /\ stage'[c] = s /\ \A x \in Callers : x # c => stage'[x] = stage[x]
  BY Going DEF FinderInv
<1>2. FinderTypeOK'
  BY <1>1 DEF FinderInv, FinderTypeOK
<1>3. RankInv'
  <2>1. \A x \in Callers : stage'[x] # "new" => stage[x] # "new"
    BY <1>1
  <2> QED
    BY <2>1 DEF FinderInv, RankInv
<1>4. StageInv'
  <2>1. ASSUME NEW x \in Callers
        PROVE  /\ stage'[x] \in {"new", "resume", "dns", "tls", "fallback"} => found'[x] = {}
               /\ stage'[x] = "resume" => \E w \in seen[x] : IsExclusiveFallback(w, input[x])
               /\ stage'[x] = "tls" => \E e \in passed'[x] : chosenDns'[x] = <<e>> /\ e \in Elements(input[x].dns)
    <3>1. CASE x = c
      BY <1>1, <3>1
    <3>2. CASE x # c
      BY <1>1, <3>2 DEF FinderInv, StageInv
    <3> QED
      BY <3>1, <3>2
  <2> QED
    BY <2>1 DEF StageInv, IsExclusiveFallback
<1>5. FoundInv'
  <2>1. ASSUME NEW x \in Callers, NEW w \in found'[x] PROVE Tested(w, input[x], passed'[x])
    <3>1. CASE x = c
      BY <2>1, <3>1
    <3>2. CASE x # c
      BY <2>1, <3>2 DEF FinderInv, FoundInv, ReturnsTested, Tested
    <3> QED
      BY <3>1, <3>2
  <2> QED
    BY <2>1 DEF FoundInv, ReturnsTested, Tested
<1>6. CacheInv'
  <2>1. CASE \E x \in Callers : stage[x] = "done" /\ cache = found[x]
    BY <1>1, <2>1 DEF CacheInv
  <2>2. CASE ~\E x \in Callers : stage[x] = "done" /\ cache = found[x]
    <3>1. CacheInv /\ \A x \in Callers : stage[x] # "done" /\ (stage[x] # "new" => seen[x] = cache)
      BY <2>2 DEF FinderInv, CacheInv
    <3>2. CASE s = "done"
      <4>1. found'[c] = cache
        BY <2>2, <3>1, <3>2
      <4> QED
        BY <1>1, <3>2, <4>1 DEF CacheInv
    <3>3. CASE s # "done"
      <4>1. \A x \in Callers : stage'[x] # "done" /\ (stage'[x] # "new" => seen[x] = cache)
        BY <1>1, <3>1, <3>3
      <4> QED
        BY <4>1 DEF CacheInv
    <3> QED
      BY <3>2, <3>3
  <2> QED
    BY <2>1, <2>2
<1> QED
  BY <1>2, <1>3, <1>4, <1>5, <1>6 DEF FinderInv

(* The cached fallback has passed, or the search begins.                   *)
LEMMA ResumeKeeps ==
  ASSUME FinderInv, NEW c \in Callers, Resume(c)
  PROVE  FinderInv'
<1>0. FinderTypeOK
  BY DEF FinderInv
<1>1. /\ stage[c] = "resume" /\ UNCHANGED <<cache, tcpBase, input, ranked, seen, chosenDns>>
      /\ found[c] = {}
  BY DEF Resume, FinderInv, StageInv
<1>2. PICK w \in Strategies : seen[c] = {w} /\ IsExclusiveFallback(w, input[c])
  BY <1>0, <1>1 DEF FinderInv, FinderTypeOK, AtMostOne, StageInv
<1>3. CASE Goto(c, "dns") /\ UNCHANGED <<passed, found>>
  <2>1. \A x \in found'[c] : Tested(x, input[c], passed'[c])
    BY <1>1, <1>3
  <2> QED
    BY <1>0, <1>1, <1>3, <2>1, RaceKeeps DEF FinderTypeOK
<1>4. CASE /\ passed' = [passed EXCEPT ![c] = @ \cup {w.fallback[1]}]
           /\ found' = [found EXCEPT ![c] = {Strategy(<<>>, <<>>, w.fallback)}]
           /\ Goto(c, "done")
  <2> DEFINE f == w.fallback[1]
  <2>1. /\ Len(w.fallback) = 1 /\ w.fallback \in Seq(KnownEntries) /\ w.dns = <<>> /\ w.tls = <<>>
        /\ f \in Elements(input[c].fallback)
    BY <1>2 DEF IsExclusiveFallback, Strategies
  <2>2. w.fallback = <<f>>
    BY <2>1
  <2>3. f \in KnownEntries
    BY <2>1, ElementOfSeq
  <2>4. Strategy(<<>>, <<>>, w.fallback) = w
    BY <2>1 DEF Strategy, Strategies
  <2>5. Strategy(<<>>, <<>>, w.fallback) = Strategy(<<>>, <<>>, <<f>>)
    BY <2>2
  <2> HIDE DEF f
  <2>6. /\ found' \in [Callers -> AtMostOne] /\ found'[c] = {w}
        /\ \A x \in Callers : x # c => found'[x] = found[x]
    BY <1>0, <1>4, <2>4, TheRecords DEF FinderTypeOK
  <2>7. /\ passed' \in [Callers -> SUBSET KnownEntries] /\ f \in passed'[c]
        /\ \A x \in Callers : x # c => passed'[x] = passed[x]
    BY <1>0, <1>4, <2>3 DEF FinderTypeOK, f
  <2>8. Parts(w) = {f} /\ Cardinality({f}) >= 1
    BY <2>4, <2>5, PartsOf
  <2>9. \A x \in found'[c] : Tested(x, input[c], passed'[c])
    BY <2>1, <2>6, <2>7, <2>8 DEF Tested, f
  <2>10. CacheInv => found'[c] = cache \/ \E x \in Callers : stage[x] = "done" /\ cache = found[x]
    BY <1>1, <1>2, <2>6 DEF CacheInv
  <2>11. chosenDns' \in [Callers -> Seq(KnownEntries)] /\ chosenDns' = chosenDns
    BY <1>0, <1>1 DEF FinderTypeOK
  <2> QED
    BY <1>1, <1>4, <2>6, <2>7, <2>9, <2>10, <2>11, RaceKeeps
<1> QED
  <2>1. (CHOOSE x \in seen[c] : TRUE) = w
    BY <1>2
  <2> QED
    BY <1>3, <1>4, <2>1 DEF Resume

(* No proxyless strategy: the fallbacks are next, or the end.              *)
LEMMA NoProxylessKeeps ==
  ASSUME FinderInv, NEW c \in Callers, stage[c] \in {"dns", "tls"}, NoProxyless(c), UNCHANGED chosenDns
  PROVE  FinderInv'
<1>0. FinderTypeOK /\ found[c] = {}
  BY DEF FinderInv, StageInv
<1>1. PICK s \in {"fallback", "put"} : Goto(c, s)
  BY DEF NoProxyless
<1>2. UNCHANGED <<cache, tcpBase, input, ranked, seen, passed, found>>
  BY DEF NoProxyless
<1>3. \A x \in found'[c] : Tested(x, input[c], passed'[c])
  BY <1>0, <1>2
<1> QED
  BY <1>0, <1>1, <1>2, <1>3, RaceKeeps DEF FinderTypeOK

(* A resolver has passed: it is the strategy, or TLS comes next.           *)
LEMMA FindDnsKeeps ==
  ASSUME FinderInv, NEW c \in Callers, FindDns(c)
  PROVE  FinderInv'
<1>0. FinderTypeOK /\ stage[c] = "dns" /\ found[c] = {}
  BY DEF FinderInv, StageInv, FindDns
<1>1. CASE NoProxyless(c) /\ UNCHANGED chosenDns
  BY <1>0, <1>1, NoProxylessKeeps
<1>2. ASSUME NEW e \in Elements(ranked[c].dns),
             chosenDns' = [chosenDns EXCEPT ![c] = <<e>>],
             passed' = [passed EXCEPT ![c] = @ \cup {e}],
             IF ranked[c].tls = <<>>
               THEN /\ found' = [found EXCEPT ![c] = {Strategy(<<e>>, <<>>, <<>>)}]
                    /\ Goto(c, "put")
               ELSE Goto(c, "tls") /\ UNCHANGED found,
             UNCHANGED <<cache, tcpBase, input, ranked, seen>>
      PROVE  FinderInv'
  <2>1. e \in Elements(input[c].dns) /\ e \in KnownEntries
    <3>1. ranked[c].dns \in Seq(KnownEntries)
      BY <1>0 DEF FinderTypeOK, ConfigRecs
    <3> QED
      BY <3>1, ElementsOf DEF FinderInv, RankInv, SameEntries
  <2>2. /\ chosenDns' \in [Callers -> Seq(KnownEntries)] /\ chosenDns'[c] = <<e>>
        /\ \A x \in Callers : x # c => chosenDns'[x] = chosenDns[x]
    BY <1>0, <1>2, <2>1 DEF FinderTypeOK
  <2>3. /\ passed' \in [Callers -> SUBSET KnownEntries] /\ e \in passed'[c]
        /\ \A x \in Callers : x # c => passed'[x] = passed[x]
    BY <1>0, <1>2, <2>1 DEF FinderTypeOK
  <2>4. CASE ranked[c].tls = <<>>
    <3> DEFINE w == Strategy(<<e>>, <<>>, <<>>)
    <3>1. w \in Strategies
      BY <2>1 DEF Strategy, Strategies
    <3>2. Parts(w) = {e} /\ Cardinality({e}) >= 1
      BY PartsOf
    <3> HIDE DEF w
    <3>3. /\ found' \in [Callers -> AtMostOne] /\ found'[c] = {w}
          /\ \A x \in Callers : x # c => found'[x] = found[x]
      BY <1>0, <1>2, <2>4, <3>1, TheRecords DEF FinderTypeOK, w
    <3>4. \A x \in found'[c] : Tested(x, input[c], passed'[c])
      BY <2>1, <2>3, <3>2, <3>3 DEF Tested
    <3>5. Goto(c, "put")
      BY <1>2, <2>4
    <3> QED
      BY <1>0, <1>2, <2>2, <2>3, <3>3, <3>4, <3>5, RaceKeeps
  <2>5. CASE ranked[c].tls # <<>>
    <3>1. Goto(c, "tls") /\ found' = found
      BY <1>2, <2>5
    <3>2. \A x \in found'[c] : Tested(x, input[c], passed'[c])
      BY <1>0, <3>1
    <3>3. found' \in [Callers -> AtMostOne]
      BY <1>0, <3>1 DEF FinderTypeOK
    <3>4. \E x \in passed'[c] : chosenDns'[c] = <<x>> /\ x \in Elements(input[c].dns)
      BY <2>1, <2>2, <2>3
    <3> QED
      BY <1>0, <1>2, <2>2, <2>3, <3>1, <3>2, <3>3, <3>4, RaceKeeps
  <2> QED
    BY <2>4, <2>5
<1> QED
  BY <1>1, <1>2 DEF FindDns

(* A TLS strategy has passed over the resolver found before.               *)
LEMMA FindTlsKeeps ==
  ASSUME FinderInv, NEW c \in Callers, FindTls(c)
  PROVE  FinderInv'
<1>0. FinderTypeOK /\ stage[c] = "tls" /\ found[c] = {}
  BY DEF FinderInv, StageInv, FindTls
<1>1. CASE NoProxyless(c) /\ UNCHANGED chosenDns
  BY <1>0, <1>1, NoProxylessKeeps
<1>2. ASSUME NEW t \in Elements(ranked[c].tls), UNCHANGED chosenDns,
             passed' = [passed EXCEPT ![c] = @ \cup {t}],
             found' = [found EXCEPT ![c] = {Strategy(chosenDns[c], <<t>>, <<>>)}],
             Goto(c, "put"),
             UNCHANGED <<cache, tcpBase, input, ranked, seen>>
      PROVE  FinderInv'
  <2>1. PICK e \in passed[c] : chosenDns[c] = <<e>> /\ e \in Elements(input[c].dns)
    BY <1>0 DEF FinderInv, StageInv
  <2>2. t \in Elements(input[c].tls) /\ t \in KnownEntries /\ e \in KnownEntries
    <3>1. ranked[c].tls \in Seq(KnownEntries)
      BY <1>0 DEF FinderTypeOK, ConfigRecs
    <3>2. e \in KnownEntries
      BY <1>0, <2>1 DEF FinderTypeOK
    <3> QED
      BY <3>1, <3>2, ElementsOf DEF FinderInv, RankInv, SameEntries
  <2> DEFINE w == Strategy(<<e>>, <<t>>, <<>>)
  <2>3. w \in Strategies
    BY <2>2 DEF Strategy, Strategies
  <2>4. Parts(w) = {e, t} /\ Cardinality({e, t}) >= 1
    BY PartsOf
  <2>5. Strategy(chosenDns[c], <<t>>, <<>>) = w
    BY <2>1
  <2> HIDE DEF w
  <2>6. /\ found' \in [Callers -> AtMostOne] /\ found'[c] = {w}
        /\ \A x \in Callers : x # c => found'[x] = found[x]
    BY <1>0, <1>2, <2>3, <2>5, TheRecords DEF FinderTypeOK
  <2>7. /\ passed' \in [Callers -> SUBSET KnownEntries] /\ t \in passed'[c] /\ e \in passed'[c]
        /\ \A x \in Callers : x # c => passed'[x] = passed[x]
    BY <1>0, <1>2, <2>1, <2>2 DEF FinderTypeOK
  <2>8. \A x \in found'[c] : Tested(x, input[c], passed'[c])
    BY <2>1, <2>2, <2>4, <2>6, <2>7 DEF Tested
  <2>9. chosenDns' \in [Callers -> Seq(KnownEntries)] /\ chosenDns' = chosenDns
    BY <1>0, <1>2 DEF FinderTypeOK
  <2> QED
    BY <1>0, <1>2, <2>6, <2>7, <2>8, <2>9, RaceKeeps
<1> QED
  BY <1>1, <1>2 DEF FindTls

(* A fallback has passed, or nothing was found.                            *)
LEMMA FindFallbackKeeps ==
  ASSUME FinderInv, NEW c \in Callers, FindFallback(c)
  PROVE  FinderInv'
<1>0. FinderTypeOK /\ stage[c] = "fallback" /\ found[c] = {}
  BY DEF FinderInv, StageInv, FindFallback
<1>1. Goto(c, "put") /\ UNCHANGED <<cache, tcpBase, input, ranked, seen, chosenDns>>
  BY DEF FindFallback
<1>2. CASE UNCHANGED <<passed, found>>
  <2>1. \A x \in found'[c] : Tested(x, input[c], passed'[c])
    BY <1>0, <1>2
  <2> QED
    BY <1>0, <1>1, <1>2, <2>1, RaceKeeps DEF FinderTypeOK
<1>3. ASSUME NEW f \in Elements(ranked[c].fallback),
             passed' = [passed EXCEPT ![c] = @ \cup {f}],
             found' = [found EXCEPT ![c] = {Strategy(<<>>, <<>>, <<f>>)}]
      PROVE  FinderInv'
  <2>1. f \in Elements(input[c].fallback) /\ f \in KnownEntries
    <3>1. ranked[c].fallback \in Seq(KnownEntries)
      BY <1>0 DEF FinderTypeOK, ConfigRecs
    <3> QED
      BY <3>1, ElementsOf DEF FinderInv, RankInv, SameEntries
  <2> DEFINE w == Strategy(<<>>, <<>>, <<f>>)
  <2>2. w \in Strategies
    BY <2>1 DEF Strategy, Strategies
  <2>3. Parts(w) = {f} /\ Cardinality({f}) >= 1
    BY PartsOf
  <2> HIDE DEF w
  <2>4. /\ found' \in [Callers -> AtMostOne] /\ found'[c] = {w}
        /\ \A x \in Callers : x # c => found'[x] = found[x]
    BY <1>0, <1>3, <2>2, TheRecords DEF FinderTypeOK, w
  <2>5. /\ passed' \in [Callers -> SUBSET KnownEntries] /\ f \in passed'[c]
        /\ \A x \in Callers : x # c => passed'[x] = passed[x]
    BY <1>0, <1>3, <2>1 DEF FinderTypeOK
  <2>6. \A x \in found'[c] : Tested(x, input[c], passed'[c])
    BY <2>1, <2>3, <2>4, <2>5 DEF Tested
  <2>7. chosenDns' \in [Callers -> Seq(KnownEntries)] /\ chosenDns' = chosenDns
    BY <1>0, <1>1 DEF FinderTypeOK
  <2> QED
    BY <1>0, <1>1, <2>4, <2>5, <2>6, <2>7, RaceKeeps
<1> QED
  BY <1>2, <1>3 DEF FindFallback

(* The cache takes what the call has found.                                *)
LEMMA PutResultKeeps ==
  ASSUME FinderInv, NEW c \in Callers, PutResult(c)
  PROVE  FinderInv'
<1>0. FinderTypeOK
  BY DEF FinderInv
<1>1. /\ stage[c] = "put" /\ cache' = found[c] /\ Goto(c, "done")
      /\ UNCHANGED <<tcpBase, input, ranked, seen, chosenDns, passed, found>>
  BY DEF PutResult
<1>2. /\ stage' \in [Callers -> {"new", "resume", "dns", "tls", "fallback", "put", "done"}]
      /\ stage'[c] = "done" /\ \A x \in Callers : x # c => stage'[x] = stage[x]
  BY <1>0, <1>1, Going
<1>3. FinderTypeOK'
  BY <1>0, <1>1, <1>2 DEF FinderTypeOK
<1>4. RankInv'
  <2>1. \A x \in Callers : stage'[x] # "new" => stage[x] # "new"
    BY <1>1, <1>2
  <2> QED
    BY <1>1, <2>1 DEF FinderInv, RankInv
<1>5. StageInv'
  <2>1. \A x \in Callers : stage'[x] \in {"new", "resume", "dns", "tls", "fallback"} => stage'[x] = stage[x]
    BY <1>2
  <2> QED
    BY <1>1, <2>1 DEF FinderInv, StageInv, IsExclusiveFallback
<1>6. FoundInv'
  BY <1>1 DEF FinderInv, FoundInv, ReturnsTested
<1>7. CacheInv'
  BY <1>1, <1>2 DEF CacheInv
<1> QED
  BY <1>3, <1>4, <1>5, <1>6, <1>7 DEF FinderInv

(* The inductive invariant of the calls of NewDialer of StrategyFinder.    *)
THEOREM FinderInvariance == FinderSpec => []FinderInv
<1>1. FinderInv /\ [FinderNext]_finderVars => FinderInv'
  <2> SUFFICES ASSUME FinderInv, [FinderNext]_finderVars PROVE FinderInv'
    OBVIOUS
  <2>1. CASE UNCHANGED finderVars
    <3>1. FinderTypeOK'
      BY <2>1 DEF finderVars, FinderInv, FinderTypeOK
    <3>2. RankInv' /\ CacheInv'
      BY <2>1 DEF finderVars, FinderInv, RankInv, CacheInv
    <3>3. StageInv' /\ FoundInv'
      BY <2>1 DEF finderVars, FinderInv, StageInv, IsExclusiveFallback, FoundInv, ReturnsTested
    <3> QED
      BY <3>1, <3>2, <3>3 DEF FinderInv
  <2> QED
    BY <2>1, ReadCacheKeeps, ResumeKeeps, FindDnsKeeps, FindTlsKeeps, FindFallbackKeeps,
       PutResultKeeps DEF FinderNext
<1> QED
  BY <1>1, FinderInitial, PTL DEF FinderSpec

(* NewDialer of StrategyFinder: a dialer is made only of entries of the    *)
(* configuration that passed their test in this very call, also when the   *)
(* strategy was cached; ranking keeps every entry, the cached ones first;  *)
(* and what the cache holds once a call has returned is the strategy of a  *)
(* call that has returned, for any configurations, cache and number of     *)
(* concurrent calls.                                                       *)
THEOREM SearchIsSound == FinderSpec => []SearchSound
<1>1. FinderInv => SearchSound
  <2> SUFFICES ASSUME FinderInv PROVE SearchSound
    OBVIOUS
  <2>1. ASSUME NEW c \in Callers PROVE RanksAll(c)
    <3>1. ASSUME NEW part \in {"dns", "tls", "fallback"}
          PROVE  Len(ranked[c][part]) = Len(input[c][part]) /\ Elements(ranked[c][part]) = Elements(input[c][part])
      BY DEF FinderInv, RankInv, SameEntries
    <3>2. ASSUME stage[c] # "new", NEW w \in seen[c], NEW part \in {"dns", "tls"},
                 Len(w[part]) = 1 /\ w[part][1] \in Elements(input[c][part])
          PROVE  ranked[c][part][1] = w[part][1]
      BY <3>2 DEF FinderInv, RankInv
    <3> QED
      BY <3>1, <3>2 DEF RanksAll
  <2>2. CacheIsCurrent
    <3> SUFFICES ASSUME NEW c \in Callers, stage[c] = "done", NEW w \in cache
                 PROVE  \E x \in Callers : stage[x] = "done" /\ w \in found[x]
      BY DEF CacheIsCurrent
    <3>1. \E x \in Callers : stage[x] = "done" /\ cache = found[x]
      BY DEF FinderInv, CacheInv
    <3> QED
      BY <3>1
  <2> QED
    BY <2>1, <2>2 DEF FinderInv, FoundInv, FinderSound, SearchSound
<1> QED
  BY <1>1, FinderInvariance, PTL

-----------------------------------------------------------------------------
(***************************************************************************)
(* Induction, for sets of naturals in place of predicates.                 *)
(***************************************************************************)
(* The order of the naturals.                                              *)
Less == {p \in Nat \X Nat : p[1] < p[2]}

(* Every non-empty set of naturals has a least element: the order of the   *)
(* naturals is well founded, stated for a set instead of a predicate.      *)
LEMMA LeastElement ==
  ASSUME NEW T \in SUBSET Nat, T # {}
  PROVE  \E n \in T : \A m \in T : n <= m
<1>1. IsWellFoundedOn(Less, Nat)
  BY NatLessThanWellFounded DEF OpToRel, Less
<1>2. T \subseteq Nat
  OBVIOUS
<1>3. PICK n \in T : \A m \in T : ~(<<m, n>> \in Less)
  BY <1>1, <1>2, WFMin
<1>4. ASSUME NEW m \in T PROVE n <= m
  <2>1. ~(m < n)
    BY <1>3 DEF Less
  <2> QED BY <2>1
<1> QED BY <1>4

(* Induction on the naturals, for a set instead of a predicate.            *)
LEMMA SetInduction ==
  ASSUME NEW T \in SUBSET Nat, 0 \in T, \A n \in T : n + 1 \in T
  PROVE  T = Nat
<1>1. SUFFICES ASSUME Nat \ T # {} PROVE FALSE
  OBVIOUS
<1>2. Nat \ T \in SUBSET Nat
  OBVIOUS
<1>3. PICK n \in Nat \ T : \A m \in Nat \ T : n <= m
  BY <1>1, <1>2, LeastElement
<1>4. n # 0 /\ n - 1 \in Nat /\ (n - 1) + 1 = n
  OBVIOUS
<1>5. n - 1 \in T
  BY <1>3, <1>4
<1> QED BY <1>4, <1>5

-----------------------------------------------------------------------------
(***************************************************************************)
(* DnsQuery: an answer is to the question that was asked.                  *)
(***************************************************************************)
(* One turn of the loop of RemoveExpired, and the loop.                    *)
KeptStep(old, f, i) ==
  IF i = 0 THEN <<>>
  ELSE IF old[i].expired THEN f[i - 1] ELSE Append(f[i - 1], old[i])

IsKept(old, n, f) == f = [i \in 0 .. n |-> KeptStep(old, f, i)]

(* The loop of RemoveExpired is defined for every cache.                   *)
LEMMA KeptExists ==
  ASSUME NEW old, NEW k \in Nat
  PROVE  \E f : IsKept(old, k, f)
<1> DEFINE T == {n \in Nat : \E f : IsKept(old, n, f)}
<1>1. 0 \in T
  <2> DEFINE f == [i \in 0 .. 0 |-> <<>>]
  <2>1. f = [i \in 0 .. 0 |-> KeptStep(old, f, i)]
    BY DEF KeptStep
  <2> QED BY <2>1 DEF IsKept
<1>2. \A n \in T : n + 1 \in T
  <2> SUFFICES ASSUME NEW n \in Nat, NEW f, IsKept(old, n, f)
               PROVE  \E g : IsKept(old, n + 1, g)
    OBVIOUS
  <2> DEFINE g == [i \in 0 .. n + 1 |-> IF i = n + 1 THEN KeptStep(old, f, i) ELSE f[i]]
  <2>1. \A i \in 0 .. n : g[i] = f[i]
    OBVIOUS
  <2>2. \A i \in 0 .. n : f[i] = KeptStep(old, f, i)
    BY DEF IsKept
  <2>3. \A i \in 0 .. n + 1 : g[i] = KeptStep(old, g, i)
    BY <2>1, <2>2 DEF KeptStep
  <2>4. g = [i \in 0 .. n + 1 |-> g[i]]
    OBVIOUS
  <2> HIDE DEF g
  <2>5. g = [i \in 0 .. n + 1 |-> KeptStep(old, g, i)]
    BY <2>3, <2>4
  <2> QED BY <2>5 DEF IsKept
<1> HIDE DEF T
<1>3. T \in SUBSET Nat
  BY DEF T
<1>4. T = Nat
  BY <1>1, <1>2, <1>3, SetInduction
<1> QED BY <1>4 DEF T

(* RemoveExpired keeps entries of the cache, and no more than there were.  *)
LEMMA RemoveExpiredKeeps ==
  ASSUME NEW S, NEW old \in Seq(S)
  PROVE  RemoveExpired(old) \in Seq(S) /\ Len(RemoveExpired(old)) <= Len(old)
<1> DEFINE F == CHOOSE f : IsKept(old, Len(old), f)
<1>1. IsKept(old, Len(old), F)
  BY KeptExists
<1>2. RemoveExpired(old) = F[Len(old)]
  BY DEF RemoveExpired, IsKept, KeptStep
<1> HIDE DEF F
<1>3. \A i \in 0 .. Len(old) : F[i] = KeptStep(old, F, i)
  BY <1>1 DEF IsKept
<1> DEFINE T == {n \in Nat : n <= Len(old) => F[n] \in Seq(S) /\ Len(F[n]) <= n}
<1>4. 0 \in T
  <2>1. F[0] = <<>>
    BY <1>3 DEF KeptStep
  <2>2. F[0] \in Seq(S) /\ Len(F[0]) <= 0
    BY <2>1, EmptySeq
  <2> QED BY <2>2
<1>5. \A n \in T : n + 1 \in T
  <2> SUFFICES ASSUME NEW n \in Nat, n + 1 <= Len(old), F[n] \in Seq(S), Len(F[n]) <= n
               PROVE  F[n + 1] \in Seq(S) /\ Len(F[n + 1]) <= n + 1
    OBVIOUS
  <2>1. n + 1 \in 0 .. Len(old) /\ n + 1 # 0 /\ (n + 1) - 1 = n
    OBVIOUS
  <2>2. F[n + 1] = F[n] \/ F[n + 1] = Append(F[n], old[n + 1])
    BY <1>3, <2>1 DEF KeptStep
  <2>3. old[n + 1] \in S
    BY <2>1
  <2>4. /\ Append(F[n], old[n + 1]) \in Seq(S)
        /\ Len(Append(F[n], old[n + 1])) = Len(F[n]) + 1
    BY <2>3, AppendProperties
  <2>5. Len(F[n]) \in Nat
    OBVIOUS
  <2>6. CASE F[n + 1] = F[n]
    BY <2>5, <2>6
  <2>7. CASE F[n + 1] = Append(F[n], old[n + 1])
    BY <2>4, <2>5, <2>7
  <2> QED BY <2>2, <2>6, <2>7
<1> HIDE DEF T
<1>6. T \in SUBSET Nat
  BY DEF T
<1>7. T = Nat
  BY <1>4, <1>5, <1>6, SetInduction
<1> QED BY <1>2, <1>7 DEF T

(***************************************************************************)
(* The cache holds answers under the question they answer.                 *)
(***************************************************************************)
Keys == {CacheKey(q) : q \in Questions}

SoundEntries == {e \in [key : Keys, msg : Messages, expired : BOOLEAN] :
                   e.key = CacheKey(e.msg.about)}

(* Every variable keeps its type.                                          *)
QueryTypeOK ==
  /\ question \in [Clients -> Questions]
  /\ at \in [Clients -> {"search", "dial", "recv", "store", "done", "err"}]
  /\ answer \in [Clients -> SUBSET Messages]

(* The cache holds answers under their own keys, in its array.             *)
EntriesInv == entries \in Seq(SoundEntries) /\ Len(entries) <= CacheCap

(* What a call has received answers its question.                          *)
AnswersInv == \A c \in Clients : \A m \in answer[c] : CacheKey(m.about) = CacheKey(question[c])

(* The inductive invariant of the calls of Query.                          *)
QueryInv == QueryTypeOK /\ EntriesInv /\ AnswersInv

(* Keys tell names, up to their case, and types apart.                     *)
LEMMA KeysAreQuestions ==
  ASSUME NEW p, NEW q
  PROVE  CacheKey(p) = CacheKey(q) <=> Fold(p.name) = Fold(q.name) /\ p.type = q.type
BY DEF CacheKey

(* It holds before any call.                                               *)
LEMMA QueryInvInit == QueryInit => QueryInv
<1> SUFFICES ASSUME QueryInit PROVE QueryInv
  OBVIOUS
<1>1. QueryTypeOK /\ AnswersInv
  BY DEF QueryInit, QueryTypeOK, AnswersInv
<1>2. EntriesInv
  BY QueryAssumption, EmptySeq DEF QueryInit, EntriesInv
<1> QED BY <1>1, <1>2 DEF QueryInv

(* A hit moves to the front: no entry is lost and none is made up.         *)
LEMMA MovedToFront ==
  ASSUME NEW S, NEW s \in Seq(S), NEW i \in DOMAIN s
  PROVE  /\ <<s[i]>> \o SubSeq(s, 1, i - 1) \o SubSeq(s, i + 1, Len(s)) \in Seq(S)
         /\ Len(<<s[i]>> \o SubSeq(s, 1, i - 1) \o SubSeq(s, i + 1, Len(s))) = Len(s)
<1> DEFINE hit == <<s[i]>>
           before == SubSeq(s, 1, i - 1)
           after == SubSeq(s, i + 1, Len(s))
<1>1. i \in 1 .. Len(s) /\ s[i] \in S /\ Len(s) \in Nat
  OBVIOUS
<1>2. hit \in Seq(S) /\ Len(hit) = 1
  BY <1>1
<1>3. before \in Seq(S) /\ Len(before) = i - 1
  BY <1>1, SubSeqProperties
<1>4. after \in Seq(S) /\ Len(after) = Len(s) - i
  BY <1>1, SubSeqProperties
<1> HIDE DEF hit, before, after
<1>5. hit \o before \in Seq(S) /\ Len(hit \o before) = Len(hit) + Len(before)
  BY <1>2, <1>3, ConcatProperties
<1>6. /\ hit \o before \o after \in Seq(S)
      /\ Len(hit \o before \o after) = Len(hit \o before) + Len(after)
  BY <1>4, <1>5, ConcatProperties
<1> DEFINE whole == hit \o before \o after
<1>7. Len(whole) = Len(s)
  <2>1. i \in Int /\ Len(s) \in Int
    BY <1>1
  <2>2. Len(whole) = Len(hit \o before) + Len(after) /\ Len(hit \o before) = 1 + (i - 1)
    BY <1>2, <1>3, <1>5, <1>6
  <2> HIDE DEF whole
  <2> QED BY <1>4, <2>1, <2>2
<1> QED BY <1>6, <1>7 DEF hit, before, after

(* A call looks its question up, behind the expiry of old entries.         *)
LEMMA LookUpKeeps == ASSUME QueryInv, NEW c \in Clients, LookUp(c) PROVE QueryInv'
<1> DEFINE live == RemoveExpired(entries)
           hits == {i \in DOMAIN live : live[i].key = CacheKey(question[c])}
<1>1. live \in Seq(SoundEntries) /\ Len(live) <= CacheCap
  <2>1. Len(RemoveExpired(entries)) <= Len(entries) /\ RemoveExpired(entries) \in Seq(SoundEntries)
    BY RemoveExpiredKeeps DEF QueryInv, EntriesInv
  <2>2. Len(RemoveExpired(entries)) \in Nat /\ Len(entries) \in Nat /\ Len(entries) <= CacheCap
    BY <2>1 DEF QueryInv, EntriesInv
  <2> QED BY <2>1, <2>2, QueryAssumption
<1> HIDE DEF live
<1>2. CASE hits = {}
  <2>1. entries' = live /\ at' = [at EXCEPT ![c] = "dial"] /\ answer' = answer /\ question' = question
    BY <1>2 DEF LookUp, live, Go
  <2>2. EntriesInv'
    BY <2>1, <1>1 DEF EntriesInv
  <2>3. QueryTypeOK'
    BY <2>1 DEF QueryInv, QueryTypeOK
  <2>4. AnswersInv'
    BY <2>1 DEF QueryInv, AnswersInv
  <2> QED BY <2>2, <2>3, <2>4 DEF QueryInv
<1>3. CASE hits # {}
  <2> DEFINE first == CHOOSE i \in hits : \A j \in hits : i <= j
  <2>1. first \in hits
    <3>1. DOMAIN live \in SUBSET Nat
      BY <1>1
    <3>1a. hits \in SUBSET Nat
      BY <3>1
    <3> HIDE DEF hits
    <3>2. \E i \in hits : \A j \in hits : i <= j
      BY <1>3, <3>1a, LeastElement
    <3> QED BY <3>2
  <2>2. /\ entries' = <<live[first]>> \o SubSeq(live, 1, first - 1)
                        \o SubSeq(live, first + 1, Len(live))
        /\ answer' = [answer EXCEPT ![c] = {live[first].msg}]
        /\ at' = [at EXCEPT ![c] = "done"] /\ question' = question
    BY <1>3 DEF LookUp, live, Go
  <2> HIDE DEF first
  <2>3. first \in DOMAIN live /\ live[first].key = CacheKey(question[c])
    BY <2>1
  <2> HIDE DEF hits
  <2>4. live[first] \in SoundEntries
    BY <1>1, <2>3
  <2>5. live[first].msg \in Messages /\ CacheKey(live[first].msg.about) = CacheKey(question[c])
    BY <2>3, <2>4 DEF SoundEntries
  <2>6. EntriesInv'
    BY <2>2, <2>3, <1>1, MovedToFront DEF EntriesInv
  <2>7. QueryTypeOK'
    BY <2>2, <2>5 DEF QueryInv, QueryTypeOK
  <2>8. AnswersInv'
    <3>1. \A d \in Clients \ {c} : answer'[d] = answer[d]
      BY <2>2 DEF QueryInv, QueryTypeOK
    <3>2. answer'[c] = {live[first].msg}
      BY <2>2 DEF QueryInv, QueryTypeOK
    <3> QED BY <3>1, <3>2, <2>2, <2>5 DEF QueryInv, AnswersInv
  <2> QED BY <2>6, <2>7, <2>8 DEF QueryInv
<1> QED BY <1>2, <1>3

(* A call stores its answer in front, and the last entry may fall out.     *)
LEMMA StoreKeeps == ASSUME QueryInv, NEW c \in Clients, Store(c) PROVE QueryInv'
<1>1. PICK m \in answer[c] :
        entries' = IF m.cacheable
                   THEN LET grown == <<[key |-> CacheKey(question[c]), msg |-> m, expired |-> FALSE]>> \o entries
                        IN SubSeq(grown, 1, IF Len(grown) > CacheCap THEN CacheCap ELSE Len(grown))
                   ELSE entries
  BY DEF Store
<1>2. at' = [at EXCEPT ![c] = "done"] /\ answer' = answer /\ question' = question
  BY DEF Store, Go
<1>3. QueryTypeOK' /\ AnswersInv'
  BY <1>2 DEF QueryInv, QueryTypeOK, AnswersInv
<1>4. EntriesInv'
  <2> DEFINE new == [key |-> CacheKey(question[c]), msg |-> m, expired |-> FALSE]
             grown == <<new>> \o entries
             k == IF Len(grown) > CacheCap THEN CacheCap ELSE Len(grown)
  <2>1. CASE ~m.cacheable
    BY <1>1, <2>1 DEF QueryInv, EntriesInv
  <2>2. CASE m.cacheable
    <3>1. new \in SoundEntries
      <4>1. m \in Messages /\ CacheKey(m.about) = CacheKey(question[c]) /\ question[c] \in Questions
        BY DEF QueryInv, QueryTypeOK, AnswersInv
      <4> QED BY <4>1 DEF SoundEntries, Keys
    <3>2. entries' = SubSeq(grown, 1, k)
      BY <1>1, <2>2
    <3> HIDE DEF new
    <3>3. <<new>> \in Seq(SoundEntries) /\ entries \in Seq(SoundEntries)
      BY <3>1 DEF QueryInv, EntriesInv
    <3>4. grown \in Seq(SoundEntries)
      BY <3>3, ConcatProperties
    <3> HIDE DEF grown
    <3>5. k \in Nat /\ k <= Len(grown) /\ k <= CacheCap
      BY <3>4, QueryAssumption
    <3> HIDE DEF k
    <3>6. SubSeq(grown, 1, k) \in Seq(SoundEntries) /\ Len(SubSeq(grown, 1, k)) = k
      <4>1. CASE k = 0
        BY <3>4, <4>1, SubSeqEmpty, EmptySeq
      <4>2. CASE k > 0
        BY <3>4, <3>5, <4>2, SubSeqProperties
      <4> QED BY <3>5, <4>1, <4>2
    <3> QED BY <3>2, <3>5, <3>6 DEF EntriesInv
  <2> QED BY <2>1, <2>2
<1> QED BY <1>3, <1>4 DEF QueryInv

(* An entry expires.                                                       *)
LEMMA ExpireKeeps == ASSUME QueryInv, Expire PROVE QueryInv'
<1>1. PICK i \in DOMAIN entries : /\ entries' = [entries EXCEPT ![i].expired = TRUE]
                                  /\ UNCHANGED <<question, at, answer>>
  BY DEF Expire
<1>2. QueryTypeOK' /\ AnswersInv'
  BY <1>1 DEF QueryInv, QueryTypeOK, AnswersInv
<1>3. EntriesInv'
  <2>1. entries \in Seq(SoundEntries) /\ Len(entries) <= CacheCap /\ i \in 1 .. Len(entries)
    BY DEF QueryInv, EntriesInv
  <2>2. entries[i] \in SoundEntries
    BY <2>1
  <2> DEFINE e == [entries[i] EXCEPT !.expired = TRUE]
  <2>3. e \in SoundEntries
    BY <2>2 DEF SoundEntries
  <2>4. entries' = [entries EXCEPT ![i] = e]
    BY <1>1
  <2> HIDE DEF e
  <2>5. entries' \in Seq(SoundEntries) /\ Len(entries') = Len(entries)
    BY <2>1, <2>3, <2>4, ExceptSeq
  <2> QED BY <2>1, <2>5 DEF EntriesInv
<1> QED BY <1>2, <1>3 DEF QueryInv

(* A call receives a packet that answers its question, or another one.     *)
LEMMA ReceiveKeeps ==
  ASSUME QueryInv, NEW c \in Clients, NEW m \in Messages, Receive(c, m) PROVE QueryInv'
<1>1. question' = question /\ entries' = entries
  BY DEF Receive
<1>2. EntriesInv'
  BY <1>1 DEF QueryInv, EntriesInv
<1>3. CASE CheckResponse(m, question[c])
  <2>1. answer' = [answer EXCEPT ![c] = {m}] /\ at' = [at EXCEPT ![c] = "store"]
    BY <1>3 DEF Receive, Go
  <2>2. CacheKey(m.about) = CacheKey(question[c])
    BY <1>3, KeysAreQuestions DEF CheckResponse
  <2>3. QueryTypeOK'
    BY <1>1, <2>1 DEF QueryInv, QueryTypeOK
  <2>4. AnswersInv'
    BY <1>1, <2>1, <2>2 DEF QueryInv, QueryTypeOK, AnswersInv
  <2> QED BY <1>2, <2>3, <2>4 DEF QueryInv
<1>4. CASE ~CheckResponse(m, question[c])
  <2>1. answer' = answer /\ (at' = at \/ at' = [at EXCEPT ![c] = "err"])
    BY <1>4 DEF Receive, Go
  <2>2. QueryTypeOK' /\ AnswersInv'
    BY <1>1, <2>1 DEF QueryInv, QueryTypeOK, AnswersInv
  <2> QED BY <1>2, <2>2 DEF QueryInv
<1> QED BY <1>3, <1>4

(* Every step of a call keeps it.                                          *)
LEMMA QueryInvNext == QueryInv /\ [QueryNext]_queryVars => QueryInv'
<1> SUFFICES ASSUME QueryInv, [QueryNext]_queryVars PROVE QueryInv'
  OBVIOUS
<1>1. CASE UNCHANGED queryVars
  BY <1>1 DEF queryVars, QueryInv, QueryTypeOK, EntriesInv, AnswersInv
<1>2. CASE Expire
  BY <1>2, ExpireKeeps
<1>3. ASSUME NEW c \in Clients, LookUp(c) PROVE QueryInv'
  BY <1>3, LookUpKeeps
<1>4. ASSUME NEW c \in Clients, Store(c) PROVE QueryInv'
  BY <1>4, StoreKeeps
<1>5. ASSUME NEW c \in Clients, Send(c) \/ QueryFails(c) PROVE QueryInv'
  <2>1. /\ UNCHANGED <<question, answer, entries>>
        /\ at' = [at EXCEPT ![c] = "recv"] \/ at' = [at EXCEPT ![c] = "err"]
    BY <1>5 DEF Send, QueryFails, Go
  <2> QED BY <2>1 DEF QueryInv, QueryTypeOK, EntriesInv, AnswersInv
<1>6. ASSUME NEW c \in Clients, NEW m \in Messages, Receive(c, m) PROVE QueryInv'
  BY <1>6, ReceiveKeeps
<1> QED BY <1>1, <1>2, <1>3, <1>4, <1>5, <1>6 DEF QueryNext

(* Whatever the mix of callers, of packets that are not the answer and of  *)
(* entries that expire or fall out, Query returns an answer to the         *)
(* question it was asked, and the cache stays within its array.            *)
THEOREM QueryAnswersSound == QuerySpec => []AnswersAskedQuestion
<1>1. QueryInv => AnswersAskedQuestion
  BY KeysAreQuestions DEF QueryInv, EntriesInv, AnswersInv, AnswersAskedQuestion
<1> QED BY <1>1, QueryInvInit, QueryInvNext, PTL DEF QuerySpec
=============================================================================
