----------------------------- MODULE HostProofs -----------------------------
(***************************************************************************)
(* Proofs about Collectors, HostSession and SysProxy, for any number of    *)
(* retries, runs, services and calls.                                      *)
(***************************************************************************)
EXTENDS Collectors, HostSession, SysProxy, SequenceTheorems, TLAPS

-----------------------------------------------------------------------------
(***************************************************************************)
(* Collectors: retries stop at an answer.                                  *)
(***************************************************************************)
(* A collector's counters and where it is.                                 *)
CollectTypeOK ==
  /\ nested \in {"remote", "fallback"}
  /\ attempt \in 0..(MaxRetry + 1)
  /\ remote \in 1..Remotes /\ asked \in [1..Remotes -> Nat]
  /\ received \in Nat /\ refusals \in Nat /\ after \in Nat
  /\ answers \subseteq Answers
  /\ collect \in {"run", "called", "sleep", "nil", "error", "skipped"}

(* A refused attempt of a lone collector is the last one: the refusal is   *)
(* among its answers until the loop has broken off.                        *)
RefusalEndsLoop ==
  /\ nested = "remote" /\ refusals > 0 => collect \in {"called", "error"} /\ "refused" \in answers
  /\ "refused" \in answers => refusals > 0
  /\ nested = "remote" => after = 0
  /\ collect = "nil" => received > 0

(* An attempt asks the collectors it reaches in their order, each once;    *)
(* when it has failed it has asked all of them.                            *)
AskedInv ==
  /\ nested = "remote" => remote = 1
  /\ collect \in {"run", "called", "nil"} => attempt > 0
  /\ \A r \in 1..Remotes :
       /\ r \notin Reached => asked[r] = 0
       /\ asked[r] <= attempt
       /\ r \in Reached =>
            /\ collect = "run" => asked[r] = IF r < remote THEN attempt ELSE attempt - 1
            /\ collect = "called" => asked[r] = IF r <= remote THEN attempt ELSE attempt - 1
            /\ collect = "sleep" => asked[r] = attempt
            /\ collect = "error" => (nested = "remote" /\ refusals > 0) \/ asked[r] = MaxRetry + 1

CollectInv == CollectTypeOK /\ RefusalEndsLoop /\ AskedInv

(* The inductive invariant of a Collect call.                              *)
THEOREM CollectInvariance == CollectSpec => []CollectInv
<1>1. CollectInit => CollectInv
  BY CollectAssumption DEF CollectInit, CollectInv, CollectTypeOK, RefusalEndsLoop, AskedInv
<1>2. CollectInv /\ [CollectNext]_collectVars => CollectInv'
  <2> SUFFICES ASSUME CollectInv, [CollectNext]_collectVars PROVE CollectInv'
    OBVIOUS
  <2> USE CollectAssumption DEF CollectInv, CollectTypeOK, RefusalEndsLoop
  <2>1. CASE NotSampled \/ GivesUp
    BY <2>1 DEF NotSampled, GivesUp, AskedInv, Reached
  <2>2. CASE FallsBack
    BY <2>2 DEF FallsBack, AskedInv, Reached
  <2>3. CASE Attempt
    BY <2>3 DEF Attempt, AskedInv, Reached
  <2>4. CASE Send
    <3>1. CollectTypeOK' /\ RefusalEndsLoop'
      BY <2>4 DEF Send, Answers, Success
    <3>2. AskedInv'
      BY <2>4 DEF Send, AskedInv, Reached
    <3> QED
      BY <3>1, <3>2
  <2>5. CASE CallFailed
    <3>1. CollectTypeOK' /\ RefusalEndsLoop'
      BY <2>5 DEF CallFailed, SeesRefusal
    <3>2. AskedInv'
      BY <2>5 DEF CallFailed, SeesRefusal, AskedInv, Reached
    <3> QED
      BY <3>1, <3>2
  <2>6. CASE UNCHANGED collectVars
    BY <2>6 DEF collectVars, AskedInv, Reached
  <2> QED
    BY <2>1, <2>2, <2>3, <2>4, <2>5, <2>6 DEF CollectNext
<1> QED
  BY <1>1, <1>2, PTL DEF CollectSpec

(* Collect of RetryCollector and FallbackCollector: success means that a   *)
(* server has the report; each remote collector is asked once per attempt  *)
(* at most and, before an error is returned, in every one, unless a lone   *)
(* collector's server has refused, which is not asked again.               *)
THEOREM CollectRetriesSound == CollectSpec => []RetriesAreSound
<1>1. CollectInv => RetriesAreSound
  <2> SUFFICES ASSUME CollectInv PROVE RetriesAreSound
    OBVIOUS
  <2>1. \A r \in 1..Remotes : asked[r] <= MaxRetry + 1
    BY CollectAssumption DEF CollectInv, CollectTypeOK, AskedInv
  <2>2. Reached \subseteq 1..Remotes
    BY CollectAssumption DEF Reached
  <2> QED
    BY <2>1, <2>2 DEF CollectInv, RefusalEndsLoop, AskedInv, RetriesAreSound
<1> QED
  BY <1>1, CollectInvariance, PTL

-----------------------------------------------------------------------------
(***************************************************************************)
(* HostSession: the machine is as it was.                                  *)
(***************************************************************************)
(* Where Run is, and how many calls it has deferred by then.               *)
Pcs == {"off", "tun", "ipv6", "device", "copy", "backup", "write", "link", "gateway", "rule",
        "serve", "unwind", "returned"}
Depth(step) == CASE step \in {"off", "returned"} -> 0
                 [] step = "tun" -> 1
                 [] step = "ipv6" -> 2
                 [] step = "device" -> 3
                 [] step \in {"copy", "backup", "write"} -> 4
                 [] step \in {"link", "gateway", "rule"} -> 5
                 [] step = "serve" -> 6

(* The deferred calls in the order in which Run defers them.               *)
Calls == <<"wait", "tun", "ipv6", "device", "dns", "routing">>
CallNames == {"wait", "tun", "ipv6", "device", "dns", "routing"}
Stacked(d) == /\ d \in Seq(CallNames) /\ Len(d) \in 0..6
              /\ \A i \in 1..Len(d) : d[i] = Calls[Len(d) + 1 - i]

(* Every variable keeps its type, and the deferred calls are the ones Run  *)
(* defers, in its order.                                                   *)
Contents == [Files -> {"orig", "ours", "none"}]
HostTypeOK ==
  /\ file \in Contents /\ backup \in Contents
  /\ found \in [file: Contents, backup: Contents, ipv6: {"on", "off"}, rule: {"none", "set"}]
  /\ ipv6 \in {"on", "off"} /\ prevIPv6 \in {"on", "off"}
  /\ tun \in {"none", "open"} /\ device \in {"none", "open", "closed"}
  /\ routes \subseteq {"link", "gateway"} /\ rule \in {"none", "set"}
  /\ pc \in Pcs /\ Stacked(deferred)
  /\ pc # "unwind" => Len(deferred) = Depth(pc)
  /\ backups \in {<<>>, <<"conf">>, <<"conf", "head">>, <<"head">>}
  /\ runs \in Nat /\ crashes \in Nat /\ half \in BOOLEAN

(* What a deferred call will undo: the others have nothing to undo.        *)
UndoInv ==
  /\ Len(deferred) < 2 => tun = "none" /\ routes = {}
  /\ pc # "off" => /\ IF Len(deferred) < 3 THEN ipv6 = found.ipv6 ELSE prevIPv6 = found.ipv6
                   /\ Len(deferred) < 6 => rule \in {"none", found.rule}

(* The files on the list of backups, until the setting of the files fails  *)
(* halfway and leaves it: then nobody puts them back.                      *)
Listed(f) == backups \in {<<f>>, <<"conf", "head">>}
BackupInv ==
  /\ pc \in {"tun", "ipv6", "device", "copy"} => backups = <<>>
  /\ pc = "backup" => backups \in {<<>>, <<"conf">>}
  /\ pc = "write" => backups \in {<<"conf">>, <<"conf", "head">>}
  /\ pc \in {"link", "gateway", "rule", "serve"} => backups = <<"conf", "head">>
  /\ half => pc \in {"unwind", "returned", "off"} /\ Len(deferred) < 5
  /\ pc \in {"unwind", "returned", "off"} /\ Len(deferred) < 5 /\ ~half => backups = <<>>

(* Those on the list are saved. The others are as the run found them on    *)
(* the way in and restored on the way out; a run that ends before it has   *)
(* set the files has changed none of them.                                 *)
FileInv ==
  /\ ~half => \A f \in Files : Listed(f) => Saved(f)
  /\ pc \notin {"unwind", "returned", "off"} => \A f \in Files : ~Listed(f) => LeftAlone(f)
  /\ pc = "unwind" /\ ~(Len(deferred) < 5) => \A f \in Files : ~Listed(f) => Restored(f)
  /\ pc \in {"unwind", "returned"} /\ Len(deferred) < 5 /\ ~half =>
       (\A f \in Files : LeftAlone(f)) \/ (\A f \in Files : Restored(f))
  /\ half /\ pc # "off" => \A f \in Files : LeftAlone(f) \/ Saved(f)

HostInv == HostTypeOK /\ UndoInv /\ BackupInv /\ FileInv

(* Deferring one call more, and making the last one.                       *)
LEMMA StackOps ==
  ASSUME NEW d, Stacked(d)
  PROVE  /\ Len(d) \in 0..6
         /\ \A x \in CallNames : Len(d) < 6 /\ x = Calls[Len(d) + 1] =>
              Stacked(<<x>> \o d) /\ Len(<<x>> \o d) = Len(d) + 1
         /\ d # <<>> => /\ Stacked(Tail(d)) /\ Len(Tail(d)) = Len(d) - 1 /\ Len(d) > 0
                        /\ Head(d) = Calls[Len(d)]
         /\ d = <<>> => Len(d) = 0
<1>1. Len(d) \in 0..6 /\ d \in Seq(CallNames)
  BY DEF Stacked
<1>2. ASSUME NEW x \in CallNames, Len(d) < 6, x = Calls[Len(d) + 1]
      PROVE  Stacked(<<x>> \o d) /\ Len(<<x>> \o d) = Len(d) + 1
  <2> DEFINE e == <<x>> \o d
  <2>1. <<x>> \in Seq(CallNames) /\ Len(<<x>>) = 1 /\ <<x>>[1] = x
    OBVIOUS
  <2>2. /\ e \in Seq(CallNames) /\ Len(e) = 1 + Len(d)
        /\ \A i \in 1..Len(e) : e[i] = IF i <= 1 THEN <<x>>[i] ELSE d[i - 1]
    BY <1>1, <2>1, ConcatProperties
  <2>3. ASSUME NEW i \in 1..Len(e) PROVE e[i] = Calls[Len(e) + 1 - i]
    <3>1. CASE i = 1
      BY <1>1, <1>2, <2>1, <2>2, <3>1
    <3>2. CASE i # 1
      <4>1. i - 1 \in 1..Len(d) /\ e[i] = d[i - 1]
        BY <1>1, <2>2, <3>2
      <4>2. d[i - 1] = Calls[Len(d) + 1 - (i - 1)]
        BY <4>1 DEF Stacked
      <4>3. Len(d) + 1 - (i - 1) = Len(e) + 1 - i
        BY <1>1, <2>2
      <4> QED
        BY <4>1, <4>2, <4>3
    <3> QED
      BY <3>1, <3>2
  <2> QED
    BY <1>1, <1>2, <2>2, <2>3 DEF Stacked
<1>3. ASSUME d # <<>>
      PROVE  /\ Stacked(Tail(d)) /\ Len(Tail(d)) = Len(d) - 1 /\ Len(d) > 0
             /\ Head(d) = Calls[Len(d)]
  <2>1. /\ Tail(d) \in Seq(CallNames) /\ Len(Tail(d)) = Len(d) - 1 /\ Len(d) > 0 /\ Head(d) = d[1]
        /\ \A i \in 1..Len(Tail(d)) : Tail(d)[i] = d[i + 1]
    BY <1>1, <1>3, HeadTailProperties, EmptySeq, LenProperties
  <2>2. ASSUME NEW i \in 1..Len(Tail(d)) PROVE Tail(d)[i] = Calls[Len(Tail(d)) + 1 - i]
    <3>1. i + 1 \in 1..Len(d) /\ Len(d) + 1 - (i + 1) = Len(Tail(d)) + 1 - i
      <4>1. Len(d) \in 1..6 /\ Len(Tail(d)) = Len(d) - 1
        BY <1>1, <2>1
      <4> QED
        BY <4>1
    <3>2. d[i + 1] = Calls[Len(d) + 1 - (i + 1)]
      BY <3>1 DEF Stacked
    <3> QED
      BY <2>1, <3>1, <3>2
  <2>3. Head(d) = Calls[Len(d)]
    <3>1. 1 \in 1..Len(d) /\ Len(d) + 1 - 1 = Len(d)
      BY <1>1, <2>1
    <3> QED
      BY <2>1, <3>1 DEF Stacked
  <2>4. Len(d) - 1 \in 0..6
    BY <1>1, <2>1
  <2>5. Stacked(Tail(d))
    BY <2>1, <2>2, <2>4, Zenon DEF Stacked
  <2> QED
    BY <2>1, <2>3, <2>5
<1>4. d = <<>> => Len(d) = 0
  OBVIOUS
<1> QED
  BY <1>1, <1>2, <1>3, <1>4
(* The list of backups once both files were moved.                         *)
LEMMA BothFiles == Append(<<"conf">>, "head") = <<"conf", "head">>
<1> DEFINE both == Append(<<"conf">>, "head")
<1>1. <<"conf">> \in Seq({"conf", "head"}) /\ Len(<<"conf">>) = 1 /\ <<"conf">>[1] = "conf"
  OBVIOUS
<1>2. <<"conf", "head">> \in Seq({"conf", "head"}) /\ Len(<<"conf", "head">>) = 2
  OBVIOUS
<1>3. <<"conf", "head">>[1] = "conf" /\ <<"conf", "head">>[2] = "head"
  OBVIOUS
<1>4. both \in Seq({"conf", "head"}) /\ Len(both) = 2 /\ both[1] = "conf" /\ both[2] = "head"
  BY <1>1, AppendProperties
<1>5. \A i \in 1..Len(both) : both[i] = <<"conf", "head">>[i]
  <2>1. \A i \in 1..Len(both) : i = 1 \/ i = 2
    BY <1>4
  <2> QED
    BY <1>3, <1>4, <2>1
<1> QED
  BY <1>2, <1>4, <1>5, SeqEqual

(* There are six deferred calls.                                           *)
LEMMA TheCalls ==
  /\ Calls[1] = "wait" /\ Calls[2] = "tun" /\ Calls[3] = "ipv6" /\ Calls[4] = "device"
  /\ Calls[5] = "dns" /\ Calls[6] = "routing"
BY DEF Calls

(* A new call, put on top of the ones deferred so far.                     *)
LEMMA Deferring ==
  ASSUME HostTypeOK, NEW n \in 0..5, NEW x, Len(deferred) = n, x = Calls[n + 1]
  PROVE  Stacked(<<x>> \o deferred) /\ Len(<<x>> \o deferred) = n + 1
<1>1. Stacked(deferred) /\ Len(deferred) < 6
  BY DEF HostTypeOK
<1>2. x \in CallNames
  <2>1. n = 0 \/ n = 1 \/ n = 2 \/ n = 3 \/ n = 4 \/ n = 5
    OBVIOUS
  <2> QED
    BY <2>1, TheCalls DEF CallNames
<1> QED
  BY <1>1, <1>2, StackOps

(* What is said of a file is about it, its backup and the list of backups. *)
LEMMA SameFiles ==
  ASSUME UNCHANGED <<file, backup, backups, found>>
  PROVE  /\ \A f \in Files : (Listed(f)' <=> Listed(f)) /\ (Saved(f)' <=> Saved(f))
         /\ \A f \in Files : (LeftAlone(f)' <=> LeftAlone(f)) /\ (Restored(f)' <=> Restored(f))
BY DEF Listed, Saved, LeftAlone, Restored, Kept

(* Before the first run there is nothing on the list.                      *)
LEMMA HostInitial == HostInit => HostInv
<1> SUFFICES ASSUME HostInit PROVE HostInv
  OBVIOUS
<1>1. Stacked(<<>>) /\ Len(<<>>) = 0
  BY DEF Stacked
<1>2. HostTypeOK
  <2>1. file \in Contents /\ backup \in Contents
    BY DEF HostInit, Contents
  <2>2. ipv6 \in {"on", "off"} /\ prevIPv6 \in {"on", "off"} /\ runs \in Nat /\ crashes \in Nat
    BY DEF HostInit
  <2>3. found \in [file: Contents, backup: Contents, ipv6: {"on", "off"}, rule: {"none", "set"}]
    BY <2>1, <2>2 DEF HostInit, AsItIs
  <2>4. /\ pc \in Pcs /\ Stacked(deferred) /\ backups = <<>>
        /\ pc # "unwind" => Len(deferred) = Depth(pc)
    BY <1>1 DEF HostInit, Pcs, Depth
  <2> QED
    BY <2>1, <2>2, <2>3, <2>4 DEF HostInit, HostTypeOK
<1>3. UndoInv /\ BackupInv
  BY <1>1 DEF HostInit, UndoInv, BackupInv
<1>4. FileInv
  BY DEF HostInit, FileInv, Listed
<1> QED
  BY <1>2, <1>3, <1>4 DEF HostInv

(* On the way in, without a failed setting, what is said of the files is   *)
(* said of the list alone.                                                 *)
LEMMA OnTheWayIn ==
  ASSUME HostInv, pc \notin {"unwind", "returned", "off"}
  PROVE  /\ ~half
         /\ \A f \in Files : IF Listed(f) THEN Saved(f) ELSE LeftAlone(f)
<1>1. ~half
  BY DEF HostInv, BackupInv
<1> QED
  BY <1>1 DEF HostInv, FileInv

(* As long as the files, the list and the way stay, so does what is said.  *)
LEMMA FilesStay ==
  ASSUME HostInv, UNCHANGED <<file, backup, backups, found, half>>,
         pc \notin {"unwind", "returned", "off"}, pc' \notin {"unwind", "returned", "off"}
  PROVE  FileInv'
<1>1. ~half' /\ \A f \in Files : IF Listed(f)' THEN Saved(f)' ELSE LeftAlone(f)'
  BY OnTheWayIn, SameFiles
<1> QED
  BY <1>1 DEF FileInv

(* A failed step leaves everything to the deferred calls.                  *)
LEMMA StepFailsKeeps ==
  ASSUME HostInv, NEW step \in {"tun", "ipv6", "device", "link", "gateway", "serve"},
         StepFails(step), UNCHANGED half
  PROVE  HostInv'
<1>1. HostTypeOK'
  BY DEF HostInv, HostTypeOK, StepFails, machine, counts, Pcs
<1>2. Len(deferred) = Depth(step) /\ pc = step
  BY DEF HostInv, HostTypeOK, StepFails
<1>3. UndoInv'
  BY DEF HostInv, UndoInv, StepFails, machine, counts
<1>4. BackupInv'
  BY <1>2 DEF HostInv, BackupInv, StepFails, counts, Depth
<1>5. FileInv'
  <2>1. /\ ~half' /\ pc' = "unwind" /\ deferred' = deferred
        /\ \A f \in Files : IF Listed(f)' THEN Saved(f)' ELSE LeftAlone(f)'
    <3>1. UNCHANGED <<file, backup, backups, found, half, deferred>> /\ pc' = "unwind"
      BY DEF StepFails, machine, counts
    <3> QED
      BY <1>2, <3>1, OnTheWayIn, SameFiles
  <2>2. CASE step \in {"tun", "ipv6", "device"}
    <3>1. Len(deferred') < 5 /\ backups' = <<>>
      BY <1>2, <2>1, <2>2 DEF HostInv, BackupInv, Depth, StepFails
    <3>2. \A f \in Files : ~Listed(f)'
      BY <3>1 DEF Listed
    <3> QED
      BY <2>1, <3>1, <3>2 DEF FileInv
  <2>3. CASE step \in {"link", "gateway", "serve"}
    <3>1. ~(Len(deferred') < 5) /\ backups' = <<"conf", "head">>
      BY <1>2, <2>1, <2>3 DEF HostInv, BackupInv, Depth, StepFails
    <3>2. \A f \in Files : Listed(f)'
      BY <3>1 DEF Listed
    <3> QED
      BY <2>1, <3>1, <3>2 DEF FileInv
  <2> QED
    BY <2>2, <2>3
<1> QED
  BY <1>1, <1>3, <1>4, <1>5 DEF HostInv

(* Run begins and takes the machine as it is.                              *)
LEMMA StartKeeps == ASSUME HostInv, Start PROVE HostInv'
<1>1. Stacked(<<"wait">>) /\ Len(<<"wait">>) = 1
  BY DEF Stacked, Calls, CallNames
<1>2. Len(deferred) = 0
  BY DEF HostInv, HostTypeOK, Start, Depth
<1>3. /\ found' = [file |-> file, backup |-> backup, ipv6 |-> ipv6, rule |-> rule]
      /\ UNCHANGED <<file, backup, ipv6, rule, tun, routes, prevIPv6, crashes>>
      /\ pc' = "tun" /\ backups' = <<>> /\ ~half'
  BY DEF Start, AsItIs
<1>4. HostTypeOK'
  <2>1. pc' \in Pcs /\ Stacked(deferred)' /\ Len(deferred') = Depth(pc')
    BY <1>1 DEF Start, Pcs, Depth
  <2>2. found' \in [file: Contents, backup: Contents, ipv6: {"on", "off"}, rule: {"none", "set"}]
    BY <1>3 DEF HostInv, HostTypeOK
  <2>3. half' \in BOOLEAN /\ backups' = <<>> /\ runs' = runs + 1 /\ device' = "none"
    BY DEF Start
  <2> QED
    BY <1>3, <2>1, <2>2, <2>3 DEF HostInv, HostTypeOK
<1>5. UndoInv'
  <2>1. Len(deferred') = 1
    BY <1>1 DEF Start
  <2> QED
    BY <1>2, <1>3, <2>1 DEF HostInv, UndoInv
<1>6. BackupInv'
  BY <1>3 DEF BackupInv
<1>7. FileInv'
  <2>1. \A f \in Files : LeftAlone(f)' /\ ~Listed(f)'
    BY <1>3 DEF LeftAlone, Listed
  <2> QED
    BY <1>3, <2>1 DEF FileInv
<1> QED
  BY <1>4, <1>5, <1>6, <1>7 DEF HostInv

(* The TUN device is opened and its close deferred.                        *)
LEMMA OpenTunKeeps == ASSUME HostInv, OpenTun, pc = "tun", pc' = "ipv6" PROVE HostInv'
<1>1. Len(deferred) = 1
  BY DEF HostInv, HostTypeOK, Depth
<1>2. /\ tun' = "open" /\ deferred' = <<"tun">> \o deferred
      /\ UNCHANGED <<file, backup, ipv6, device, routes, rule, counts, backups, prevIPv6, half>>
  BY DEF OpenTun, StepFails
<1>3. Stacked(deferred') /\ Len(deferred') = 2
  BY <1>1, <1>2, Deferring, TheCalls DEF HostInv
<1>4. HostTypeOK'
  BY <1>2, <1>3 DEF HostInv, HostTypeOK, counts, Pcs, Depth
<1>5. UndoInv'
  BY <1>1, <1>2, <1>3 DEF HostInv, UndoInv, counts
<1>6. BackupInv'
  BY <1>2, <1>3 DEF HostInv, BackupInv, counts
<1>7. FileInv'
  BY <1>2, FilesStay DEF counts
<1> QED
  BY <1>4, <1>5, <1>6, <1>7 DEF HostInv

(* IPv6 is switched off and its switching on deferred.                     *)
LEMMA DisableIPv6Keeps == ASSUME HostInv, DisableIPv6, pc = "ipv6", pc' = "device" PROVE HostInv'
<1>1. Len(deferred) = 2
  BY DEF HostInv, HostTypeOK, Depth
<1>2. /\ prevIPv6' = ipv6 /\ ipv6' = "off" /\ deferred' = <<"ipv6">> \o deferred
      /\ UNCHANGED <<file, backup, tun, device, routes, rule, counts, backups, half>>
  BY DEF DisableIPv6, StepFails
<1>3. Stacked(deferred') /\ Len(deferred') = 3
  BY <1>1, <1>2, Deferring, TheCalls DEF HostInv
<1>4. HostTypeOK'
  BY <1>2, <1>3 DEF HostInv, HostTypeOK, counts, Pcs, Depth
<1>5. UndoInv'
  BY <1>1, <1>2, <1>3 DEF HostInv, UndoInv, counts
<1>6. BackupInv'
  BY <1>2, <1>3 DEF HostInv, BackupInv, counts
<1>7. FileInv'
  BY <1>2, FilesStay DEF counts
<1> QED
  BY <1>4, <1>5, <1>6, <1>7 DEF HostInv

(* The Outline device is made and its close deferred.                      *)
LEMMA MakeDeviceKeeps == ASSUME HostInv, MakeDevice, pc = "device", pc' = "copy" PROVE HostInv'
<1>1. Len(deferred) = 3
  BY DEF HostInv, HostTypeOK, Depth
<1>2. /\ device' = "open" /\ deferred' = <<"device">> \o deferred
      /\ UNCHANGED <<file, backup, ipv6, tun, routes, rule, born, runs, crashes, found, backups,
                     prevIPv6, half>>
  BY DEF MakeDevice, StepFails
<1>3. Stacked(deferred') /\ Len(deferred') = 4
  BY <1>1, <1>2, Deferring, TheCalls DEF HostInv
<1>4. HostTypeOK'
  BY <1>2, <1>3 DEF HostInv, HostTypeOK, Pcs, Depth
<1>5. UndoInv'
  BY <1>1, <1>2, <1>3 DEF HostInv, UndoInv
<1>6. BackupInv'
  BY <1>2, <1>3 DEF HostInv, BackupInv
<1>7. FileInv'
  BY <1>2, FilesStay DEF counts
<1> QED
  BY <1>4, <1>5, <1>6, <1>7 DEF HostInv

(* The copying goroutines start; they change nothing of the machine.       *)
LEMMA StartCopiesKeeps == ASSUME HostInv, StartCopies PROVE HostInv'
<1>1. Len(deferred) = 4 /\ pc = "copy" /\ pc' = "backup"
  BY DEF HostInv, HostTypeOK, Depth, StartCopies
<1>2. HostTypeOK'
  BY <1>1 DEF HostInv, HostTypeOK, StartCopies, machine, Pcs, Depth
<1>3. UndoInv'
  BY DEF HostInv, UndoInv, StartCopies, machine
<1>4. BackupInv'
  BY DEF HostInv, BackupInv, StartCopies, machine
<1>5. FileInv'
  BY <1>1, FilesStay DEF StartCopies, machine
<1> QED
  BY <1>2, <1>3, <1>4, <1>5 DEF HostInv

(* A file is moved to its backup.                                          *)
LEMMA BackUpKeeps == ASSUME HostInv, BackUp PROVE HostInv'
<1>0. pc = "backup" /\ Len(deferred) = 4
  <2>1. pc = "backup"
    BY DEF BackUp, StepFails
  <2> QED
    BY <2>1 DEF HostInv, HostTypeOK, Depth
<1>1. CASE StepFails("backup") /\ half' = (backups # <<>>)
  <2>1. HostTypeOK'
    BY <1>1 DEF HostInv, HostTypeOK, StepFails, machine, counts, Pcs
  <2>2. UndoInv'
    BY <1>1 DEF HostInv, UndoInv, StepFails, machine, counts
  <2>3. BackupInv'
    <3>1. backups' = backups /\ pc' = "unwind" /\ deferred' = deferred /\ (half' <=> backups # <<>>)
      BY <1>1 DEF StepFails
    <3> QED
      BY <1>0, <3>1 DEF BackupInv
  <2>4. FileInv'
    <3>1. /\ UNCHANGED <<file, backup, backups, found, deferred>>
          /\ pc' = "unwind" /\ (half' <=> backups # <<>>)
      BY <1>1 DEF StepFails, machine, counts
    <3>2. \A f \in Files : IF Listed(f)' THEN Saved(f)' ELSE LeftAlone(f)'
      BY <1>0, <3>1, OnTheWayIn, SameFiles
    <3>3. Len(deferred') = 4
      BY <1>0, <3>1
    <3>4. ~half' => \A f \in Files : ~Listed(f)'
      BY <3>1 DEF Listed
    <3> QED
      BY <3>1, <3>2, <3>3, <3>4 DEF FileInv
  <2> QED
    BY <2>1, <2>2, <2>3, <2>4 DEF HostInv
<1>2. CASE ~(StepFails("backup") /\ half' = (backups # <<>>))
  <2>1. PICK f \in {"conf", "head"} :
          /\ \/ backups = <<>> /\ f = "conf" /\ backups' = <<"conf">>
             \/ backups = <<"conf">> /\ f = "head" /\ backups' = <<"conf", "head">>
          /\ backup' = IF file[f] # "none" THEN [backup EXCEPT ![f] = file[f]] ELSE backup
          /\ file' = [file EXCEPT ![f] = "none"] /\ pc' = "write"
          /\ UNCHANGED <<ipv6, tun, device, routes, rule, counts, deferred, prevIPv6, half>>
    <3>1. /\ backup' = IF file[NextFile] # "none" THEN [backup EXCEPT ![NextFile] = file[NextFile]]
                                                  ELSE backup
          /\ file' = [file EXCEPT ![NextFile] = "none"]
          /\ backups' = Append(backups, NextFile) /\ pc' = "write"
          /\ UNCHANGED <<ipv6, tun, device, routes, rule, counts, deferred, prevIPv6, half>>
      BY <1>2 DEF BackUp
    <3>2. backups = <<>> \/ backups = <<"conf">>
      BY <1>0 DEF HostInv, BackupInv
    <3>3. backups = <<>> => NextFile = "conf"
      BY DEF NextFile
    <3>4. backups = <<"conf">> => NextFile = "head"
      BY DEF NextFile
    <3>5. Append(<<>>, "conf") = <<"conf">>
      OBVIOUS
    <3>6. Append(<<"conf">>, "head") = <<"conf", "head">>
      BY BothFiles
    <3> QED
      BY <3>1, <3>2, <3>3, <3>4, <3>5, <3>6
  <2>2. backups' \in {<<>>, <<"conf">>, <<"conf", "head">>, <<"head">>}
    BY <2>1
  <2>3. f \in Files
    BY DEF Files
  <2>4. file' \in Contents /\ backup' \in Contents
    BY <2>1, <2>3 DEF HostInv, HostTypeOK, Contents
  <2>5. /\ file'[f] = "none" /\ backup'[f] = IF file[f] # "none" THEN file[f] ELSE backup[f]
        /\ \A g \in Files : g # f => file'[g] = file[g] /\ backup'[g] = backup[g]
    BY <2>1, <2>3 DEF HostInv, HostTypeOK, Contents
  <2>6. HostTypeOK'
    BY <1>0, <2>1, <2>2, <2>4 DEF HostInv, HostTypeOK, counts, Pcs, Depth
  <2>7. UndoInv'
    BY <1>0, <2>1 DEF HostInv, UndoInv, counts
  <2>8. BackupInv'
    BY <1>0, <2>1 DEF HostInv, BackupInv, counts
  <2>9. FileInv'
    <3>1. ~half /\ \A g \in Files : IF Listed(g) THEN Saved(g) ELSE LeftAlone(g)
      BY <1>0, OnTheWayIn
    <3>2. UNCHANGED <<half, found>>
      BY <2>1 DEF counts
    <3>3. ~Listed(f) /\ Listed(f)' /\ \A g \in Files : g # f => (Listed(g)' <=> Listed(g))
      <4>1. CASE backups = <<>>
        BY <2>1, <4>1 DEF Listed, Files
      <4>2. CASE backups = <<"conf">>
        BY <2>1, <4>2 DEF Listed, Files
      <4> QED
        BY <2>1, <4>1, <4>2
    <3>4. Saved(f)'
      BY <2>3, <2>5, <3>1, <3>2, <3>3 DEF LeftAlone, Saved, Kept
    <3>5. \A g \in Files : g # f => (Saved(g)' <=> Saved(g)) /\ (LeftAlone(g)' <=> LeftAlone(g))
      BY <2>5, <3>2 DEF LeftAlone, Saved, Kept
    <3>6. \A g \in Files : IF Listed(g)' THEN Saved(g)' ELSE LeftAlone(g)'
      BY <3>1, <3>3, <3>4, <3>5
    <3> QED
      BY <2>1, <3>1, <3>2, <3>6 DEF FileInv
  <2> QED
    BY <2>6, <2>7, <2>8, <2>9 DEF HostInv
<1> QED
  BY <1>1, <1>2 DEF BackUp

(* The file is written; after the second one its restoring is deferred.    *)
LEMMA WriteOursKeeps == ASSUME HostInv, WriteOurs PROVE HostInv'
<1>0. pc = "write" /\ Len(deferred) = 4
  <2>1. pc = "write"
    BY DEF WriteOurs, StepFails
  <2> QED
    BY <2>1 DEF HostInv, HostTypeOK, Depth
<1>1. CASE StepFails("write") /\ half' = TRUE
  <2>1. HostTypeOK'
    BY <1>1 DEF HostInv, HostTypeOK, StepFails, machine, counts, Pcs
  <2>2. UndoInv'
    BY <1>1 DEF HostInv, UndoInv, StepFails, machine, counts
  <2>3. BackupInv'
    <3>1. pc' = "unwind" /\ Len(deferred') = 4 /\ (half' <=> TRUE)
      BY <1>0, <1>1 DEF StepFails
    <3> QED
      BY <3>1 DEF BackupInv
  <2>4. FileInv'
    <3>1. UNCHANGED <<file, backup, backups, found, deferred>> /\ pc' = "unwind" /\ half'
      BY <1>1 DEF StepFails, machine, counts
    <3>2. \A f \in Files : IF Listed(f)' THEN Saved(f)' ELSE LeftAlone(f)'
      BY <1>0, <3>1, OnTheWayIn, SameFiles
    <3>3. Len(deferred') = 4
      BY <1>0, <3>1
    <3> QED
      BY <3>1, <3>2, <3>3 DEF FileInv
  <2> QED
    BY <2>1, <2>2, <2>3, <2>4 DEF HostInv
<1>2. CASE ~(StepFails("write") /\ half' = TRUE)
  <2>0. /\ file' = [file EXCEPT ![LastBacked] = "ours"]
        /\ IF Len(backups) = 2 THEN pc' = "link" /\ deferred' = <<"dns">> \o deferred
                               ELSE pc' = "backup" /\ deferred' = deferred
        /\ UNCHANGED <<backup, ipv6, tun, device, routes, rule, counts, backups, prevIPv6, half>>
    BY <1>2 DEF WriteOurs
  <2>1. PICK f \in {"conf", "head"} :
          /\ LastBacked = f
          /\ \/ backups = <<"conf">> /\ f = "conf" /\ Len(backups) = 1
             \/ backups = <<"conf", "head">> /\ f = "head" /\ Len(backups) = 2
    <3>1. backups = <<"conf">> \/ backups = <<"conf", "head">>
      BY <1>0 DEF HostInv, BackupInv
    <3>2. Len(<<"conf">>) = 1 /\ <<"conf">>[1] = "conf"
      OBVIOUS
    <3>3. Len(<<"conf", "head">>) = 2 /\ <<"conf", "head">>[2] = "head"
      OBVIOUS
    <3> QED
      BY <3>1, <3>2, <3>3 DEF LastBacked
  <2>2. f \in Files /\ Listed(f)
    BY <2>1 DEF Files, Listed
  <2>3. file' \in Contents
    BY <2>0, <2>1, <2>2 DEF HostInv, HostTypeOK, Contents
  <2>4. file'[f] = "ours" /\ \A g \in Files : g # f => file'[g] = file[g]
    BY <2>0, <2>1, <2>2 DEF HostInv, HostTypeOK, Contents
  <2>5. Stacked(<<"dns">> \o deferred) /\ Len(<<"dns">> \o deferred) = 5
    BY <1>0, Deferring, TheCalls DEF HostInv
  <2>6. \/ backups' = <<"conf">> /\ pc' = "backup" /\ deferred' = deferred /\ Len(deferred') = 4
        \/ backups' = <<"conf", "head">> /\ pc' = "link" /\ Stacked(deferred') /\ Len(deferred') = 5
    <3>1. CASE backups = <<"conf">>
      BY <1>0, <2>0, <2>1, <3>1
    <3>2. CASE backups = <<"conf", "head">>
      BY <2>0, <2>1, <2>5, <3>2
    <3> QED
      BY <2>1, <3>1, <3>2
  <2>7. HostTypeOK'
    <3>1. pc' \in Pcs /\ Stacked(deferred') /\ (pc' # "unwind" => Len(deferred') = Depth(pc'))
      BY <1>0, <2>6 DEF HostInv, HostTypeOK, Pcs, Depth
    <3> QED
      BY <2>0, <2>3, <3>1 DEF HostInv, HostTypeOK, counts
  <2>8. UndoInv'
    <3>1. Len(deferred') = 4 \/ Len(deferred') = 5
      BY <2>6
    <3>2. UNCHANGED <<prevIPv6, rule, found>>
      BY <2>0 DEF counts
    <3>3. prevIPv6 = found.ipv6 /\ rule \in {"none", found.rule}
      BY <1>0 DEF HostInv, UndoInv
    <3> QED
      BY <3>1, <3>2, <3>3 DEF UndoInv
  <2>9. BackupInv'
    <3>1. half' <=> FALSE
      BY <1>0, <2>0 DEF HostInv, BackupInv
    <3> QED
      BY <3>1, <2>6 DEF BackupInv
  <2>10. FileInv'
    <3>1. ~half /\ \A g \in Files : IF Listed(g) THEN Saved(g) ELSE LeftAlone(g)
      BY <1>0, OnTheWayIn
    <3>2. UNCHANGED <<half, found, backup, backups>>
      BY <2>0 DEF counts
    <3>3. Saved(f)'
      BY <2>2, <2>4, <3>1, <3>2 DEF Saved, Kept
    <3>4. \A g \in Files : g # f => (Saved(g)' <=> Saved(g)) /\ (LeftAlone(g)' <=> LeftAlone(g))
      BY <2>4, <3>2 DEF LeftAlone, Saved, Kept
    <3>5. \A g \in Files : Listed(g)' <=> Listed(g)
      BY <3>2 DEF Listed
    <3>6. \A g \in Files : IF Listed(g)' THEN Saved(g)' ELSE LeftAlone(g)'
      BY <2>2, <3>1, <3>3, <3>4, <3>5
    <3> QED
      BY <2>6, <3>1, <3>2, <3>6 DEF FileInv
  <2> QED
    BY <2>7, <2>8, <2>9, <2>10 DEF HostInv
<1> QED
  BY <1>1, <1>2

(* A route is added to the table.                                          *)
LEMMA AddRouteKeeps ==
  ASSUME HostInv, NEW step, NEW route \in {"link", "gateway"}, NEW next,
         (step = "link" /\ next = "gateway") \/ (step = "gateway" /\ next = "rule"),
         AddRoute(step, route, next), ~StepFails(step)
  PROVE  HostInv'
<1>1. /\ pc = step /\ routes' = routes \cup {route} /\ pc' = next
      /\ UNCHANGED <<file, backup, ipv6, tun, device, rule, counts, deferred, backups, prevIPv6, half>>
  BY DEF AddRoute
<1>2. Len(deferred) = 5
  BY <1>1 DEF HostInv, HostTypeOK, Depth
<1>3. HostTypeOK'
  BY <1>1, <1>2 DEF HostInv, HostTypeOK, counts, Pcs, Depth
<1>4. UndoInv'
  BY <1>1, <1>2 DEF HostInv, UndoInv, counts
<1>5. BackupInv'
  BY <1>1, <1>2 DEF HostInv, BackupInv
<1>6. FileInv'
  BY <1>1, FilesStay DEF counts
<1> QED
  BY <1>3, <1>4, <1>5, <1>6 DEF HostInv

(* The rule is set; the routing is deferred from here on.                  *)
LEMMA AddRuleKeeps == ASSUME HostInv, AddRule PROVE HostInv'
<1>1. pc = "rule" /\ Len(deferred) = 5
  <2>1. pc = "rule"
    BY DEF AddRule
  <2> QED
    BY <2>1 DEF HostInv, HostTypeOK, Depth
<1>2. Stacked(<<"routing">> \o deferred) /\ Len(<<"routing">> \o deferred) = 6
  BY <1>1, Deferring, TheCalls DEF HostInv
<1>3. /\ UNCHANGED <<file, backup, ipv6, tun, device, routes, counts, backups, prevIPv6, half>>
      /\ \/ pc' = "serve" /\ Stacked(deferred') /\ Len(deferred') = 6 /\ rule' = "set"
         \/ pc' = "unwind" /\ Stacked(deferred') /\ Len(deferred') = 5 /\ rule' = "none"
  <2>1. Stacked(deferred)
    BY DEF HostInv, HostTypeOK
  <2> QED
    BY <1>1, <1>2, <2>1 DEF AddRule
<1>4. HostTypeOK'
  <2>1. pc' \in Pcs /\ Stacked(deferred') /\ (pc' # "unwind" => Len(deferred') = Depth(pc'))
    BY <1>3 DEF Pcs, Depth
  <2> QED
    BY <1>3, <2>1 DEF HostInv, HostTypeOK, counts
<1>5. UndoInv'
  <2>1. prevIPv6' = found'.ipv6
    <3>1. prevIPv6 = found.ipv6
      BY <1>1 DEF HostInv, UndoInv
    <3> QED
      BY <1>3, <3>1 DEF counts
  <2>2. CASE pc' = "serve"
    <3>1. Len(deferred') = 6
      BY <1>3, <2>2
    <3> QED
      BY <2>1, <3>1 DEF UndoInv
  <2>3. CASE pc' = "unwind"
    <3>1. Len(deferred') = 5 /\ rule' = "none"
      BY <1>3, <2>3
    <3> QED
      BY <2>1, <3>1 DEF UndoInv
  <2> QED
    BY <1>3, <2>2, <2>3
<1>6. BackupInv'
  <2>1. (half' <=> FALSE) /\ backups' = <<"conf", "head">>
    BY <1>1, <1>3 DEF HostInv, BackupInv
  <2>2. CASE pc' = "serve"
    BY <1>3, <2>1, <2>2 DEF BackupInv
  <2>3. CASE pc' = "unwind"
    <3>1. Len(deferred') = 5
      BY <1>3, <2>3
    <3> QED
      BY <2>1, <2>3, <3>1 DEF BackupInv
  <2> QED
    BY <1>3, <2>2, <2>3
<1>7. FileInv'
  <2>1. UNCHANGED <<file, backup, backups, found, half>>
    BY <1>3 DEF counts
  <2>2. CASE pc' = "serve"
    BY <1>1, <2>1, <2>2, FilesStay
  <2>3. CASE pc' = "unwind"
    <3>1. ~half' /\ \A f \in Files : Listed(f)' => Saved(f)'
      BY <1>1, <2>1, OnTheWayIn, SameFiles
    <3>2. backups' = <<"conf", "head">> /\ Len(deferred') = 5
      BY <1>1, <1>3, <2>3 DEF HostInv, BackupInv
    <3>3. \A f \in Files : Listed(f)'
      BY <3>2 DEF Listed
    <3> QED
      BY <2>3, <3>1, <3>2, <3>3 DEF FileInv
  <2> QED
    BY <1>3, <2>2, <2>3
<1> QED
  BY <1>4, <1>5, <1>6, <1>7 DEF HostInv

(* One file is put back from its backup.                                   *)
LEMMA RestoreFileKeeps ==
  ASSUME HostInv, pc = "unwind", backups # <<>>, Len(deferred) = 5, RestoreFile,
         UNCHANGED <<ipv6, tun, device, routes, rule, deferred, pc, counts, prevIPv6, half>>
  PROVE  HostInv'
<1>1. PICK f \in {"conf", "head"} :
        /\ file' = [file EXCEPT ![f] = IF backup[f] # "none" THEN backup[f] ELSE "none"]
        /\ backup' = [backup EXCEPT ![f] = "none"]
        /\ \/ f = "conf" /\ backups = <<"conf">> /\ backups' = <<>>
           \/ f = "conf" /\ backups = <<"conf", "head">> /\ backups' = <<"head">>
           \/ f = "head" /\ backups = <<"head">> /\ backups' = <<>>
  <2>1. backups = <<"conf">> \/ backups = <<"conf", "head">> \/ backups = <<"head">>
    BY DEF HostInv, HostTypeOK
  <2>2. Head(<<"conf">>) = "conf" /\ Tail(<<"conf">>) = <<>>
    OBVIOUS
  <2>3. Head(<<"head">>) = "head" /\ Tail(<<"head">>) = <<>>
    OBVIOUS
  <2>4. Head(<<"conf", "head">>) = "conf" /\ Tail(<<"conf", "head">>) = <<"head">>
    OBVIOUS
  <2>5. CASE backups = <<"conf">>
    BY <2>2, <2>5 DEF RestoreFile
  <2>6. CASE backups = <<"head">>
    BY <2>3, <2>6 DEF RestoreFile
  <2>7. CASE backups = <<"conf", "head">>
    BY <2>4, <2>7 DEF RestoreFile
  <2> QED
    BY <2>1, <2>5, <2>6, <2>7
<1>2. f \in Files
  BY DEF Files
<1>3. file' \in Contents /\ backup' \in Contents
  BY <1>1, <1>2 DEF HostInv, HostTypeOK, Contents
<1>4. /\ file'[f] = backup[f] /\ backup'[f] = "none"
      /\ \A g \in Files : g # f => file'[g] = file[g] /\ backup'[g] = backup[g]
  BY <1>1, <1>2 DEF HostInv, HostTypeOK, Contents
<1>5. HostTypeOK'
  <2>1. backups' \in {<<>>, <<"conf">>, <<"conf", "head">>, <<"head">>}
    BY <1>1
  <2> QED
    BY <1>3, <2>1 DEF HostInv, HostTypeOK, counts
<1>6. UndoInv'
  BY DEF HostInv, UndoInv, counts
<1>7. BackupInv'
  <2>1. half <=> FALSE
    BY DEF HostInv, BackupInv
  <2>2. pc' = "unwind" /\ Len(deferred') = 5
    OBVIOUS
  <2>3. ~half'
    BY <2>1
  <2>4. ~(Len(deferred') < 5)
    <3>1. ~(5 < 5)
      OBVIOUS
    <3> QED
      BY <2>2, <3>1, Zenon
  <2> QED
    BY <2>2, <2>3, <2>4, Zenon DEF BackupInv
<1>8. FileInv'
  <2>1. ~half /\ UNCHANGED <<half, found>>
    BY DEF HostInv, BackupInv, counts
  <2>2. \A g \in Files : IF Listed(g) THEN Saved(g) ELSE Restored(g)
    BY <2>1, SMTT(30) DEF HostInv, FileInv
  <2>3. Listed(f) /\ ~Listed(f)' /\ \A g \in Files : g # f => (Listed(g)' <=> Listed(g))
    <3>1. CASE backups = <<"conf">>
      BY <1>1, <3>1 DEF Listed, Files
    <3>2. CASE backups = <<"head">>
      BY <1>1, <3>2 DEF Listed, Files
    <3>3. CASE backups = <<"conf", "head">>
      BY <1>1, <3>3 DEF Listed, Files
    <3> QED
      BY <1>1, <3>1, <3>2, <3>3
  <2>4. Restored(f)'
    BY <1>2, <1>4, <2>1, <2>2, <2>3 DEF Restored, Saved, Kept
  <2>5. \A g \in Files : g # f => (Saved(g)' <=> Saved(g)) /\ (Restored(g)' <=> Restored(g))
    BY <1>4, <2>1 DEF Restored, Saved, Kept
  <2>6. \A g \in Files : IF Listed(g)' THEN Saved(g)' ELSE Restored(g)'
    BY <2>2, <2>3, <2>4, <2>5
  <2>7. pc' = "unwind" /\ Len(deferred') = 5
    OBVIOUS
  <2> QED
    BY <2>1, <2>6, <2>7, SMTT(30) DEF FileInv
<1> QED
  BY <1>5, <1>6, <1>7, <1>8 DEF HostInv

(* A deferred call is made, and what it undoes was as it says.             *)
LEMMA UnwindKeeps == ASSUME HostInv, Unwind PROVE HostInv'
<1>1. PICK n \in 1..6 :
        /\ n = Len(deferred) /\ Stacked(Tail(deferred)) /\ Len(Tail(deferred)) = n - 1
        /\ Head(deferred) = Calls[n]
  <2>1. Stacked(deferred) /\ deferred # <<>>
    BY DEF HostInv, HostTypeOK, Unwind
  <2>2. /\ Stacked(Tail(deferred)) /\ Len(Tail(deferred)) = Len(deferred) - 1
        /\ Head(deferred) = Calls[Len(deferred)] /\ Len(deferred) \in 0..6 /\ Len(deferred) > 0
    BY <2>1, StackOps
  <2>3. Len(deferred) \in 1..6
    BY <2>2
  <2> QED
    BY <2>2, <2>3
<1>2. /\ pc = "unwind" /\ PutBack(Calls[n])
      /\ UNCHANGED <<pc, counts, prevIPv6, half>>
      /\ IF Calls[n] = "dns" /\ backups # <<>> THEN deferred' = deferred ELSE deferred' = Tail(deferred)
  BY <1>1 DEF Unwind
<1>3. CASE n = 5 /\ backups # <<>>
  <2>1. RestoreFile /\ UNCHANGED <<ipv6, tun, device, routes, rule, deferred>>
    BY <1>2, <1>3, TheCalls DEF PutBack
  <2> QED
    BY <1>1, <1>2, <1>3, <2>1, RestoreFileKeeps DEF Unwind
<1>4. CASE ~(n = 5 /\ backups # <<>>)
  <2>1. n = 1 \/ n = 2 \/ n = 3 \/ n = 4 \/ n = 5 \/ n = 6
    BY <1>1
  <2>2. Calls[n] = "dns" <=> n = 5
    BY <2>1, TheCalls
  <2>3. deferred' = Tail(deferred)
    BY <1>2, <1>4, <2>2
  <2>4. UNCHANGED <<file, backup, backups>>
    BY <1>2, <1>4, <2>1, TheCalls DEF PutBack
  <2>5. /\ n = 6 => routes' = {} /\ rule' = "none" /\ UNCHANGED <<ipv6, tun, device>>
        /\ n = 5 => UNCHANGED <<ipv6, tun, device, routes, rule>>
        /\ n = 4 => device' = "closed" /\ UNCHANGED <<ipv6, tun, routes, rule>>
        /\ n = 3 => ipv6' = prevIPv6 /\ UNCHANGED <<tun, device, routes, rule>>
        /\ n = 2 => tun' = "none" /\ routes' = {} /\ UNCHANGED <<ipv6, device, rule>>
        /\ n = 1 => UNCHANGED <<ipv6, tun, device, routes, rule>>
    BY <1>2, <1>4, TheCalls DEF PutBack
  <2>6. HostTypeOK'
    <3>1. /\ ipv6' \in {"on", "off"} /\ tun' \in {"none", "open"}
          /\ device' \in {"none", "open", "closed"} /\ routes' \subseteq {"link", "gateway"}
          /\ rule' \in {"none", "set"}
      BY <2>1, <2>5 DEF HostInv, HostTypeOK
    <3> QED
      BY <1>1, <1>2, <2>3, <2>4, <3>1 DEF HostInv, HostTypeOK, counts
  <2>7. UndoInv'
    <3>1. Len(deferred') = n - 1 /\ UNCHANGED <<found, prevIPv6>> /\ pc' # "off" /\ pc # "off"
      BY <1>1, <1>2, <2>3 DEF counts
    <3>2. /\ n < 2 => tun = "none" /\ routes = {}
          /\ IF n < 3 THEN ipv6 = found.ipv6 ELSE prevIPv6 = found.ipv6
          /\ n < 6 => rule \in {"none", found.rule}
      BY <1>1, <3>1 DEF HostInv, UndoInv
    <3>3. n - 1 < 2 => tun' = "none" /\ routes' = {}
      BY <2>1, <2>5, <3>2
    <3>4. IF n - 1 < 3 THEN ipv6' = found.ipv6 ELSE prevIPv6 = found.ipv6
      BY <2>1, <2>5, <3>2
    <3>5. n - 1 < 6 => rule' \in {"none", found.rule}
      BY <2>1, <2>5, <3>2
    <3> QED
      BY <3>1, <3>3, <3>4, <3>5 DEF UndoInv
  <2>8. BackupInv'
    <3>1. half => n < 5
      BY <1>1 DEF HostInv, BackupInv
    <3>2. n < 5 /\ ~half => backups = <<>>
      BY <1>1, <1>2 DEF HostInv, BackupInv
    <3>3. n = 6 \/ (n = 5 /\ backups = <<>>) \/ n < 5
      BY <1>4, <2>1
    <3>4. Len(deferred') = n - 1 /\ half' = half /\ backups' = backups /\ pc' = "unwind"
      BY <1>1, <1>2, <2>3, <2>4
    <3>5. half' => Len(deferred') < 5
      BY <2>1, <3>1, <3>4
    <3>6. Len(deferred') < 5 /\ ~half' => backups' = <<>>
      BY <2>1, <3>2, <3>3, <3>4
    <3> QED
      BY <3>4, <3>5, <3>6 DEF BackupInv
  <2>9. FileInv'
    <3>1. Len(deferred') = n - 1 /\ UNCHANGED <<file, backup, backups, found, half>> /\ pc' = "unwind"
      BY <1>1, <1>2, <2>3, <2>4 DEF counts
    <3>2. /\ ~half => \A f \in Files : Listed(f)' => Saved(f)'
          /\ n \in {5, 6} => \A f \in Files : ~Listed(f)' => Restored(f)'
          /\ n < 5 /\ ~half => (\A f \in Files : LeftAlone(f)') \/ (\A f \in Files : Restored(f)')
          /\ half => \A f \in Files : LeftAlone(f)' \/ Saved(f)'
      <4>1. /\ ~half => \A f \in Files : Listed(f) => Saved(f)
            /\ n \in {5, 6} => \A f \in Files : ~Listed(f) => Restored(f)
            /\ n < 5 /\ ~half => (\A f \in Files : LeftAlone(f)) \/ (\A f \in Files : Restored(f))
            /\ half => \A f \in Files : LeftAlone(f) \/ Saved(f)
        <5>1. /\ Len(deferred) = n /\ pc = "unwind"
              /\ n \in {5, 6} => ~(Len(deferred) < 5)
              /\ n < 5 => Len(deferred) < 5
          <6>1. n \in {5, 6} => ~(n < 5)
            OBVIOUS
          <6>2. Len(deferred) = n /\ pc = "unwind"
            BY <1>1, <1>2, Zenon
          <6> QED
            BY <6>1, <6>2, Zenon
        <5> QED
          BY <5>1 DEF HostInv, FileInv
      <4> QED
        BY <3>1, <4>1, SameFiles
    <3>3. n = 5 => \A f \in Files : ~Listed(f)'
      BY <1>4, <3>1 DEF Listed
    <3>4. /\ ~(n - 1 < 5) => \A f \in Files : ~Listed(f)' => Restored(f)'
          /\ n - 1 < 5 /\ ~half => (\A f \in Files : LeftAlone(f)') \/ (\A f \in Files : Restored(f)')
      BY <2>1, <3>2, <3>3
    <3> QED
      BY <3>1, <3>2, <3>4 DEF FileInv
  <2> QED
    BY <2>6, <2>7, <2>8, <2>9 DEF HostInv
<1> QED
  BY <1>3, <1>4

(* Run returns when no deferred call is left.                              *)
LEMMA ExitKeeps == ASSUME HostInv, Exit PROVE HostInv'
<1>1. Len(deferred) = 0
  BY DEF Exit
<1>2. HostTypeOK'
  BY <1>1 DEF HostInv, HostTypeOK, Exit, machine, counts, Pcs, Depth
<1>3. UndoInv'
  <2>1. UNCHANGED <<deferred, tun, routes, ipv6, prevIPv6, rule, found>> /\ pc = "unwind" /\ pc' = "returned"
    BY DEF Exit, machine, counts
  <2> QED
    BY <2>1 DEF HostInv, UndoInv
<1>4. BackupInv'
  BY <1>1 DEF HostInv, BackupInv, Exit
<1>5. FileInv'
  <2>1. /\ UNCHANGED <<file, backup, backups, found, half, deferred>>
        /\ pc = "unwind" /\ pc' = "returned"
    BY DEF Exit, machine, counts
  <2>2. /\ ~half => \A f \in Files : Listed(f) => Saved(f)
        /\ ~half => (\A f \in Files : LeftAlone(f)) \/ (\A f \in Files : Restored(f))
        /\ half => \A f \in Files : LeftAlone(f) \/ Saved(f)
    BY <1>1, <2>1 DEF HostInv, FileInv
  <2>3. /\ ~half => \A f \in Files : Listed(f)' => Saved(f)'
        /\ ~half => (\A f \in Files : LeftAlone(f)') \/ (\A f \in Files : Restored(f)')
        /\ half => \A f \in Files : LeftAlone(f)' \/ Saved(f)'
    BY <2>1, <2>2, SameFiles
  <2> QED
    BY <2>1, <2>3 DEF FileInv
<1> QED
  BY <1>2, <1>3, <1>4, <1>5 DEF HostInv

(* The copies touch nothing of the machine, and whatever they do leaves    *)
(* Run where it is.                                                        *)
LEMMA CopiesKeep ==
  ASSUME HostInv, UNCHANGED <<machine, counts, pc, deferred, backups, prevIPv6, half>>
  PROVE  HostInv'
<1>1. HostTypeOK'
  BY DEF HostInv, HostTypeOK, machine, counts
<1>2. UndoInv'
  BY DEF HostInv, UndoInv, machine, counts
<1>3. BackupInv'
  BY DEF HostInv, BackupInv
<1>4. FileInv'
  <2>1. UNCHANGED <<file, backup, backups, found, half, deferred, pc>>
    BY DEF machine, counts
  <2>2. FileInv
    BY DEF HostInv
  <2> QED
    BY <2>1, <2>2, SameFiles DEF FileInv
<1> QED
  BY <1>1, <1>2, <1>3, <1>4 DEF HostInv

(* The process is killed: files, backups, the rule and the switch stay.    *)
LEMMA CrashKeeps == ASSUME HostInv, Crash PROVE HostInv'
<1>1. Stacked(<<>>) /\ Len(<<>>) = 0
  BY DEF Stacked
<1>2. HostTypeOK'
  <2>1. pc' \in Pcs /\ Stacked(deferred)' /\ Len(deferred') = Depth(pc')
    BY <1>1 DEF Crash, Pcs, Depth
  <2> QED
    BY <2>1 DEF HostInv, HostTypeOK, Crash
<1>3. UndoInv'
  BY <1>1 DEF UndoInv, Crash
<1>4. BackupInv'
  BY <1>1 DEF BackupInv, Crash
<1>5. FileInv'
  <2>1. pc' = "off" /\ backups' = <<>>
    BY DEF Crash
  <2>2. \A f \in Files : ~Listed(f)'
    BY <2>1 DEF Listed
  <2> QED
    BY <2>1, <2>2 DEF FileInv
<1> QED
  BY <1>2, <1>3, <1>4, <1>5 DEF HostInv

(* The inductive invariant of the machine over any number of runs.         *)
THEOREM HostInvariance == HostSpec => []HostInv
<1>1. HostInv /\ [HostNext]_hostVars => HostInv'
  <2> SUFFICES ASSUME HostInv, [HostNext]_hostVars PROVE HostInv'
    OBVIOUS
  <2>1. CASE Start
    BY <2>1, StartKeeps
  <2>2. CASE OpenTun
    <3>1. CASE StepFails("tun") /\ UNCHANGED half
      BY <3>1, StepFailsKeeps
    <3>2. CASE ~(StepFails("tun") /\ UNCHANGED half)
      <4>1. pc = "tun" /\ pc' = "ipv6"
        BY <2>2, <3>2 DEF OpenTun
      <4> QED
        BY <2>2, <4>1, OpenTunKeeps
    <3> QED
      BY <3>1, <3>2
  <2>3. CASE DisableIPv6
    <3>1. CASE StepFails("ipv6") /\ UNCHANGED half
      BY <3>1, StepFailsKeeps
    <3>2. CASE ~(StepFails("ipv6") /\ UNCHANGED half)
      <4>1. pc = "ipv6" /\ pc' = "device"
        BY <2>3, <3>2 DEF DisableIPv6
      <4> QED
        BY <2>3, <4>1, DisableIPv6Keeps
    <3> QED
      BY <3>1, <3>2
  <2>4. CASE MakeDevice
    <3>1. CASE StepFails("device") /\ UNCHANGED half
      BY <3>1, StepFailsKeeps
    <3>2. CASE ~(StepFails("device") /\ UNCHANGED half)
      <4>1. pc = "device" /\ pc' = "copy"
        BY <2>4, <3>2 DEF MakeDevice
      <4> QED
        BY <2>4, <4>1, MakeDeviceKeeps
    <3> QED
      BY <3>1, <3>2
  <2>5. CASE StartCopies
    BY <2>5, StartCopiesKeeps
  <2>6. CASE BackUp
    BY <2>6, BackUpKeeps
  <2>7. CASE WriteOurs
    BY <2>7, WriteOursKeeps
  <2>8. CASE AddRoute("link", "link", "gateway")
    <3>1. CASE StepFails("link")
      <4>1. UNCHANGED half
        BY <2>8 DEF AddRoute
      <4> QED
        BY <3>1, <4>1, StepFailsKeeps
    <3>2. CASE ~StepFails("link")
      BY <2>8, <3>2, AddRouteKeeps
    <3> QED
      BY <3>1, <3>2
  <2>9. CASE AddRoute("gateway", "gateway", "rule")
    <3>1. CASE StepFails("gateway")
      <4>1. UNCHANGED half
        BY <2>9 DEF AddRoute
      <4> QED
        BY <3>1, <4>1, StepFailsKeeps
    <3>2. CASE ~StepFails("gateway")
      BY <2>9, <3>2, AddRouteKeeps
    <3> QED
      BY <3>1, <3>2
  <2>10. CASE AddRule
    BY <2>10, AddRuleKeeps
  <2>11. CASE Unwind
    BY <2>11, UnwindKeeps
  <2>12. CASE Exit
    BY <2>12, ExitKeeps
  <2>13. CASE Signalled
    BY <2>13, StepFailsKeeps DEF Signalled
  <2>14. CASE ToDeviceEnds \/ PacketComes \/ ToTunSteps
    <3>1. UNCHANGED <<machine, counts, pc, deferred, backups, prevIPv6, half>>
      BY <2>14 DEF ToDeviceEnds, PacketComes, ToTunSteps, CountTaken, ForwarderLeaves, PacketWritten,
                   WriteFails, ReadEnds, ToTunGoes
    <3> QED
      BY <3>1, CopiesKeep
  <2>15. CASE Crash
    BY <2>15, CrashKeeps
  <2>16. CASE UNCHANGED hostVars
    BY <2>16, CopiesKeep DEF hostVars, machine, counts
  <2> QED
    BY <2>1, <2>2, <2>3, <2>4, <2>5, <2>6, <2>7, <2>8, <2>9, <2>10, <2>11, <2>12, <2>13, <2>14,
       <2>15, <2>16 DEF HostNext, RunSteps
<1> QED
  BY <1>1, HostInitial, PTL DEF HostSpec

(* Run of outline-cli, over any number of runs and kills: whatever step    *)
(* fails, and whatever a killed run has left to it, when Run is done IPv6  *)
(* is as it was when it began, the device and the routes are gone, a rule  *)
(* is there only if it was, and the files of the resolver are untouched or *)
(* both restored; where setting them has failed halfway, what they held is *)
(* at least in the backups.                                                *)
THEOREM MachineIsRestored == HostSpec => []MachineRestored
<1>1. HostInv => MachineRestored
  <2> SUFFICES ASSUME HostInv, RunIsDone PROVE MachineRestored
    BY DEF MachineRestored
  <2>1. pc \in {"unwind", "returned"} /\ Len(deferred) < 2
    <3>1. CASE pc = "returned"
      BY <3>1 DEF HostInv, HostTypeOK, Depth
    <3>2. CASE pc = "unwind" /\ deferred = <<"wait">>
      <4>1. Len(deferred) = 1
        BY <3>2
      <4> QED
        BY <3>2, <4>1
    <3> QED
      BY <3>1, <3>2 DEF RunIsDone
  <2>2. Len(deferred) \in 0..6
    BY DEF HostInv, HostTypeOK, Stacked
  <2>3. /\ ipv6 = found.ipv6 /\ tun = "none" /\ routes = {}
        /\ rule \in {"none", found.rule}
    BY <2>1, <2>2 DEF HostInv, UndoInv
  <2>4. IF half THEN \A f \in Files: LeftAlone(f) \/ Saved(f)
        ELSE (\A f \in Files: LeftAlone(f)) \/ (\A f \in Files: Restored(f))
    BY <2>1, <2>2 DEF HostInv, FileInv
  <2> QED
    BY <2>3, <2>4 DEF MachineRestored
<1> QED
  BY <1>1, HostInvariance, PTL

(* Run of outline-cli, over any number of runs, failures and kills: only   *)
(* the renaming of a file of the client's own, which a killed run has      *)
(* left, over the backup takes the user's settings from the machine.       *)
THEOREM SettingsAreKept == HostSpec => SettingsSurvive
<1>1. HostInv /\ [HostNext]_hostVars =>
        [\A f \in Files : Survives(f) => Survives(f)' \/ BacksUpOurs(f)]_hostVars
  <2> SUFFICES ASSUME HostInv, HostNext, NEW f \in Files, Survives(f)
               PROVE  Survives(f)' \/ BacksUpOurs(f)
    BY DEF Survives, hostVars
  <2>0. file \in Contents /\ backup \in Contents
    BY DEF HostInv, HostTypeOK
  <2>1. ASSUME UNCHANGED <<file, backup, born>> PROVE Survives(f)'
    BY <2>1 DEF Survives
  <2>2. CASE BackUp
    <3>1. CASE StepFails("backup")
      BY <2>1, <3>1 DEF StepFails, machine, counts
    <3>2. CASE ~StepFails("backup")
      <4>1. /\ backup' = IF file[NextFile] # "none" THEN [backup EXCEPT ![NextFile] = file[NextFile]]
                                                    ELSE backup
            /\ file' = [file EXCEPT ![NextFile] = "none"] /\ born' = born
            /\ pc = "backup" /\ pc' = "write"
        BY <2>2, <3>2 DEF BackUp, counts
      <4>2. CASE f = NextFile
        <5>1. backup'[f] = IF file[f] # "none" THEN file[f] ELSE backup[f]
          BY <2>0, <4>1, <4>2 DEF Contents
        <5>2. file[f] \in {"orig", "ours", "none"}
          BY <2>0 DEF Contents
        <5> QED
          BY <4>1, <4>2, <5>1, <5>2 DEF Survives, BacksUpOurs
      <4>3. CASE f # NextFile
        <5>1. backup'[f] = backup[f] /\ file'[f] = file[f]
          BY <2>0, <4>1, <4>3 DEF Contents
        <5> QED
          BY <4>1, <5>1 DEF Survives
      <4> QED
        BY <4>2, <4>3
    <3> QED
      BY <3>1, <3>2
  <2>3. CASE WriteOurs
    <3>1. CASE StepFails("write")
      BY <2>1, <3>1 DEF StepFails, machine, counts
    <3>2. CASE ~StepFails("write")
      <4>1. /\ pc = "write" /\ UNCHANGED <<backup, born>>
            /\ file' = [file EXCEPT ![LastBacked] = "ours"]
        BY <2>3, <3>2 DEF WriteOurs, counts
      <4>2. CASE f = LastBacked
        <5>1. Listed(f)
          <6>1. backups = <<"conf">> \/ backups = <<"conf", "head">>
            BY <4>1 DEF HostInv, BackupInv
          <6>2. Len(<<"conf">>) = 1 /\ <<"conf">>[1] = "conf"
            OBVIOUS
          <6> QED
            BY <4>2, <6>1, <6>2 DEF LastBacked, Listed
        <5>2. file[f] # "orig"
          BY <4>1, <5>1, OnTheWayIn DEF Saved
        <5> QED
          BY <4>1, <5>2 DEF Survives
      <4>3. CASE f # LastBacked
        <5>1. file'[f] = file[f]
          BY <2>0, <4>1, <4>3 DEF Contents
        <5> QED
          BY <4>1, <5>1 DEF Survives
      <4> QED
        BY <4>2, <4>3
    <3> QED
      BY <3>1, <3>2
  <2>4. CASE Unwind
    <3>1. CASE Head(deferred) = "dns" /\ backups # <<>>
      <4>1. RestoreFile /\ born' = born
        BY <2>4, <3>1 DEF Unwind, PutBack, counts
      <4>2. /\ file' = [file EXCEPT ![Head(backups)] = backup[Head(backups)]]
            /\ backup' = [backup EXCEPT ![Head(backups)] = "none"]
            /\ Head(backups) \in Files /\ Listed(Head(backups))
        <5>1. backups = <<"conf">> \/ backups = <<"conf", "head">> \/ backups = <<"head">>
          BY <3>1 DEF HostInv, HostTypeOK
        <5>2. /\ Head(<<"conf">>) = "conf" /\ Head(<<"head">>) = "head"
              /\ Head(<<"conf", "head">>) = "conf"
          OBVIOUS
        <5>3. Head(backups) \in Files /\ Listed(Head(backups))
          BY <5>1, <5>2 DEF Files, Listed
        <5> QED
          BY <4>1, <5>3 DEF RestoreFile
      <4>3. ~half
        <5>1. Stacked(deferred) /\ deferred # <<>> /\ pc = "unwind"
          BY <2>4 DEF HostInv, HostTypeOK, Unwind
        <5>2. Head(deferred) = Calls[Len(deferred)] /\ Len(deferred) \in 1..6
          BY <5>1, StackOps
        <5>3. Len(deferred) = 5
          <6>1. \A n \in 1..6 : Calls[n] = "dns" => n = 5
            <7>1. \A n \in 1..6 : n = 1 \/ n = 2 \/ n = 3 \/ n = 4 \/ n = 5 \/ n = 6
              OBVIOUS
            <7> QED
              BY <7>1, TheCalls
          <6> QED
            BY <3>1, <5>2, <6>1
        <5> QED
          BY <5>3 DEF HostInv, BackupInv
      <4>4. CASE f = Head(backups)
        <5>1. file[f] # "orig" /\ file'[f] = backup[f]
          BY <2>0, <4>2, <4>3, <4>4 DEF Saved, HostInv, FileInv, Contents
        <5> QED
          BY <4>1, <5>1 DEF Survives
      <4>5. CASE f # Head(backups)
        <5>1. backup'[f] = backup[f] /\ file'[f] = file[f]
          BY <2>0, <4>2, <4>5 DEF Contents
        <5> QED
          BY <4>1, <5>1 DEF Survives
      <4> QED
        BY <4>4, <4>5
    <3>2. CASE ~(Head(deferred) = "dns" /\ backups # <<>>)
      <4>1. UNCHANGED <<file, backup, born>>
        BY <2>4, <3>2 DEF Unwind, PutBack, counts
      <4> QED
        BY <2>1, <4>1
    <3> QED
      BY <3>1, <3>2
  <2>5. CASE Start \/ Crash
    BY <2>1, <2>5 DEF Start, Crash
  <2>6. CASE OpenTun \/ DisableIPv6 \/ MakeDevice \/ StartCopies
    <3>1. UNCHANGED <<file, backup, born>>
      BY <2>6 DEF OpenTun, DisableIPv6, MakeDevice, StartCopies, StepFails, machine, counts
    <3> QED
      BY <2>1, <3>1
  <2>7. CASE AddRoute("link", "link", "gateway") \/ AddRoute("gateway", "gateway", "rule") \/ AddRule
    <3>1. UNCHANGED <<file, backup, born>>
      BY <2>7 DEF AddRoute, AddRule, StepFails, machine, counts
    <3> QED
      BY <2>1, <3>1
  <2>8. CASE Exit \/ Signalled
    <3>1. UNCHANGED <<file, backup, born>>
      BY <2>8 DEF Exit, Signalled, StepFails, machine, counts
    <3> QED
      BY <2>1, <3>1
  <2>9. CASE ToDeviceEnds \/ PacketComes \/ ToTunSteps
    <3>1. UNCHANGED <<file, backup, born>>
      BY <2>9 DEF ToDeviceEnds, PacketComes, ToTunSteps, CountTaken, ForwarderLeaves, PacketWritten,
                  WriteFails, ReadEnds, ToTunGoes, machine, counts
    <3> QED
      BY <2>1, <3>1
  <2> QED
    BY <2>2, <2>3, <2>4, <2>5, <2>6, <2>7, <2>8, <2>9 DEF HostNext, RunSteps
<1> QED
  BY <1>1, HostInvariance, PTL DEF HostSpec, SettingsSurvive

-----------------------------------------------------------------------------
(***************************************************************************)
(* SysProxy: a success that is reported is true and stays so.              *)
(***************************************************************************)
(* What the commands write.                                                *)
Parts == {"bothOn", "both", "host", "port", "on", "off", "none"}
CmdSet == [part : Parts, slot : AllSlots]

(* The commands of the current call.                                       *)
Row == CASE platform = "macos" /\ op[1] = "set"       -> MacSet(op[2], service)
         [] platform = "macos" /\ op[1] = "disable"   -> MacDisable(op[2], service)
         [] platform = "gnome" /\ op[1] = "set"       -> GnomeSet(op[2])
         [] platform = "gnome" /\ op[1] = "disable"   -> GnomeDisable
         [] platform = "windows" /\ op[1] = "set"     -> WindowsSet(op[2])
         [] platform = "windows" /\ op[1] = "disable" -> WindowsDisable

(* Every variable keeps its type; a call is a row of five commands at      *)
(* most.                                                                   *)
ProxyTypeOK == /\ platform \in {"macos", "gnome", "windows"} /\ active \in Services
               /\ host \in [AllSlots -> Nat] /\ port \in [AllSlots -> Nat]
               /\ calls \in Nat /\ op \in Ops /\ service \in Services
               /\ todo \in Seq(CmdSet) /\ Len(todo) \in 0..5
               /\ result \in {"none", "running", "ok", "error"}
               /\ settled \subseteq [kind: Kinds, svc: Services \cup {"all"}, call: Nat]

(* The commands that are left are the end of the row.                      *)
Done == Len(Row) - Len(todo)
RowInv == /\ result \in {"running", "ok"} =>
               Len(todo) <= Len(Row) /\ \A i \in 1..Len(todo) : todo[i] = Row[Done + i]
          /\ result = "ok" => Len(todo) = 0

(* What a command has done stays so until the call is over.                *)
Did(c) == /\ c.part \in {"bothOn", "both", "host"} => host[c.slot] = calls
          /\ c.part \in {"bothOn", "both", "port"} => port[c.slot] = calls
          /\ c.part \in {"bothOn", "on"} => c.slot \in on
          /\ c.part = "off" => c.slot \notin on
DidInv == result \in {"running", "ok"} => \A j \in 1..Done : Did(Row[j])

(* What was reported stays: the call that runs does not write there.       *)
SettledInv ==
  /\ \A s \in AllSlots : host[s] <= calls
  /\ platform # "macos" => \A x \in settled : x.svc = "all"
  /\ ReportedStays
  /\ result = "running" /\ op[1] = "set" => \A x \in settled : ~Rewrites(op[2], service, x)

ProxyInv == ProxyTypeOK /\ RowInv /\ DidInv /\ SettledInv

(* Rows of commands: those that set write and switch on, those that        *)
(* disable only switch off.                                                *)
IsRow(R) == R \in Seq(CmdSet) /\ Len(R) \in 1..5
Sets(R) == \A j \in 1..Len(R) : R[j].part # "off"
Disables(R) == \A j \in 1..Len(R) : R[j].part \in {"off", "none"}

(* The types of a kind, and a row that writes the endpoints of one place.  *)
TypeSet(kind) == IF platform = "windows" THEN {kind}
                 ELSE IF kind = "web" THEN {"http", "https"} ELSE {"socks"}
WritesAt(R, kind, svc) ==
  \A j \in 1..Len(R) : R[j].part \in {"bothOn", "both", "host", "port"} =>
                         \E t \in TypeSet(kind) : R[j].slot = <<t, svc>>

(* A command writes to a slot of the machine.                              *)
LEMMA Commanded ==
  ASSUME NEW part \in Parts, NEW type \in {"http", "https", "socks", "web", "mode"},
         NEW svc \in Services \cup {"all"}
  PROVE  /\ Cmd(part, type, svc) \in CmdSet
         /\ Cmd(part, type, svc).part = part /\ Cmd(part, type, svc).slot = <<type, svc>>
BY DEF Cmd, CmdSet, AllSlots

(* The types of a kind are those of the set, of two kinds different ones   *)
(* except on Windows.                                                      *)
LEMMA TypesApart ==
  ASSUME NEW kind \in Kinds
  PROVE  /\ \A i \in 1..Len(Types(kind)) : Types(kind)[i] \in TypeSet(kind)
         /\ \A k \in Kinds : platform # "windows" /\ k # kind => TypeSet(k) \cap TypeSet(kind) = {}
<1>1. CASE platform = "windows"
  <2>1. Types(kind) = <<kind>> /\ TypeSet(kind) = {kind}
    BY <1>1 DEF Types, TypeSet
  <2> QED
    BY <1>1, <2>1
<1>2. CASE platform # "windows" /\ kind = "web"
  <2>1. Types(kind) = <<"http", "https">> /\ TypeSet(kind) = {"http", "https"}
    BY <1>2 DEF Types, TypeSet
  <2>2. TypeSet("socks") = {"socks"}
    BY <1>2 DEF TypeSet
  <2> QED
    BY <1>2, <2>1, <2>2 DEF Kinds
<1>3. CASE platform # "windows" /\ kind = "socks"
  <2>1. Types(kind) = <<"socks">> /\ TypeSet(kind) = {"socks"}
    BY <1>3 DEF Types, TypeSet
  <2>2. TypeSet("web") = {"http", "https"}
    BY <1>3 DEF TypeSet
  <2> QED
    BY <1>3, <2>1, <2>2 DEF Kinds
<1> QED
  BY <1>1, <1>2, <1>3 DEF Kinds

(* networksetup: one command for a type, which writes it and switches it   *)
(* on.                                                                     *)
LEMMA MacRows ==
  ASSUME platform = "macos", NEW kind \in Kinds, NEW svc \in Services
  PROVE  /\ IsRow(MacSet(kind, svc)) /\ Sets(MacSet(kind, svc)) /\ WritesAt(MacSet(kind, svc), kind, svc)
         /\ IsRow(MacDisable(kind, svc)) /\ Disables(MacDisable(kind, svc))
         /\ Len(MacSet(kind, svc)) = Len(Types(kind)) /\ Len(MacDisable(kind, svc)) = Len(Types(kind))
         /\ \A i \in 1..Len(Types(kind)) :
              /\ MacSet(kind, svc)[i] = Cmd("bothOn", Types(kind)[i], svc)
              /\ MacDisable(kind, svc)[i] = Cmd("off", Types(kind)[i], svc)
<1>1. PICK n \in 1..2 :
        /\ Types(kind) \in Seq({"http", "https", "socks"}) /\ Len(Types(kind)) = n
        /\ \A i \in 1..n : Types(kind)[i] \in {"http", "https", "socks"}
  <2>1. CASE kind = "web"
    <3>1. Types(kind) = <<"http", "https">>
      BY <2>1 DEF Types
    <3>2. /\ Types(kind) \in Seq({"http", "https", "socks"}) /\ Len(Types(kind)) = 2
          /\ \A i \in 1..2 : Types(kind)[i] \in {"http", "https", "socks"}
      BY <3>1
    <3> QED
      BY <3>2
  <2>2. CASE kind = "socks"
    <3>1. Types(kind) = <<"socks">>
      BY <2>2 DEF Types
    <3>2. /\ Types(kind) \in Seq({"http", "https", "socks"}) /\ Len(Types(kind)) = 1
          /\ \A i \in 1..1 : Types(kind)[i] \in {"http", "https", "socks"}
      BY <3>1
    <3> QED
      BY <3>2
  <2> QED
    BY <2>1, <2>2 DEF Kinds
<1>2. \A i \in 1..n : /\ Cmd("bothOn", Types(kind)[i], svc) \in CmdSet
                      /\ Cmd("off", Types(kind)[i], svc) \in CmdSet
                      /\ Cmd("bothOn", Types(kind)[i], svc).part = "bothOn"
                      /\ Cmd("off", Types(kind)[i], svc).part = "off"
  BY <1>1, Commanded DEF Parts
<1>3. /\ MacSet(kind, svc) = [i \in 1..n |-> Cmd("bothOn", Types(kind)[i], svc)]
      /\ MacDisable(kind, svc) = [i \in 1..n |-> Cmd("off", Types(kind)[i], svc)]
  BY <1>1 DEF MacSet, MacDisable
<1>4. /\ MacSet(kind, svc) \in Seq(CmdSet) /\ Len(MacSet(kind, svc)) = n
      /\ MacDisable(kind, svc) \in Seq(CmdSet) /\ Len(MacDisable(kind, svc)) = n
  BY <1>2, <1>3
<1>5. \A i \in 1..n : /\ MacSet(kind, svc)[i] = Cmd("bothOn", Types(kind)[i], svc)
                      /\ MacDisable(kind, svc)[i] = Cmd("off", Types(kind)[i], svc)
  BY <1>3
<1>6. n \in 1..5
  OBVIOUS
<1> DEFINE S == MacSet(kind, svc)
           D == MacDisable(kind, svc)
<1>7. /\ \A i \in 1..n : S[i].part = "bothOn"
      /\ \A i \in 1..n : D[i].part = "off"
  BY <1>2, <1>5
<1>8. /\ S \in Seq(CmdSet) /\ Len(S) = n /\ Len(S) \in 1..5
      /\ D \in Seq(CmdSet) /\ Len(D) = n /\ Len(D) \in 1..5
  BY <1>4
<1> HIDE DEF S, D
<1>9. IsRow(S) /\ Sets(S) /\ WritesAt(S, kind, svc)
  <2>1. \A i \in 1..n : S[i].slot = <<Types(kind)[i], svc>>
    <3>1. \A i \in 1..n : S[i] = Cmd("bothOn", Types(kind)[i], svc)
      BY <1>5 DEF S
    <3>2. \A t : Cmd("bothOn", t, svc).slot = <<t, svc>>
      BY DEF Cmd
    <3> HIDE DEF S
    <3> QED
      BY <3>1, <3>2
  <2>2. \A i \in 1..n : Types(kind)[i] \in TypeSet(kind)
    BY <1>1, TypesApart
  <2>3. WritesAt(S, kind, svc)
    BY <1>8, <2>1, <2>2 DEF WritesAt
  <2> QED
    BY <1>7, <1>8, <2>3 DEF IsRow, Sets
<1>10. IsRow(D) /\ Disables(D)
  BY <1>7, <1>8 DEF IsRow, Disables
<1> QED
  BY <1>1, <1>5, <1>8, <1>9, <1>10 DEF S, D

(* gsettings: the host and the port of each type, then the mode.           *)
LEMMA GnomeRows ==
  ASSUME platform = "gnome", NEW kind \in Kinds
  PROVE  /\ IsRow(GnomeSet(kind)) /\ Sets(GnomeSet(kind)) /\ WritesAt(GnomeSet(kind), kind, "all")
         /\ IsRow(GnomeDisable) /\ Disables(GnomeDisable)
         /\ Len(GnomeDisable) = 1 /\ GnomeDisable[1] = Cmd("off", "mode", "all")
         /\ kind = "socks" => /\ Len(GnomeSet(kind)) = 3
                              /\ GnomeSet(kind)[1] = Cmd("host", "socks", "all")
                              /\ GnomeSet(kind)[2] = Cmd("port", "socks", "all")
                              /\ GnomeSet(kind)[3] = Cmd("on", "mode", "all")
         /\ kind = "web" => /\ Len(GnomeSet(kind)) = 5
                            /\ GnomeSet(kind)[1] = Cmd("host", "http", "all")
                            /\ GnomeSet(kind)[2] = Cmd("port", "http", "all")
                            /\ GnomeSet(kind)[3] = Cmd("host", "https", "all")
                            /\ GnomeSet(kind)[4] = Cmd("port", "https", "all")
                            /\ GnomeSet(kind)[5] = Cmd("on", "mode", "all")
<1>1. /\ \A p \in {"host", "port", "on", "off"} : p \in Parts
      /\ "all" \in Services \cup {"all"}
  BY DEF Parts
<1>2. IsRow(GnomeDisable) /\ Len(GnomeDisable) = 1 /\ GnomeDisable[1] = Cmd("off", "mode", "all")
  BY <1>1, Commanded DEF GnomeDisable, IsRow
<1>3. Disables(GnomeDisable)
  BY <1>1, <1>2, Commanded DEF Disables
<1>4. CASE kind = "socks"
  <2> DEFINE R == GnomeSet(kind)
  <2>1. /\ Len(R) = 3 /\ R[1] = Cmd("host", "socks", "all") /\ R[2] = Cmd("port", "socks", "all")
        /\ R[3] = Cmd("on", "mode", "all")
    BY <1>4 DEF GnomeSet, GnomeEndpoint
  <2>2. R \in Seq(CmdSet)
    BY <1>1, <1>4, Commanded DEF GnomeSet, GnomeEndpoint
  <2> HIDE DEF R
  <2>3. \A j \in 1..Len(R) : j = 1 \/ j = 2 \/ j = 3
    BY <2>1
  <2>4. /\ R[1].part = "host" /\ R[1].slot = <<"socks", "all">> /\ R[2].part = "port" /\ R[2].slot = <<"socks", "all">>
        /\ R[3].part = "on"
    BY <1>1, <2>1, Commanded
  <2>5. IsRow(R) /\ Sets(R)
    BY <2>1, <2>2, <2>3, <2>4 DEF IsRow, Sets
  <2>6. WritesAt(R, kind, "all")
    <3>1. TypeSet(kind) = {"socks"}
      BY <1>4 DEF TypeSet
    <3> QED
      BY <2>3, <2>4, <3>1 DEF WritesAt
  <2> QED
    BY <1>2, <1>3, <1>4, <2>1, <2>5, <2>6 DEF R
<1>5. CASE kind = "web"
  <2> DEFINE R == GnomeSet(kind)
  <2>1. /\ Len(R) = 5 /\ R[1] = Cmd("host", "http", "all") /\ R[2] = Cmd("port", "http", "all")
        /\ R[3] = Cmd("host", "https", "all") /\ R[4] = Cmd("port", "https", "all")
        /\ R[5] = Cmd("on", "mode", "all")
    BY <1>5 DEF GnomeSet, GnomeEndpoint
  <2>2. R \in Seq(CmdSet)
    BY <1>1, <1>5, Commanded DEF GnomeSet, GnomeEndpoint
  <2> HIDE DEF R
  <2>3. \A j \in 1..Len(R) : j = 1 \/ j = 2 \/ j = 3 \/ j = 4 \/ j = 5
    BY <2>1
  <2>4. /\ R[1].part = "host" /\ R[1].slot = <<"http", "all">> /\ R[2].part = "port" /\ R[2].slot = <<"http", "all">>
        /\ R[3].part = "host" /\ R[3].slot = <<"https", "all">> /\ R[4].part = "port" /\ R[4].slot = <<"https", "all">>
        /\ R[5].part = "on"
    BY <1>1, <2>1, Commanded
  <2>5. IsRow(R) /\ Sets(R)
    BY <2>1, <2>2, <2>3, <2>4 DEF IsRow, Sets
  <2>6. WritesAt(R, kind, "all")
    <3>1. TypeSet(kind) = {"http", "https"}
      BY <1>5 DEF TypeSet
    <3> QED
      BY <2>3, <2>4, <3>1 DEF WritesAt
  <2> QED
    BY <1>2, <1>3, <1>5, <2>1, <2>5, <2>6 DEF R
<1> QED
  BY <1>4, <1>5 DEF Kinds

(* The registry: the whole endpoint in one value, then the switch.         *)
LEMMA WindowsRows ==
  ASSUME platform = "windows", NEW kind \in Kinds
  PROVE  /\ IsRow(WindowsSet(kind)) /\ Sets(WindowsSet(kind)) /\ WritesAt(WindowsSet(kind), kind, "all")
         /\ IsRow(WindowsDisable) /\ Disables(WindowsDisable)
         /\ Len(WindowsSet(kind)) = 5 /\ WindowsSet(kind)[1] = Cmd("both", kind, "all")
         /\ WindowsSet(kind)[3] = Cmd("on", "mode", "all")
         /\ Len(WindowsDisable) = 3 /\ WindowsDisable[1] = Cmd("off", "mode", "all")
<1> DEFINE R == WindowsSet(kind)
           D == WindowsDisable
<1>1. /\ Len(R) = 5 /\ R[1] = Cmd("both", kind, "all") /\ R[2] = Cmd("none", kind, "all")
      /\ R[3] = Cmd("on", "mode", "all") /\ R[4] = Cmd("none", kind, "all") /\ R[5] = Cmd("none", kind, "all")
      /\ Len(D) = 3 /\ D[1] = Cmd("off", "mode", "all") /\ D[2] = Cmd("none", "web", "all")
      /\ D[3] = Cmd("none", "web", "all")
  BY DEF WindowsSet, WindowsDisable
<1>2. /\ \A p \in {"both", "none", "on", "off"} : p \in Parts
      /\ kind \in {"http", "https", "socks", "web", "mode"} /\ "all" \in Services \cup {"all"}
  BY DEF Parts, Kinds
<1>3. R \in Seq(CmdSet) /\ D \in Seq(CmdSet)
  BY <1>2, Commanded DEF WindowsSet, WindowsDisable
<1> HIDE DEF R, D
<1>4. /\ \A j \in 1..Len(R) : j = 1 \/ j = 2 \/ j = 3 \/ j = 4 \/ j = 5
      /\ \A j \in 1..Len(D) : j = 1 \/ j = 2 \/ j = 3
  BY <1>1
<1>5. /\ R[1].part = "both" /\ R[2].part = "none" /\ R[3].part = "on" /\ R[4].part = "none"
      /\ R[5].part = "none" /\ D[1].part = "off" /\ D[2].part = "none" /\ D[3].part = "none"
  BY <1>1, <1>2, Commanded
<1>6. IsRow(R) /\ IsRow(D)
  BY <1>1, <1>3 DEF IsRow
<1>7. Sets(R) /\ WritesAt(R, kind, "all") /\ Disables(D)
  <2>1. R[1].slot = <<kind, "all">> /\ kind \in TypeSet(kind)
    BY <1>1 DEF Cmd, TypeSet
  <2> QED
    BY <1>4, <1>5, <2>1 DEF Sets, WritesAt, Disables
<1> QED
  BY <1>1, <1>6, <1>7 DEF R, D

(* The commands of the call that runs are of its kind.                     *)
LEMMA TheRow ==
  ASSUME ProxyTypeOK
  PROVE  /\ IsRow(Row)
         /\ op[1] = "set" => Sets(Row) /\ WritesAt(Row, op[2], Place(service))
         /\ op[1] = "disable" => Disables(Row)
<1>1. /\ op[1] \in {"set", "disable"} /\ op[2] \in Kinds /\ service \in Services
      /\ platform \in {"macos", "gnome", "windows"}
  BY DEF ProxyTypeOK, Ops
<1>2. CASE platform = "macos"
  <2>1. op[1] = "set" => Row = MacSet(op[2], service)
    BY <1>2 DEF Row
  <2>2. op[1] = "disable" => Row = MacDisable(op[2], service)
    BY <1>2 DEF Row
  <2>3. Place(service) = service
    BY <1>2 DEF Place
  <2> QED
    BY <1>1, <1>2, <2>1, <2>2, <2>3, MacRows
<1>3. CASE platform = "gnome"
  <2>1. op[1] = "set" => Row = GnomeSet(op[2])
    BY <1>3 DEF Row
  <2>2. op[1] = "disable" => Row = GnomeDisable
    BY <1>3 DEF Row
  <2>3. Place(service) = "all"
    BY <1>3 DEF Place
  <2> QED
    BY <1>1, <1>3, <2>1, <2>2, <2>3, GnomeRows
<1>4. CASE platform = "windows"
  <2>1. op[1] = "set" => Row = WindowsSet(op[2])
    BY <1>4 DEF Row
  <2>2. op[1] = "disable" => Row = WindowsDisable
    BY <1>4 DEF Row
  <2>3. Place(service) = "all"
    BY <1>4 DEF Place
  <2> QED
    BY <1>1, <1>4, <2>1, <2>2, <2>3, WindowsRows
<1> QED
  BY <1>1, <1>2, <1>3, <1>4

(* The first command that is left, and what it writes.                     *)
LEMMA CommandEffect ==
  ASSUME ProxyInv, Command
  PROVE  LET c == todo[1] IN
         /\ c \in CmdSet /\ c = Row[Done + 1] /\ Done + 1 \in 1..Len(Row)
         /\ result = "running" /\ Len(todo) \in 1..5
         /\ todo' \in Seq(CmdSet) /\ Len(todo') = Len(todo) - 1
         /\ \A i \in 1..Len(todo') : todo'[i] = todo[i + 1]
         /\ host' \in [AllSlots -> Nat] /\ port' \in [AllSlots -> Nat]
         /\ \A s \in AllSlots :
              /\ host'[s] = IF c.part \in {"host", "both", "bothOn"} /\ s = c.slot THEN calls ELSE host[s]
              /\ port'[s] = IF c.part \in {"port", "both", "bothOn"} /\ s = c.slot THEN calls ELSE port[s]
         /\ \A s : s \in on' <=> IF c.part \in {"bothOn", "on"} THEN s \in on \/ s = c.slot
                                 ELSE IF c.part = "off" THEN s \in on /\ s # c.slot
                                 ELSE s \in on
         /\ Row' = Row /\ Done' = Done + 1
<1> USE DEF ProxyInv
<1>0. /\ todo \in Seq(CmdSet) /\ Len(todo) \in 0..5 /\ todo # <<>> /\ result = "running"
      /\ host \in [AllSlots -> Nat] /\ port \in [AllSlots -> Nat] /\ calls \in Nat
  BY DEF Command, ProxyTypeOK
<1>1. /\ Head(todo) = todo[1] /\ Len(todo) \in 1..5 /\ todo[1] \in CmdSet
      /\ Tail(todo) \in Seq(CmdSet) /\ Len(Tail(todo)) = Len(todo) - 1
      /\ \A i \in 1..Len(Tail(todo)) : Tail(todo)[i] = todo[i + 1]
  <2>1. Len(todo) \in 1..5
    BY <1>0, EmptySeq
  <2> QED
    BY <1>0, <2>1, HeadTailProperties, ElementOfSeq
<1>2. Len(Row) \in 1..5
  BY TheRow DEF IsRow
<1>3. /\ todo[1] = Row[Done + 1] /\ Done + 1 \in 1..Len(Row)
  BY <1>0, <1>1, <1>2 DEF RowInv, Done
<1>4. /\ todo' = Tail(todo)
      /\ UNCHANGED <<platform, active, calls, op, service, result, settled>>
  BY DEF Command
<1>5. Row' = Row
  BY <1>4 DEF Row, MacSet, MacDisable, GnomeSet, GnomeDisable, WindowsSet, WindowsDisable, Types
<1>6. Done' = Done + 1
  BY <1>1, <1>2, <1>4, <1>5 DEF Done
<1> DEFINE c == todo[1]
<1>7. /\ host' = IF c.part \in {"host", "both", "bothOn"} THEN [host EXCEPT ![c.slot] = calls] ELSE host
      /\ port' = IF c.part \in {"port", "both", "bothOn"} THEN [port EXCEPT ![c.slot] = calls] ELSE port
      /\ on' = CASE c.part \in {"bothOn", "on"} -> on \cup {c.slot}
                 [] c.part = "off"              -> on \ {c.slot}
                 [] OTHER                       -> on
  BY <1>1 DEF Command
<1>8. c.slot \in AllSlots
  BY <1>1 DEF CmdSet
<1> HIDE DEF c
<1>9. /\ host' \in [AllSlots -> Nat] /\ port' \in [AllSlots -> Nat]
      /\ \A s \in AllSlots :
           /\ host'[s] = IF c.part \in {"host", "both", "bothOn"} /\ s = c.slot THEN calls ELSE host[s]
           /\ port'[s] = IF c.part \in {"port", "both", "bothOn"} /\ s = c.slot THEN calls ELSE port[s]
  BY <1>0, <1>7, <1>8
<1>10. \A s : s \in on' <=> IF c.part \in {"bothOn", "on"} THEN s \in on \/ s = c.slot
                            ELSE IF c.part = "off" THEN s \in on /\ s # c.slot
                            ELSE s \in on
  BY <1>7
<1> QED
  BY <1>0, <1>1, <1>3, <1>4, <1>5, <1>6, <1>9, <1>10 DEF c

(* The first command that is left follows the ones made.                   *)
LEMMA TheNextCommand ==
  ASSUME ProxyInv, Command
  PROVE  /\ Len(Row) \in 1..5 /\ Row \in Seq(CmdSet) /\ Done \in 0..4 /\ Done + 1 \in 1..Len(Row)
         /\ todo[1] = Row[Done + 1] /\ todo[1].slot \in AllSlots /\ todo[1].part \in Parts
<1>1. Len(Row) \in 1..5 /\ Row \in Seq(CmdSet)
  BY TheRow DEF ProxyInv, IsRow
<1>2. /\ Done + 1 \in 1..Len(Row) /\ todo[1] = Row[Done + 1]
      /\ todo[1].slot \in AllSlots /\ todo[1].part \in Parts
  BY CommandEffect DEF CmdSet
<1>3. Done \in Int
  BY <1>1 DEF Done, ProxyInv, ProxyTypeOK
<1> QED
  BY <1>1, <1>2, <1>3

(* Before the first call everything counts as reported.                    *)
LEMMA ProxyInitial ==
  ASSUME SysInit
  PROVE  ProxyInv
<1>1. settled \subseteq [kind: Kinds, svc: Services \cup {"all"}, call: {0}]
  BY DEF SysInit, Place
<1>2. ProxyTypeOK
  BY <1>1, PlatformsAssumption DEF SysInit, ProxyTypeOK, Ops, Kinds
<1>3. RowInv /\ DidInv
  BY DEF SysInit, RowInv, DidInv
<1>4. SettledInv
  <2>1. platform # "macos" => \A x \in settled : x.svc = "all"
    BY DEF SysInit, Place
  <2>2. ASSUME NEW x \in settled, NEW i \in 1..Len(Types(x.kind))
        PROVE  Written(<<Types(x.kind)[i], x.svc>>, x.call)
    <3>1. x.kind \in Kinds /\ x.svc \in Services \cup {"all"} /\ x.call = 0
      BY <1>1
    <3>2. <<Types(x.kind)[i], x.svc>> \in AllSlots
      <4>1. Types(x.kind)[i] \in {"http", "https", "socks", "web"}
        BY <3>1, TypesApart DEF TypeSet, Kinds
      <4> QED
        BY <3>1, <4>1 DEF AllSlots
    <3> QED
      BY <3>1, <3>2 DEF SysInit, Written
  <2> QED
    BY <2>1, <2>2 DEF SysInit, SettledInv, ReportedStays
<1> QED
  BY <1>2, <1>3, <1>4 DEF ProxyInv

(* A call begins with the whole row to do and, to set, takes back what was *)
(* reported of the endpoints it will write.                                *)
LEMMA CallKeeps ==
  ASSUME ProxyInv, Call
  PROVE  ProxyInv'
<1> USE DEF ProxyInv
<1>1. PICK o \in Ops :
        /\ op' = o /\ calls' = calls + 1 /\ service' = active
        /\ \/ /\ todo' = Commands(o[1], o[2]) /\ result' = "running"
              /\ settled' = IF o[1] = "set" THEN {x \in settled: ~Rewrites(o[2], active, x)}
                                           ELSE settled
           \/ platform = "macos" /\ todo' = <<>> /\ result' = "error" /\ settled' = settled
  BY DEF Call
<1>2. /\ result # "running" /\ UNCHANGED <<platform, active, host, port, on>>
  BY DEF Call
<1>3. /\ platform' \in {"macos", "gnome", "windows"} /\ active' \in Services
      /\ host' \in [AllSlots -> Nat] /\ port' \in [AllSlots -> Nat]
      /\ calls' \in Nat /\ op' \in Ops /\ service' \in Services
      /\ result' \in {"none", "running", "ok", "error"}
      /\ settled' \subseteq settled
  BY <1>1, <1>2 DEF ProxyTypeOK
<1>4. /\ o[1] \in {"set", "disable"} /\ o[2] \in Kinds /\ op' = o
  BY <1>1 DEF Ops
<1>7. /\ \A s \in AllSlots : host'[s] <= calls'
      /\ platform' # "macos" => \A x \in settled' : x.svc = "all"
      /\ ReportedStays'
  <2>1. \A s \in AllSlots : host'[s] <= calls'
    BY <1>1, <1>2 DEF SettledInv, ProxyTypeOK
  <2>2. ReportedStays'
    BY <1>2, <1>3 DEF SettledInv, ReportedStays, Written, Types
  <2> QED
    BY <1>2, <1>3, <2>1, <2>2 DEF SettledInv
<1>5. CASE todo' = Commands(o[1], o[2]) /\ result' = "running"
  <2>1. todo' = Row'
    BY <1>1, <1>2, <1>4, <1>5 DEF Commands, Row, MacSet, MacDisable, GnomeSet, GnomeDisable,
                                    WindowsSet, WindowsDisable, Types
  <2>2. IsRow(todo')
    <3>1. CASE platform = "macos"
      <4>1. o[1] = "set" => todo' = MacSet(o[2], active)
        BY <3>1, <1>5 DEF Commands
      <4>2. o[1] = "disable" => todo' = MacDisable(o[2], active)
        BY <3>1, <1>5 DEF Commands
      <4>3. active \in Services
        BY DEF ProxyTypeOK
      <4> QED
        BY <1>4, <3>1, <4>1, <4>2, <4>3, MacRows
    <3>2. CASE platform = "gnome"
      <4>1. o[1] = "set" => todo' = GnomeSet(o[2])
        BY <3>2, <1>5 DEF Commands
      <4>2. o[1] = "disable" => todo' = GnomeDisable
        BY <3>2, <1>5 DEF Commands
      <4> QED
        BY <1>4, <3>2, <4>1, <4>2, GnomeRows
    <3>3. CASE platform = "windows"
      <4>1. o[1] = "set" => todo' = WindowsSet(o[2])
        BY <3>3, <1>5 DEF Commands
      <4>2. o[1] = "disable" => todo' = WindowsDisable
        BY <3>3, <1>5 DEF Commands
      <4> QED
        BY <1>4, <3>3, <4>1, <4>2, WindowsRows
    <3> QED
      BY <3>1, <3>2, <3>3 DEF ProxyTypeOK
  <2>3. /\ todo' \in Seq(CmdSet) /\ Len(todo') \in 1..5
    BY <2>2 DEF IsRow
  <2>4. ProxyTypeOK'
    BY <1>3, <2>3 DEF ProxyTypeOK
  <2>5. Done' = 0
    BY <2>1, <2>3 DEF Done
  <2>6. RowInv'
    BY <1>5, <2>1, <2>3, <2>5 DEF RowInv
  <2>7. DidInv'
    BY <2>5 DEF DidInv
  <2>8. SettledInv'
    <3>1. ASSUME o[1] = "set", NEW x \in settled' PROVE ~(Rewrites(op[2], service, x)')
      <4>1. settled' = {y \in settled: ~Rewrites(o[2], active, y)}
        BY <1>1, <1>5, <3>1
      <4>2. ~Rewrites(o[2], active, x)
        BY <3>1, <4>1
      <4>3. Rewrites(op[2], service, x)' <=> Rewrites(o[2], active, x)
        BY <1>1, <1>2 DEF Rewrites, Place
      <4> QED
        BY <4>2, <4>3
    <3> QED
      BY <1>1, <1>7, <3>1 DEF SettledInv
  <2> QED
    BY <2>4, <2>6, <2>7, <2>8
<1>6. CASE platform = "macos" /\ todo' = <<>> /\ result' = "error"
  <2>1. ProxyTypeOK'
    BY <1>3, <1>6 DEF ProxyTypeOK
  <2>2. RowInv' /\ DidInv'
    BY <1>6 DEF RowInv, DidInv
  <2>3. SettledInv'
    BY <1>6, <1>7 DEF SettledInv
  <2> QED
    BY <2>1, <2>2, <2>3
<1> QED
  BY <1>1, <1>5, <1>6

(* Commands that set never switch off and those that disable do nothing    *)
(* else, so what was done before stays done.                               *)
LEMMA CommandKeepsWhatIsDone ==
  ASSUME ProxyInv, Command
  PROVE  DidInv'
<1> USE DEF ProxyInv
<1> DEFINE c == todo[1]
<1>1. /\ c \in CmdSet /\ c = Row[Done + 1] /\ Done + 1 \in 1..Len(Row) /\ result = "running"
      /\ \A s \in AllSlots :
           /\ host'[s] = IF c.part \in {"host", "both", "bothOn"} /\ s = c.slot THEN calls ELSE host[s]
           /\ port'[s] = IF c.part \in {"port", "both", "bothOn"} /\ s = c.slot THEN calls ELSE port[s]
      /\ \A s : s \in on' <=> IF c.part \in {"bothOn", "on"} THEN s \in on \/ s = c.slot
                              ELSE IF c.part = "off" THEN s \in on /\ s # c.slot
                              ELSE s \in on
      /\ Row' = Row /\ Done' = Done + 1
  BY CommandEffect
<1>2. /\ IsRow(Row)
      /\ op[1] = "set" => Sets(Row)
      /\ op[1] = "disable" => Disables(Row)
      /\ op[1] \in {"set", "disable"}
  BY TheRow DEF ProxyTypeOK, Ops
<1>3. /\ calls' = calls /\ Done + 1 \in 1..Len(Row) /\ Len(Row) \in 1..5 /\ Done \in 0..4
      /\ Row \in Seq(CmdSet) /\ \A i \in 1..Done : Did(Row[i])
  <2>1. calls' = calls /\ \A i \in 1..Done : Did(Row[i])
    BY <1>1 DEF Command, DidInv
  <2> QED
    BY <2>1, TheNextCommand
<1>4. SUFFICES ASSUME NEW j \in 1..(Done + 1)
               PROVE  Did(Row[j])'
  BY <1>1 DEF DidInv
<1> HIDE DEF c
<1>5. PICK d \in CmdSet : d = Row[j] /\ (Did(d)' => Did(Row[j])')
  <2>1. Row[j] \in CmdSet
    BY <1>3, ElementOfSeq
  <2>2. Row[j]' = Row[j]
    BY <1>1
  <2> QED
    BY <2>1, <2>2 DEF Did
<1>6. d.slot \in AllSlots /\ d.part \in Parts /\ c.slot \in AllSlots
  BY <1>1, <1>5 DEF CmdSet
<1>7. CASE j = Done + 1
  <2>1. d = c
    BY <1>1, <1>5, <1>7
  <2> QED
    BY <1>1, <1>3, <1>5, <1>6, <2>1 DEF Did
<1>8. CASE j # Done + 1
  <2>1. Did(d)
    <3>1. j \in 1..Done
      BY <1>3, <1>8
    <3> QED
      BY <1>3, <1>5, <3>1
  <2>2. CASE op[1] = "set"
    <3>1. c.part # "off" /\ d.part # "off"
      <4>1. j \in 1..Len(Row) /\ Done + 1 \in 1..Len(Row)
        BY <1>3
      <4> QED
        BY <1>1, <1>2, <1>5, <2>2, <4>1 DEF Sets
    <3> QED
      BY <1>1, <1>3, <1>5, <1>6, <2>1, <3>1 DEF Did
  <2>3. CASE op[1] = "disable"
    <3>1. c.part \in {"off", "none"} /\ d.part \in {"off", "none"}
      <4>1. j \in 1..Len(Row) /\ Done + 1 \in 1..Len(Row)
        BY <1>3
      <4> QED
        BY <1>1, <1>2, <1>5, <2>3, <4>1 DEF Disables
    <3> QED
      BY <1>1, <1>3, <1>5, <1>6, <2>1, <3>1 DEF Did
  <2> QED
    BY <1>2, <2>2, <2>3
<1> QED
  BY <1>7, <1>8

(* What was reported of another kind or another place is not written.      *)
LEMMA ReportsApart ==
  ASSUME ProxyInv, result = "running", op[1] = "set",
         NEW x \in settled, NEW i \in 1..Len(Types(x.kind)), NEW t \in TypeSet(op[2])
  PROVE  <<Types(x.kind)[i], x.svc>> # <<t, Place(service)>>
<1> USE DEF ProxyInv
<1>1. x.kind \in Kinds /\ op[2] \in Kinds
  BY DEF ProxyTypeOK, Ops
<1>2. ~(x.svc = Place(service) /\ (x.kind = op[2] \/ platform = "windows"))
  BY DEF SettledInv, Rewrites
<1>3. CASE x.svc # Place(service)
  BY <1>3
<1>4. CASE x.kind # op[2] /\ platform # "windows"
  <2>1. Types(x.kind)[i] \in TypeSet(x.kind)
    BY <1>1, TypesApart
  <2>2. TypeSet(x.kind) \cap TypeSet(op[2]) = {}
    BY <1>1, <1>4, TypesApart
  <2> QED
    BY <2>1, <2>2
<1> QED
  BY <1>2, <1>3, <1>4

(* A report is of a slot of the machine.                                   *)
LEMMA ReportedSlots ==
  ASSUME ProxyTypeOK, NEW x \in settled, NEW i \in 1..Len(Types(x.kind))
  PROVE  <<Types(x.kind)[i], x.svc>> \in AllSlots
<1>1. x.kind \in Kinds /\ x.svc \in Services \cup {"all"}
  BY DEF ProxyTypeOK
<1>2. Types(x.kind)[i] \in {"http", "https", "socks", "web"}
  BY <1>1, TypesApart DEF TypeSet, Kinds
<1> QED
  BY <1>1, <1>2 DEF AllSlots

(* A command writes only where its call said it would.                     *)
LEMMA CommandKeepsReports ==
  ASSUME ProxyInv, Command
  PROVE  SettledInv'
<1> USE DEF ProxyInv
<1> DEFINE c == todo[1]
<1>1. /\ c \in CmdSet /\ c = Row[Done + 1] /\ Done + 1 \in 1..Len(Row) /\ result = "running"
      /\ \A s \in AllSlots :
           /\ host'[s] = IF c.part \in {"host", "both", "bothOn"} /\ s = c.slot THEN calls ELSE host[s]
           /\ port'[s] = IF c.part \in {"port", "both", "bothOn"} /\ s = c.slot THEN calls ELSE port[s]
  BY CommandEffect
<1>2. /\ op[1] = "set" => WritesAt(Row, op[2], Place(service))
      /\ op[1] = "disable" => Disables(Row)
      /\ op[1] \in {"set", "disable"}
  BY TheRow DEF ProxyTypeOK, Ops
<1>3. /\ UNCHANGED <<platform, calls, op, service, result, settled>>
      /\ calls \in Nat /\ host \in [AllSlots -> Nat]
  BY DEF Command, ProxyTypeOK
<1>4. \A s \in AllSlots : host'[s] <= calls'
  <2>1. \A s \in AllSlots : host[s] <= calls
    BY DEF SettledInv
  <2> HIDE DEF c
  <2> QED
    BY <1>1, <1>3, <2>1, SMTT(30)
<1>5. ReportedStays'
  <2>1. SUFFICES ASSUME NEW x \in settled, NEW i \in 1..Len(Types(x.kind))
                 PROVE  Written(<<Types(x.kind)[i], x.svc>>, x.call)'
    BY <1>3 DEF ReportedStays, Types
  <2> DEFINE s == <<Types(x.kind)[i], x.svc>>
  <2>2. s \in AllSlots
    BY ReportedSlots
  <2>3. host[s] = x.call /\ port[s] = x.call
    BY DEF SettledInv, ReportedStays, Written
  <2>4. c.part \in {"bothOn", "both", "host", "port"} => s # c.slot
    <3>1. CASE op[1] = "set"
      BY <1>1, <1>2, <3>1, ReportsApart DEF WritesAt
    <3>2. CASE op[1] = "disable"
      BY <1>1, <1>2, <3>2 DEF Disables
    <3> QED
      BY <1>2, <3>1, <3>2
  <2>5. s' = s
    BY <1>3 DEF Types
  <2> HIDE DEF c, s
  <2>6. host'[s] = x.call /\ port'[s] = x.call
    BY <1>1, <2>2, <2>3, <2>4
  <2>7. host'[s'] = x.call /\ port'[s'] = x.call
    BY <2>5, <2>6
  <2> QED
    BY <2>7 DEF Written, s
<1>6. \A x : Rewrites(op[2], service, x)' <=> Rewrites(op[2], service, x)
  BY <1>3 DEF Rewrites, Place
<1> QED
  BY <1>3, <1>4, <1>5, <1>6 DEF SettledInv

(* A command that succeeds.                                                *)
LEMMA CommandKeeps ==
  ASSUME ProxyInv, Command
  PROVE  ProxyInv'
<1>1. ProxyTypeOK'
  <2>1. /\ host' \in [AllSlots -> Nat] /\ port' \in [AllSlots -> Nat]
        /\ todo' \in Seq(CmdSet) /\ Len(todo') = Len(todo) - 1 /\ Len(todo) \in 1..5
    BY CommandEffect
  <2>2. UNCHANGED <<platform, active, calls, op, service, result, settled>>
    BY DEF Command
  <2> QED
    BY <2>1, <2>2, SMTT(30) DEF ProxyInv, ProxyTypeOK
<1>2. RowInv'
  <2>1. /\ Row' = Row /\ Done' = Done + 1 /\ Done + 1 \in 1..Len(Row)
        /\ Len(todo') = Len(todo) - 1 /\ Len(todo) \in 1..5
        /\ \A i \in 1..Len(todo') : todo'[i] = todo[i + 1]
        /\ result = "running" /\ result' = result
    BY CommandEffect DEF Command
  <2>2. Len(todo) <= Len(Row) /\ \A i \in 1..Len(todo) : todo[i] = Row[Done + i]
    BY <2>1 DEF ProxyInv, RowInv
  <2>3. Len(Row) \in 1..5
    BY TheRow DEF IsRow, ProxyInv
  <2>4. \A i \in 1..Len(todo') : todo'[i] = Row'[Done' + i]
    <3>1. TAKE i \in 1..Len(todo')
    <3>2. todo'[i] = todo[i + 1] /\ i + 1 \in 1..Len(todo)
      BY <2>1
    <3>3. todo[i + 1] = Row[Done + (i + 1)]
      BY <2>2, <3>2
    <3>4. Done + (i + 1) = Done' + i
      BY <2>1, <2>3, <3>1 DEF Done
    <3> QED
      BY <2>1, <3>2, <3>3, <3>4
  <2> QED
    BY <2>1, <2>2, <2>3, <2>4 DEF RowInv
<1> QED
  BY <1>1, <1>2, CommandKeepsWhatIsDone, CommandKeepsReports DEF ProxyInv

(* A command that fails ends the call with an error.                       *)
LEMMA CommandFailsKeeps ==
  ASSUME ProxyInv, CommandFails
  PROVE  ProxyInv'
<1> USE DEF ProxyInv
<1>1. /\ result = "running" /\ result' = "error" /\ todo' = <<>>
      /\ UNCHANGED <<platform, active, host, port, calls, op, service, settled>>
  BY DEF CommandFails
<1>2. ProxyTypeOK'
  BY <1>1 DEF ProxyTypeOK
<1>3. RowInv' /\ DidInv'
  BY <1>1 DEF RowInv, DidInv
<1>4. ReportedStays'
  BY <1>1 DEF SettledInv, ReportedStays, Written, Types
<1>5. SettledInv'
  BY <1>1, <1>4 DEF SettledInv
<1> QED
  BY <1>2, <1>3, <1>5

(* When nothing is left to do the whole row has been done.                 *)
LEMMA EverythingIsDone ==
  ASSUME ProxyInv, result \in {"running", "ok"}, Len(todo) = 0
  PROVE  /\ \A j \in 1..Len(Row) : Did(Row[j])
         /\ Len(Row) \in 1..5
<1>1. Len(Row) \in 1..5
  BY TheRow DEF ProxyInv, IsRow
<1>2. Done = Len(Row)
  BY <1>1 DEF Done
<1> QED
  BY <1>1, <1>2 DEF ProxyInv, DidInv

(* A call whose commands have all been made has taken effect.              *)
LEMMA EffectTaken ==
  ASSUME ProxyInv, result \in {"running", "ok"}, Len(todo) = 0
  PROVE  TakenEffect
<1>1. /\ op[1] \in {"set", "disable"} /\ op[2] \in Kinds /\ service \in Services
      /\ platform \in {"macos", "gnome", "windows"}
      /\ host \in [AllSlots -> Nat] /\ port \in [AllSlots -> Nat] /\ calls \in Nat
  BY DEF ProxyInv, ProxyTypeOK, Ops
<1>2. (\A j \in 1..Len(Row) : Did(Row[j])) /\ Len(Row) \in 1..5
  BY EverythingIsDone
<1>3. SUFFICES ASSUME NEW i \in 1..Len(Types(op[2]))
               PROVE  LET slot == <<Types(op[2])[i], Place(service)>>
                      IN IF op[1] = "set" THEN InUse(slot) /\ host[slot] = calls /\ port[slot] = calls
                                          ELSE ~InUse(slot)
  BY DEF TakenEffect, Written
<1>4. CASE platform = "macos"
  <2> DEFINE t == Types(op[2])[i]
  <2>1. t \in {"http", "https", "socks"}
    <3>1. Types(op[2]) = IF op[2] = "web" THEN <<"http", "https">> ELSE <<"socks">>
      BY <1>1, <1>4 DEF Types, Kinds
    <3> QED
      BY <3>1, <1>3
  <2>2. CASE op[1] = "set"
    <3>1. Row = MacSet(op[2], service)
      BY <1>4, <2>2 DEF Row
    <3>2. /\ Len(Row) = Len(Types(op[2])) /\ Row[i] = Cmd("bothOn", t, service)
      BY <1>1, <1>3, <1>4, <3>1, MacRows
    <3>3. Did(Cmd("bothOn", t, service))
      BY <1>2, <1>3, <3>2
    <3> HIDE DEF t
    <3>4. Cmd("bothOn", t, service).part = "bothOn" /\ Cmd("bothOn", t, service).slot = <<t, service>>
      BY DEF Cmd
    <3>5. <<t, service>> \in on /\ host[<<t, service>>] = calls /\ port[<<t, service>>] = calls
      BY <3>3, <3>4 DEF Did
    <3> QED
      BY <1>4, <2>2, <3>5 DEF InUse, Place, t
  <2>3. CASE op[1] = "disable"
    <3>1. Row = MacDisable(op[2], service)
      BY <1>4, <2>3 DEF Row
    <3>2. /\ Len(Row) = Len(Types(op[2])) /\ Row[i] = Cmd("off", t, service)
      BY <1>1, <1>3, <1>4, <3>1, MacRows
    <3>3. Did(Cmd("off", t, service))
      BY <1>2, <1>3, <3>2
    <3> HIDE DEF t
    <3>4. Cmd("off", t, service).part = "off" /\ Cmd("off", t, service).slot = <<t, service>>
      BY DEF Cmd
    <3>5. <<t, service>> \notin on
      BY <3>3, <3>4 DEF Did
    <3> QED
      BY <1>4, <2>3, <3>5 DEF InUse, Place, t
  <2> QED
    BY <1>1, <2>2, <2>3
<1>5. CASE platform = "gnome"
  <2>1. CASE op[1] = "set"
    <3>1. Row = GnomeSet(op[2])
      BY <1>5, <2>1 DEF Row
    <3>2. \/ Len(Row) = 3 /\ Row[3] = Cmd("on", "mode", "all")
          \/ Len(Row) = 5 /\ Row[5] = Cmd("on", "mode", "all")
      BY <1>1, <1>5, <3>1, GnomeRows DEF Kinds
    <3>3. 3 \in 1..3 /\ 5 \in 1..5
      OBVIOUS
    <3>4. Did(Cmd("on", "mode", "all"))
      BY <1>2, <3>2, <3>3, Zenon
    <3>5. <<"mode", "all">> \in on
      <4>1. Cmd("on", "mode", "all").part = "on" /\ Cmd("on", "mode", "all").slot = <<"mode", "all">>
        BY DEF Cmd
      <4> QED
        BY <3>4, <4>1 DEF Did
    <3>6. \A t \in {"http", "https", "socks"} :
            Did(Cmd("host", t, "all")) /\ Did(Cmd("port", t, "all"))
              => host[<<t, "all">>] = calls /\ port[<<t, "all">>] = calls
      BY DEF Did, Cmd
    <3>7. CASE op[2] = "socks"
      <4>1. Len(Row) = 3 /\ Row[1] = Cmd("host", "socks", "all") /\ Row[2] = Cmd("port", "socks", "all")
        BY <1>1, <1>5, <3>1, <3>7, GnomeRows
      <4>2. Did(Cmd("host", "socks", "all")) /\ Did(Cmd("port", "socks", "all"))
        BY <1>2, <4>1
      <4>3. Types(op[2]) = <<"socks">>
        BY <1>5, <3>7 DEF Types
      <4>4. Types(op[2])[i] = "socks"
        BY <4>3, <1>3
      <4> QED
        BY <1>5, <2>1, <3>5, <3>6, <4>2, <4>4 DEF InUse, Place
    <3>8. CASE op[2] = "web"
      <4>1. /\ Len(Row) = 5 /\ Row[1] = Cmd("host", "http", "all") /\ Row[2] = Cmd("port", "http", "all")
            /\ Row[3] = Cmd("host", "https", "all") /\ Row[4] = Cmd("port", "https", "all")
        BY <1>1, <1>5, <3>1, <3>8, GnomeRows
      <4>2. /\ Did(Cmd("host", "http", "all")) /\ Did(Cmd("port", "http", "all"))
            /\ Did(Cmd("host", "https", "all")) /\ Did(Cmd("port", "https", "all"))
        BY <1>2, <4>1
      <4>3. Types(op[2]) = <<"http", "https">>
        BY <1>5, <3>8 DEF Types
      <4>4. Types(op[2])[i] = "http" \/ Types(op[2])[i] = "https"
        BY <4>3, <1>3
      <4> QED
        BY <1>5, <2>1, <3>5, <3>6, <4>2, <4>4 DEF InUse, Place
    <3> QED
      BY <1>1, <3>7, <3>8 DEF Kinds
  <2>2. CASE op[1] = "disable"
    <3>1. Row = GnomeDisable
      BY <1>5, <2>2 DEF Row
    <3>2. Len(Row) = 1 /\ Row[1] = Cmd("off", "mode", "all")
      BY <1>1, <1>5, <3>1, GnomeRows
    <3>3. Did(Cmd("off", "mode", "all"))
      BY <1>2, <3>2
    <3>4. <<"mode", "all">> \notin on
      BY <3>3 DEF Did, Cmd
    <3> QED
      BY <1>5, <2>2, <3>4 DEF InUse, Place
  <2> QED
    BY <1>1, <2>1, <2>2
<1>6. CASE platform = "windows"
  <2>1. Types(op[2]) = <<op[2]>>
    BY <1>6 DEF Types
  <2>2. Types(op[2])[i] = op[2]
    <3>1. i = 1
      <4>1. Len(Types(op[2])) = 1
        BY <2>1
      <4>2. i \in Int /\ 1 <= i /\ i <= Len(Types(op[2]))
        BY <1>3
      <4> QED
        BY <4>1, <4>2
    <3> QED
      BY <2>1, <3>1
  <2>3. CASE op[1] = "set"
    <3> DEFINE slot == <<op[2], "all">>
    <3>1. Row = WindowsSet(op[2])
      BY <1>6, <2>3 DEF Row
    <3>2. Len(Row) = 5 /\ Row[1] = Cmd("both", op[2], "all") /\ Row[3] = Cmd("on", "mode", "all")
      BY <1>1, <1>6, <3>1, WindowsRows
    <3>3. Did(Cmd("both", op[2], "all")) /\ Did(Cmd("on", "mode", "all"))
      BY <1>2, <3>2
    <3>4. host[slot] = calls /\ port[slot] = calls
      BY <3>3 DEF Did, Cmd
    <3>5. <<"mode", "all">> \in on
      <4>1. Cmd("on", "mode", "all").part = "on" /\ Cmd("on", "mode", "all").slot = <<"mode", "all">>
        BY DEF Cmd
      <4> QED
        BY <3>3, <4>1 DEF Did
    <3>6. Latest(slot)
      <4>1. \A s \in AllSlots : host[s] <= calls
        BY DEF ProxyInv, SettledInv
      <4>2. Slots \subseteq AllSlots
        BY <1>6 DEF Slots, AllSlots, Kinds
      <4> QED
        BY <3>4, <4>1, <4>2 DEF Latest
    <3> QED
      BY <1>6, <2>2, <2>3, <3>4, <3>5, <3>6 DEF InUse, Place
  <2>4. CASE op[1] = "disable"
    <3>1. Row = WindowsDisable
      BY <1>6, <2>4 DEF Row
    <3>2. Len(Row) = 3 /\ Row[1] = Cmd("off", "mode", "all")
      BY <1>1, <1>6, <3>1, WindowsRows
    <3>3. Did(Cmd("off", "mode", "all"))
      BY <1>2, <3>2
    <3>4. <<"mode", "all">> \notin on
      BY <3>3 DEF Did, Cmd
    <3> QED
      BY <1>6, <2>4, <3>4 DEF InUse, Place
  <2> QED
    BY <1>1, <2>3, <2>4
<1> QED
  BY <1>1, <1>4, <1>5, <1>6

(* The steps that change neither the machine nor the row; a call that      *)
(* returns nil has taken effect, so what it reports is true.               *)
LEMMA RestKeeps ==
  ASSUME ProxyInv, ChangeService \/ CallReturnsOk \/ UNCHANGED sysVars
  PROVE  ProxyInv'
<1> USE DEF ProxyInv
<1>1. /\ UNCHANGED <<platform, host, port, on, calls, op, service, todo>>
      /\ active' \in Services
      /\ \/ result' = result /\ settled' = settled
         \/ /\ result = "running" /\ todo = <<>> /\ result' = "ok"
            /\ settled' = IF op[1] = "set"
                          THEN settled \cup {[kind |-> op[2], svc |-> Place(service), call |-> calls]}
                          ELSE settled
  BY DEF ChangeService, CallReturnsOk, sysVars, ProxyTypeOK
<1>2. Row' = Row
  BY <1>1 DEF Row, MacSet, MacDisable, GnomeSet, GnomeDisable, WindowsSet, WindowsDisable, Types
<1>3. Done' = Done
  BY <1>1, <1>2 DEF Done
<1> DEFINE new == [kind |-> op[2], svc |-> Place(service), call |-> calls]
<1>4. /\ new \in [kind: Kinds, svc: Services \cup {"all"}, call: Nat]
      /\ platform # "macos" => new.svc = "all"
  BY DEF ProxyTypeOK, Ops, Place
<1>5. ProxyTypeOK'
  <2>1. settled' \subseteq [kind: Kinds, svc: Services \cup {"all"}, call: Nat]
    BY <1>1, <1>4 DEF ProxyTypeOK
  <2> QED
    BY <1>1, <2>1 DEF ProxyTypeOK
<1>6. RowInv'
  BY <1>1, <1>2, <1>3 DEF RowInv
<1>7. DidInv'
  BY <1>1, <1>2, <1>3 DEF DidInv, Did
<1>8. SettledInv'
  <2>1. CASE result' = result /\ settled' = settled
    <3>1. ReportedStays'
      BY <1>1, <2>1 DEF SettledInv, ReportedStays, Written, Types
    <3>2. \A x : Rewrites(op[2], service, x)' <=> Rewrites(op[2], service, x)
      BY <1>1 DEF Rewrites, Place
    <3> QED
      BY <1>1, <2>1, <3>1, <3>2 DEF SettledInv
  <2>2. CASE result = "running" /\ todo = <<>> /\ result' = "ok"
    <3>1. op[1] = "set" => \A i \in 1..Len(Types(op[2])) :
                              Written(<<Types(op[2])[i], Place(service)>>, calls)
      <4>1. Len(todo) = 0
        BY <2>2
      <4>2. TakenEffect
        BY <2>2, <4>1, EffectTaken
      <4> QED
        BY <4>2 DEF TakenEffect
    <3>2. \A x \in settled' : \A i \in 1..Len(Types(x.kind)) :
            Written(<<Types(x.kind)[i], x.svc>>, x.call)
      <4>1. \A x \in settled : \A i \in 1..Len(Types(x.kind)) :
              Written(<<Types(x.kind)[i], x.svc>>, x.call)
        BY DEF SettledInv, ReportedStays
      <4>2. op[1] = "set" => \A i \in 1..Len(Types(new.kind)) :
              Written(<<Types(new.kind)[i], new.svc>>, new.call)
        BY <3>1
      <4>3. settled' = IF op[1] = "set" THEN settled \cup {new} ELSE settled
        BY <1>1, <2>2
      <4> HIDE DEF new
      <4> QED
        BY <4>1, <4>2, <4>3
    <3>3. ReportedStays'
      BY <1>1, <3>2 DEF ReportedStays, Written, Types
    <3>4. platform' # "macos" => \A x \in settled' : x.svc = "all"
      BY <1>1, <1>4, <2>2 DEF SettledInv
    <3> QED
      BY <1>1, <2>2, <3>3, <3>4 DEF SettledInv
  <2> QED
    BY <1>1, <2>1, <2>2
<1> QED
  BY <1>5, <1>6, <1>7, <1>8

(* The inductive invariant of the settings over any number of calls.       *)
THEOREM ProxyInvariance == SysSpec => []ProxyInv
<1>1. ProxyInv /\ [SysNext]_sysVars => ProxyInv'
  BY CallKeeps, CommandKeeps, CommandFailsKeeps, RestKeeps DEF SysNext
<1> QED
  BY <1>1, ProxyInitial, PTL DEF SysSpec

(* What a call of x/sysproxy reports is true: on every platform, for any   *)
(* services and any number of calls that fail at any command, the HTTP and *)
(* HTTPS or SOCKS endpoint a set call has reported is there, host and      *)
(* port, until the next set call for it begins, whatever else is set,      *)
(* disabled or fails; and a call that returns nil has taken effect         *)
(* (SetWebProxy, SetSocksProxy and their Disable).                         *)
THEOREM ProxiesAreAsAsked == SysSpec => []ProxyIsAsAsked
<1>1. ProxyInv => ProxyIsAsAsked
  <2>1. ASSUME ProxyInv, result = "ok" PROVE TakenEffect
    <3>1. Len(todo) = 0
      BY <2>1 DEF ProxyInv, RowInv
    <3> QED
      BY <2>1, <3>1, EffectTaken
  <2> QED
    BY <2>1 DEF ProxyIsAsAsked, CallTakesEffect, ProxyInv, SettledInv
<1> QED
  BY <1>1, ProxyInvariance, PTL
=============================================================================
