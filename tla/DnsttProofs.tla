---------------------------- MODULE DnsttProofs -----------------------------
(***************************************************************************)
(* Proofs about DnsttSession and DnsttPacket, for any number of calls and  *)
(* every length of a domain.                                               *)
(***************************************************************************)
EXTENDS DnsttSession, DnsttPacket, TLAPS

-----------------------------------------------------------------------------
(***************************************************************************)
(* DnsttSession: one live session, whose parts all have an owner.          *)
(***************************************************************************)
(* The stages and the parts, and where the calls are.                      *)
Pcs == {"session", "wait", "install", "discard", "open", "stream", "failed"}

(* The types of the calls, field by field.                                 *)
CallOK == /\ call \in [Callers -> [pc : Pcs, sess : Callers \cup {Nil}]]
          /\ \A c \in Callers : call[c].pc \in {"open", "stream", "discard"} => call[c].sess \in Callers

(* A dial is run for a call that waits for it or has left it to the        *)
(* reaper, it has nothing open before it starts, a session is installed    *)
(* only when its dial is done, and Close knows only installed sessions.    *)
DialInv == /\ \A c \in Callers : call[c].pc = "session" => dial[c] = "none"
           /\ \A c \in Callers : call[c].pc = "install" => dial[c] = "done"
           /\ \A s \in Callers : dial[s] = "none" => res[s] = {}
           /\ \A s \in Callers : dial[s] \in Stages => call[s].pc = "wait" \/ s \in reaper
           /\ \A s \in closeFns : dial[s] = "done"

IInv == SessTypeOK /\ CallOK /\ DialInv /\ PartsHaveOwner /\ OneLiveSession

-----------------------------------------------------------------------------
(* What the stages of a dial open are parts of a session.                  *)
LEMMA StagesOpenParts ==
  ASSUME NEW st \in Stages
  PROVE  /\ Opens[st] \subseteq Parts
         /\ Following[st] \in {"kcp", "smux", "done"}
BY DEF Stages, Opens, Following, Parts

(* The types.                                                              *)
LEMMA TypeInductive ==
  ASSUME SessTypeOK, CallOK, DialInv, [SessNext]_sessVars
  PROVE  SessTypeOK' /\ CallOK'
<1> USE NilAssumption, MaxClosesAssumption
    DEF SessTypeOK, CallOK, Pcs, Step, Goto, CloseSmux, CloseAll, Alive
<1>1. ASSUME NEW c \in Callers, Session(c) PROVE SessTypeOK' /\ CallOK'
  BY <1>1 DEF Session, Stages
<1>2. ASSUME NEW c \in Callers, GiveUp(c) \/ TakeResult(c) PROVE SessTypeOK' /\ CallOK'
  BY <1>2 DEF GiveUp, TakeResult
<1>3. ASSUME NEW c \in Callers, Install(c) PROVE SessTypeOK' /\ CallOK'
  BY <1>3 DEF Install
<1>4. ASSUME NEW c \in Callers, Discard(c) PROVE SessTypeOK' /\ CallOK'
  BY <1>4 DEF Discard
<1>5. ASSUME NEW c \in Callers, OpenStream(c) PROVE SessTypeOK' /\ CallOK'
  BY <1>5 DEF OpenStream
<1>6. ASSUME NEW c \in Callers, Cancel(c) PROVE SessTypeOK' /\ CallOK'
  BY <1>6 DEF Cancel
<1>7. ASSUME NEW s \in Callers, DialStep(s) PROVE SessTypeOK' /\ CallOK'
  BY <1>7, StagesOpenParts DEF DialStep, Stages
<1>8. ASSUME NEW s \in Callers, Reap(s) \/ Die(s) PROVE SessTypeOK' /\ CallOK'
  BY <1>8 DEF Reap, Die
<1>9. CASE Close \/ UNCHANGED sessVars
  BY <1>9 DEF Close, sessVars
<1> QED
  BY <1>1, <1>2, <1>3, <1>4, <1>5, <1>6, <1>7, <1>8, <1>9 DEF SessNext, CallStep

(* The dials: their stage against the call they are for.                   *)
LEMMA DialInductive ==
  ASSUME SessTypeOK, CallOK, DialInv, [SessNext]_sessVars
  PROVE  DialInv'
<1> USE NilAssumption DEF SessTypeOK, CallOK, Pcs, DialInv, Step, Goto, CloseSmux, CloseAll, Alive
<1>1. ASSUME NEW c \in Callers, Session(c) PROVE DialInv'
  BY <1>1 DEF Session, Stages
<1>2. ASSUME NEW c \in Callers, GiveUp(c) \/ TakeResult(c) PROVE DialInv'
  BY <1>2 DEF GiveUp, TakeResult, Stages
<1>3. ASSUME NEW c \in Callers, Install(c) PROVE DialInv'
  BY <1>3 DEF Install, Stages
<1>4. ASSUME NEW c \in Callers, Discard(c) \/ OpenStream(c) \/ Cancel(c) PROVE DialInv'
  BY <1>4 DEF Discard, OpenStream, Cancel
<1>5. ASSUME NEW s \in Callers, DialStep(s) PROVE DialInv'
  BY <1>5, StagesOpenParts DEF DialStep, Stages
<1>6. ASSUME NEW s \in Callers, Reap(s) \/ Die(s) PROVE DialInv'
  BY <1>6 DEF Reap, Die, Stages
<1>7. CASE Close \/ UNCHANGED sessVars
  BY <1>7 DEF Close, sessVars
<1> QED
  BY <1>1, <1>2, <1>3, <1>4, <1>5, <1>6, <1>7 DEF SessNext, CallStep

-----------------------------------------------------------------------------
(* Whatever is open keeps an owner when ownership moves.                   *)
LEMMA OwnersInductive ==
  ASSUME SessTypeOK, CallOK, DialInv, PartsHaveOwner, [SessNext]_sessVars
  PROVE  PartsHaveOwner'
<1> USE NilAssumption
    DEF SessTypeOK, CallOK, Pcs, DialInv, PartsHaveOwner, InHand, Step, Goto, CloseSmux, CloseAll,
        Alive
<1>1. ASSUME NEW c \in Callers, Session(c) PROVE PartsHaveOwner'
  BY <1>1 DEF Session, Stages
<1>2. ASSUME NEW c \in Callers, GiveUp(c) \/ TakeResult(c) PROVE PartsHaveOwner'
  BY <1>2 DEF GiveUp, TakeResult, Stages
<1>3. ASSUME NEW c \in Callers, Install(c) PROVE PartsHaveOwner'
  BY <1>3 DEF Install
<1>4. ASSUME NEW c \in Callers, Discard(c) \/ OpenStream(c) \/ Cancel(c) PROVE PartsHaveOwner'
  BY <1>4 DEF Discard, OpenStream, Cancel
<1>5. ASSUME NEW s \in Callers, DialStep(s) PROVE PartsHaveOwner'
  BY <1>5, StagesOpenParts DEF DialStep, Stages
<1>6. ASSUME NEW s \in Callers, Reap(s) \/ Die(s) PROVE PartsHaveOwner'
  BY <1>6 DEF Reap, Die, Stages
<1>7. CASE Close \/ UNCHANGED sessVars
  BY <1>7 DEF Close, sessVars
<1> QED
  BY <1>1, <1>2, <1>3, <1>4, <1>5, <1>6, <1>7 DEF SessNext, CallStep

(* A session becomes live before it is installed, and is installed only    *)
(* over a dead one.                                                        *)
LEMMA OneLiveInductive ==
  ASSUME SessTypeOK, CallOK, DialInv, OneLiveSession, [SessNext]_sessVars
  PROVE  OneLiveSession'
<1> USE NilAssumption
    DEF SessTypeOK, CallOK, Pcs, DialInv, OneLiveSession, Step, Goto, CloseSmux, CloseAll, Alive
<1>1. ASSUME NEW c \in Callers, Session(c) PROVE OneLiveSession'
  BY <1>1 DEF Session, Stages
<1>2. ASSUME NEW c \in Callers, GiveUp(c) \/ TakeResult(c) PROVE OneLiveSession'
  BY <1>2 DEF GiveUp, TakeResult
<1>3. ASSUME NEW c \in Callers, Install(c) PROVE OneLiveSession'
  BY <1>3 DEF Install
<1>4. ASSUME NEW c \in Callers, Discard(c) \/ OpenStream(c) \/ Cancel(c) PROVE OneLiveSession'
  BY <1>4 DEF Discard, OpenStream, Cancel
<1>5. ASSUME NEW s \in Callers, DialStep(s) PROVE OneLiveSession'
  BY <1>5 DEF DialStep, Stages
<1>6. ASSUME NEW s \in Callers, Reap(s) \/ Die(s) PROVE OneLiveSession'
  BY <1>6 DEF Reap, Die
<1>7. CASE Close \/ UNCHANGED sessVars
  BY <1>7 DEF Close, sessVars
<1> QED
  BY <1>1, <1>2, <1>3, <1>4, <1>5, <1>6, <1>7 DEF SessNext, CallStep

-----------------------------------------------------------------------------
(* The inductive invariant holds for every interleaving.                   *)
THEOREM Invariance == SessSpec => []IInv
<1>1. SessInit => IInv
  BY NilAssumption, MaxClosesAssumption
     DEF SessInit, IInv, SessTypeOK, CallOK, Pcs, DialInv, PartsHaveOwner, OneLiveSession, Stages
<1>2. IInv /\ [SessNext]_sessVars => IInv'
  BY TypeInductive, DialInductive, OwnersInductive, OneLiveInductive DEF IInv
<1> QED
  BY <1>1, <1>2, PTL DEF SessSpec

(* The types of the dialer, of the sessions and of the calls.              *)
THEOREM TypeCorrect == SessSpec => []SessTypeOK
<1>1. IInv => SessTypeOK
  BY DEF IInv
<1> QED
  BY <1>1, Invariance, PTL

(* Nothing a session has open is forgotten: a dial that fails, a call that *)
(* gives up, a call that loses the race and Close each close their part.   *)
THEOREM NothingForgotten == SessSpec => []PartsHaveOwner
<1>1. IInv => PartsHaveOwner
  BY DEF IInv
<1> QED
  BY <1>1, Invariance, PTL

(* Overlapping dials leave one live session.                               *)
THEOREM SessionIsShared == SessSpec => []OneLiveSession
<1>1. IInv => OneLiveSession
  BY DEF IInv
<1> QED
  BY <1>1, Invariance, PTL

-----------------------------------------------------------------------------
(***************************************************************************)
(* DnsttPacket: the poll timer and the room in a name.                     *)
(***************************************************************************)
(* Where the send loop is, and its timer.                                  *)
PollTypeOK ==
  /\ loop \in {"first", "second", "chosen", "timer", "send"}
  /\ picked \in {"data", "poll", "expired"}
  /\ timer \in {"armed", "stopped"}
  /\ tick \in {"none", "current", "stale"}

(* An expiry stops the timer, so that none waits in the channel when the   *)
(* loop has taken one and not yet armed the timer again.                   *)
TimerInv == /\ tick = "current" => timer = "stopped"
            /\ loop \in {"chosen", "timer"} /\ picked = "expired" => tick = "none" /\ timer = "stopped"
            /\ tick # "stale"

PollInv == PollTypeOK /\ TimerInv

(* The inductive invariant of the poll timer of the send loop.             *)
THEOREM PollInvariance == PacketSpec => []PollInv
<1>1. PacketInit => PollInv
  BY DEF PacketInit, PollInv, PollTypeOK, TimerInv
<1>2. PollInv /\ [PacketNext]_packetVars => PollInv'
  <2> SUFFICES ASSUME PollInv, [PacketNext]_packetVars PROVE PollInv'
    OBVIOUS
  <2> USE DEF PollInv, PollTypeOK, TimerInv
  <2>1. CASE Select
    BY <2>1 DEF Select
  <2>2. CASE AbsorbPoll \/ Send
    BY <2>2 DEF AbsorbPoll, Send
  <2>3. CASE ResetTimer
    BY <2>3 DEF ResetTimer
  <2>4. CASE KcpSends \/ TimerFires
    BY <2>4 DEF KcpSends, TimerFires
  <2>5. CASE UdpResponse \/ DotReads \/ DohSends \/ ResolverSends
    BY <2>5 DEF UdpResponse, DotReads, DohSends, ResolverSends
  <2>6. CASE DotReadEnds \/ DotWrites \/ DotWriteFails \/ DotRedial \/ DotBreaks
    BY <2>6 DEF DotReadEnds, DotWrites, DotWriteFails, DotRedial, DotBreaks, loopVars
  <2>7. CASE HoldoffEnds \/ PacketClose \/ UNCHANGED packetVars
    BY <2>7 DEF HoldoffEnds, PacketClose, packetVars, loopVars
  <2> QED
    BY <2>1, <2>2, <2>3, <2>4, <2>5, <2>6, <2>7 DEF PacketNext, SendLoop, Dot
<1> QED
  BY <1>1, <1>2, PTL DEF PacketSpec

(* Every domain that Dial accepts leaves room: a payload up to the MTU     *)
(* that dialSession sets, and every empty poll, encodes to a name of at    *)
(* most 255 bytes and passes the length test of send.                      *)
LEMMA NamesOfAcceptedDomains == NamesFit
<1> SUFFICES ASSUME NEW D \in 0 .. 254, DialAccepts(D), NEW n \in 0 .. Mtu(D)
             PROVE  NameLength(n, D) <= 255 /\ n < 224
  BY DEF NamesFit
<1> DEFINE R == 254 - D
           m == (R * 63) \div 64
           cap == (m * 5) \div 8
           e == Encoded(n)
           q == (e + 62) \div 63
<1>1. R \in 0..254 /\ m \in Nat /\ 64 * m <= 63 * R
  OBVIOUS
<1>2. cap \in Nat /\ 8 * cap <= 5 * m /\ DnsNameCapacity(D) = cap
  BY <1>1 DEF DnsNameCapacity
<1>3. cap >= 93 /\ n \in Nat /\ n <= cap - 13
  BY <1>2 DEF DialAccepts, Mtu
<1>4. Decoded(n) \in Nat /\ Decoded(n) <= cap
  BY <1>2, <1>3 DEF Decoded
<1>5. e \in Nat /\ e <= m
  BY <1>1, <1>2, <1>4 DEF Encoded
<1>6. q \in Nat /\ 63 * q <= e + 62
  BY <1>5
<1>7. e + q <= R
  BY <1>1, <1>5, <1>6
<1>8. NameLength(n, D) = e + q + D + 1
  BY DEF NameLength
<1> HIDE DEF m, cap, e, q
<1> QED
  BY <1>1, <1>2, <1>3, <1>5, <1>6, <1>7, <1>8

(* The send loop of dnsconn never sends early for an expiry of a delay     *)
(* that was replaced, and no query is refused for its size, whatever       *)
(* domain was accepted and whatever the resolver and KCP do.               *)
THEOREM PacketsAreSound == PacketSpec => []PacketsSound
<1>1. PollInv => PacketsSound
  BY NamesOfAcceptedDomains DEF PollInv, TimerInv, PacketsSound, NoStaleExpiry, QueriesFit
<1> QED
  BY <1>1, PollInvariance, PTL
=============================================================================
