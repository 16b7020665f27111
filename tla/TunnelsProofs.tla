--------------------------- MODULE TunnelsProofs ----------------------------
(***************************************************************************)
(* Proofs about PsiphonDialer, StreamRelay, ShadowsocksStream and          *)
(* ShadowsocksPacket, for any number of calls and of bytes.                *)
(***************************************************************************)
EXTENDS PsiphonDialer, StreamRelay, ShadowsocksPacket, ShadowsocksStream, SequenceTheorems, TLAPS

-----------------------------------------------------------------------------
(***************************************************************************)
(* PsiphonDialer: a tunnel is always in one hand.                          *)
(***************************************************************************)
(* A call that waits for a Start has one to wait for, chosen once.         *)
TargetInv == /\ \A s \in Starts : /\ pc[s] \in {"cancelPrev", "awaitPrev"} => prev[s] \in Starts
                                  /\ pc[s] = "idle" => prev[s] = None
             /\ \A k \in Stops : /\ halt[k] \in {"cancel", "await"} => target[k] \in Starts
                                 /\ halt[k] = "idle" => target[k] = None

(* startCtx is tied to dialerCtx during the startup only, so an AfterFunc  *)
(* that fires was started by an early cancellation.                        *)
LinkInv == \A s \in Starts : /\ link[s] = "attached" => pc[s] = "starting"
                             /\ link[s] = "fired" => startCtx[s] = "early"
                             /\ startCtx[s] = "late" => pc[s] \in {"running", "done"}

(* Who may have asked Start s to end.                                      *)
Requested(s) == \/ \E t \in Starts : prev[t] = s
                \/ \E k \in Stops : target[k] = s
                \/ startCtx[s] = "early"

(* A dialerCtx that is cancelled before its Start ended was asked to be.   *)
CancelInv == \A s \in Starts : pc[s] # "done" /\ dialerCtx[s] = "cancelled" => Requested(s)

IInv == PsiphonTypeOK /\ HandlesAlive /\ TargetInv /\ LinkInv /\ CancelInv

(* A request is never taken back.                                          *)
LEMMA RequestsStay ==
  ASSUME IInv, [PsiphonNext]_psiphonVars, NEW s \in Starts, Requested(s)
  PROVE  Requested(s)'
<1> USE NoneAssumption DEF IInv, PsiphonTypeOK, TargetInv, stopVars
<1>1. \A t \in Starts : prev[t] = s => prev'[t] = s
  BY DEF PsiphonNext, psiphonVars, Start, SetUp, StartStep, CancelPrev, AwaitPrev, TunnelEnds,
         RunAfterFunc, StartTunnelReturns, CancelStartCtx, Stop, StopStep, StopCancels,
         StopReturns, DialStream, TunnelDial
<1>2. \A k \in Stops : target[k] = s => target'[k] = s
  BY DEF PsiphonNext, psiphonVars, Start, SetUp, StartStep, CancelPrev, AwaitPrev, TunnelEnds,
         RunAfterFunc, StartTunnelReturns, CancelStartCtx, Stop, StopStep, StopCancels,
         StopReturns, DialStream, TunnelDial
<1>3. startCtx[s] = "early" => startCtx'[s] = "early"
  BY DEF PsiphonNext, psiphonVars, Start, SetUp, StartStep, CancelPrev, AwaitPrev, TunnelEnds,
         RunAfterFunc, StartTunnelReturns, CancelStartCtx, Stop, StopStep, StopCancels,
         StopReturns, DialStream, TunnelDial
<1> QED
  BY <1>1, <1>2, <1>3 DEF Requested

(* The request of Start s is on record in the state where it is acted on.  *)
LEMMA CancelsAreRequested ==
  ASSUME IInv, PsiphonNext, NEW s \in Starts, pc'[s] # "done", dialerCtx'[s] = "cancelled"
  PROVE  Requested(s)'
<1>1. CASE dialerCtx[s] = "cancelled"
  <2>1. pc[s] # "done"
    BY DEF IInv, PsiphonTypeOK, PsiphonNext, psiphonVars, Start, SetUp, Goto, StartStep,
           CancelPrev, AwaitPrev, TunnelEnds, RunAfterFunc, StartTunnelReturns, CancelStartCtx,
           Stop, StopStep, StopCancels, StopReturns, DialStream, TunnelDial, stopVars
  <2> QED
    BY <1>1, <2>1, RequestsStay DEF IInv, CancelInv
<1>2. CASE dialerCtx[s] # "cancelled"
  <2> SUFFICES Requested(s)
    BY RequestsStay
  <2> USE <1>2 DEF IInv, PsiphonTypeOK, TargetInv, Requested
  <2>1. ASSUME NEW t \in Starts, CancelPrev(t) PROVE Requested(s)
    BY <2>1 DEF CancelPrev
  <2>2. ASSUME NEW t \in Starts, StartTunnelReturns(t) PROVE Requested(s)
    BY <2>2 DEF StartTunnelReturns, Goto
  <2>3. ASSUME NEW t \in Starts, RunAfterFunc(t) PROVE Requested(s)
    BY <2>3 DEF RunAfterFunc, LinkInv
  <2>4. ASSUME NEW k \in Stops, StopCancels(k) PROVE Requested(s)
    BY <2>4 DEF StopCancels
  <2>5. ASSUME UNCHANGED dialerCtx PROVE FALSE
    BY <2>5
  <2>6. ASSUME NEW t \in Starts, Start(t) \/ AwaitPrev(t) \/ TunnelEnds(t) \/ CancelStartCtx(t)
        PROVE  FALSE
    BY <2>5, <2>6 DEF Start, AwaitPrev, TunnelEnds, CancelStartCtx
  <2>7. ASSUME NEW k \in Stops, Stop(k) \/ StopReturns(k) PROVE FALSE
    BY <2>5, <2>7 DEF Stop, StopReturns
  <2>8. ASSUME NEW x \in Dials, DialStream(x) \/ TunnelDial(x) PROVE FALSE
    BY <2>5, <2>8 DEF DialStream, TunnelDial
  <2> QED
    BY <2>1, <2>2, <2>3, <2>4, <2>6, <2>7, <2>8 DEF PsiphonNext, StartStep, StopStep
<1> QED
  BY <1>1, <1>2

-----------------------------------------------------------------------------
(* The types, the handles and the ties survive the steps of a Start.       *)
Held == PsiphonTypeOK /\ HandlesAlive /\ TargetInv /\ LinkInv

(* One case per step of the goroutine of a Start and of its startCtx.      *)
LEMMA StartKeeps ==
  ASSUME Held, NEW s \in Starts,
         Start(s) \/ StartStep(s) \/ StartTunnelReturns(s) \/ CancelStartCtx(s)
  PROVE  Held'
<1> USE NoneAssumption
    DEF Held, PsiphonTypeOK, HandlesAlive, TargetInv, LinkInv, Up, Goto, stopVars
<1>1. CASE Start(s)
  BY <1>1 DEF Start, SetUp
<1>2. CASE CancelPrev(s)
  BY <1>2 DEF CancelPrev
<1>3. CASE AwaitPrev(s)
  BY <1>3 DEF AwaitPrev, SetUp
<1>4. CASE TunnelEnds(s)
  BY <1>4 DEF TunnelEnds
<1>5. CASE RunAfterFunc(s)
  BY <1>5 DEF RunAfterFunc
<1>6. CASE StartTunnelReturns(s)
  BY <1>6 DEF StartTunnelReturns
<1>7. CASE CancelStartCtx(s)
  BY <1>7 DEF CancelStartCtx
<1> QED
  BY <1>1, <1>2, <1>3, <1>4, <1>5, <1>6, <1>7 DEF StartStep

(* So do the calls of Stop and of DialStream.                              *)
LEMMA CallsKeep ==
  ASSUME Held,
         \/ \E k \in Stops : Stop(k) \/ StopStep(k)
         \/ \E x \in Dials : DialStream(x) \/ TunnelDial(x)
  PROVE  Held'
<1> USE NoneAssumption DEF Held, PsiphonTypeOK, HandlesAlive, TargetInv, LinkInv, Up, stopVars
<1>1. ASSUME NEW k \in Stops, Stop(k) PROVE Held'
  BY <1>1 DEF Stop
<1>2. ASSUME NEW k \in Stops, StopCancels(k) PROVE Held'
  BY <1>2 DEF StopCancels
<1>3. ASSUME NEW k \in Stops, StopReturns(k) PROVE Held'
  BY <1>3 DEF StopReturns
<1>4. ASSUME NEW x \in Dials, DialStream(x) \/ TunnelDial(x) PROVE Held'
  BY <1>4 DEF DialStream, TunnelDial
<1> QED
  BY <1>1, <1>2, <1>3, <1>4 DEF StopStep

-----------------------------------------------------------------------------
(* The inductive invariant holds for every interleaving.                   *)
THEOREM Invariance == PsiphonSpec => []IInv
<1>1. PsiphonInit => IInv
  BY NoneAssumption DEF PsiphonInit, IInv, PsiphonTypeOK, HandlesAlive, TargetInv, LinkInv, CancelInv
<1>2. IInv /\ [PsiphonNext]_psiphonVars => IInv'
  <2> SUFFICES ASSUME IInv, [PsiphonNext]_psiphonVars PROVE IInv'
    OBVIOUS
  <2>1. CASE UNCHANGED psiphonVars
    BY <2>1 DEF IInv, PsiphonTypeOK, HandlesAlive, Up, TargetInv, LinkInv, CancelInv, Requested,
                psiphonVars
  <2>2. CASE PsiphonNext
    <3>1. Held'
      BY <2>2, StartKeeps, CallsKeep DEF IInv, Held, PsiphonNext
    <3>2. CancelInv'
      BY <2>2, CancelsAreRequested DEF CancelInv
    <3> QED
      BY <3>1, <3>2 DEF IInv, Held
  <2> QED
    BY <2>1, <2>2
<1> QED
  BY <1>1, <1>2, PTL DEF PsiphonSpec

(* The types of the dialer and of the calls.                               *)
THEOREM TypeCorrect == PsiphonSpec => []PsiphonTypeOK
<1>1. IInv => PsiphonTypeOK
  BY DEF IInv
<1> QED
  BY <1>1, Invariance, PTL

(* However Starts and Stops overlap, the dialer holds only what is alive.  *)
THEOREM HandlesStayAlive == PsiphonSpec => []HandlesAlive
<1>1. IInv => HandlesAlive
  BY DEF IInv
<1> QED
  BY <1>1, Invariance, PTL

(* A tunnel that is up is told to end by a Stop, by another Start, or by a *)
(* startCtx cancelled during the startup.                                  *)
THEOREM EndsOnRequest == PsiphonSpec => []TunnelEndsOnRequest
<1>1. IInv => TunnelEndsOnRequest
  BY DEF IInv, CancelInv, Requested, TunnelEndsOnRequest, Up
<1> QED
  BY <1>1, Invariance, PTL

(* Both, as the run checks them.                                           *)
THEOREM TunnelsStayInHand == PsiphonSpec => []TunnelsInHand
  BY HandlesStayAlive, EndsOnRequest, PTL DEF TunnelsInHand

-----------------------------------------------------------------------------
(***************************************************************************)
(* StreamRelay: nobody is told of the end before the last byte.            *)
(***************************************************************************)
(* What the copies have counted and where they are.                        *)
RelayTypeOK ==
  /\ sent \in [Ends -> Nat] /\ taken \in [Ends -> Nat] /\ seen \in [Ends -> Nat]
  /\ ended \in [Ends -> {"open", "fin", "gone"}]
  /\ copier \in [Ends -> {"read", "hold", "finish", "closeR", "done"}]
  /\ stopped \in BOOLEAN

(* While both ends are there and the server serves, a copy stops only at   *)
(* the end of its bytes, with all of them put, and only then is the other  *)
(* end told; neither side of a copy that goes on has been closed.          *)
CopyExact(s) ==
  /\ copier[s] \in {"read", "hold"} => <<s, "r">> \notin shut
  /\ copier[s] \in {"read", "hold", "finish"} => <<Other(s), "w">> \notin shut
  /\ ~Buffers(Other(s)) => seen[Other(s)] = taken[s] - (IF copier[s] = "hold" THEN 1 ELSE 0)
  /\ copier[s] \in {"finish", "closeR", "done"} => ended[s] = "fin" /\ taken[s] = sent[s]
  /\ copier[s] \in {"closeR", "done"} => seen[Other(s)] = taken[s]
  /\ Other(s) \in eof => copier[s] \in {"closeR", "done"}

CopyInv == \A s \in Ends :
  ~stopped /\ ended[s] # "gone" /\ ended[Other(s)] # "gone" => CopyExact(s)

RelayInv == RelayTypeOK /\ CopyInv

(* There are two ends, each the other of the other.                        *)
LEMMA TheEnds == /\ "C" \in Ends /\ "T" \in Ends
                 /\ \A s \in Ends : Other(s) \in Ends /\ Other(s) # s /\ Other(Other(s)) = s
BY DEF Ends, Other

(* A copy finds the end of its bytes, or its reading fails.                *)
LEMMA TakeEndsKeeps ==
  ASSUME RelayInv, NEW s \in Ends, TakeEnds(s)
  PROVE  RelayInv'
<1>1. /\ copier[s] = "read" /\ copier' = [copier EXCEPT ![s] = "finish"]
      /\ UNCHANGED <<front, back, sent, ended, taken, seen, eof, shut, stopped>>
  BY DEF TakeEnds
<1>2. \/ ended[s] = "fin" /\ sent[s] = taken[s]
      \/ <<s, "r">> \in shut
      \/ ended[s] = "gone"
  BY DEF TakeEnds, AtEof, Broken, Tunnelled
<1>3. RelayTypeOK'
  BY <1>1 DEF RelayInv, RelayTypeOK
<1>4. ASSUME NEW x \in Ends, ~stopped, ended[x] # "gone", ended[Other(x)] # "gone"
      PROVE  CopyExact(x)'
  <2>1. CASE x = s
    BY <1>1, <1>2, <1>4, <2>1 DEF RelayInv, RelayTypeOK, CopyInv, CopyExact, Other, Buffers
  <2>2. CASE x # s
    BY <1>1, <1>4, <2>2 DEF RelayInv, RelayTypeOK, CopyInv, CopyExact, Other, Buffers
  <2> QED
    BY <2>1, <2>2
<1>5. CopyInv'
  BY <1>1, <1>4 DEF CopyInv
<1> QED
  BY <1>3, <1>5 DEF RelayInv

(* A copy hands on what it has taken, or finds the other side gone.        *)
LEMMA PutKeeps ==
  ASSUME RelayInv, NEW s \in Ends, Put(s)
  PROVE  RelayInv'
<1> DEFINE d == Other(s)
<1>1. /\ copier[s] = "hold"
      /\ seen' = IF Delivers(d) /\ ~Buffers(d) THEN [seen EXCEPT ![d] = @ + 1] ELSE seen
      /\ \/ copier' = [copier EXCEPT ![s] = "read"]
         \/ copier' = [copier EXCEPT ![s] = "finish"] /\ ~Delivers(d)
      /\ UNCHANGED <<front, back, sent, ended, taken, eof, shut, stopped>>
  BY DEF Put
<1>2. d \in Ends /\ d # s
  BY DEF Ends, Other
<1>3. RelayTypeOK'
  BY <1>1, <1>2 DEF RelayInv, RelayTypeOK
<1>4. ASSUME NEW x \in Ends, ~stopped, ended[x] # "gone", ended[Other(x)] # "gone"
      PROVE  CopyExact(x)'
  <2>1. CASE x = s
    <3>1. CopyExact(s)
      BY <1>4, <2>1 DEF RelayInv, CopyInv
    <3>2. Delivers(d) /\ copier'[s] = "read" /\ <<s, "r">> \notin shut
      BY <1>1, <1>4, <2>1, <3>1 DEF Delivers, CopyExact, RelayInv, RelayTypeOK, Put
    <3>3. Other(x)' = d /\ copier[s] = "hold" /\ UNCHANGED <<shut, ended, taken, sent, eof, front>>
      BY <1>1, <2>1 DEF Other
    <3>4. <<d, "w">> \notin shut /\ d \notin eof
      BY <3>1, <3>3 DEF CopyExact
    <3>5. ~Buffers(d) => seen'[d] = taken[s]
      BY <1>1, <1>2, <3>1, <3>2, <3>3 DEF CopyExact, RelayInv, RelayTypeOK
    <3> QED
      BY <2>1, <3>2, <3>3, <3>4, <3>5 DEF CopyExact, Buffers, RelayInv, RelayTypeOK
  <2>2. CASE x # s
    <3>1. Other(x) # d /\ Other(x) \in Ends
      BY <2>2 DEF Ends, Other
    <3> QED
      BY <1>1, <1>2, <1>4, <2>2, <3>1 DEF RelayInv, RelayTypeOK, CopyInv, CopyExact, Buffers
  <2> QED
    BY <2>1, <2>2
<1>5. CopyInv'
  BY <1>1, <1>4 DEF CopyInv
<1> QED
  BY <1>3, <1>5 DEF RelayInv

(* The inductive invariant of the two copies of a stream relay.            *)
THEOREM RelayInvariance == StreamRelaySpec => []RelayInv
<1>1. StreamRelayInit => RelayInv
  <2> SUFFICES ASSUME StreamRelayInit PROVE RelayInv
    OBVIOUS
  <2>1. RelayTypeOK
    BY DEF StreamRelayInit, RelayTypeOK
  <2>2. ASSUME NEW s \in Ends
        PROVE  /\ copier[s] = "read" /\ Other(s) \in Ends /\ seen[Other(s)] = 0 /\ taken[s] = 0
               /\ shut = {} /\ eof = {}
    BY TheEnds DEF StreamRelayInit
  <2> QED
    BY <2>1, <2>2 DEF RelayInv, CopyInv, CopyExact
<1>2. RelayInv /\ [StreamRelayNext]_relayVars => RelayInv'
  <2> SUFFICES ASSUME RelayInv, [StreamRelayNext]_relayVars PROVE RelayInv'
    OBVIOUS
  <2>1. ASSUME NEW s \in Ends, Send(s) PROVE RelayInv'
    BY <2>1 DEF RelayInv, RelayTypeOK, CopyInv, CopyExact, Ends, Other, Buffers,
        Send
  <2>2. ASSUME NEW s \in Ends, NEW how \in {"fin", "gone"}, Leave(s, how) PROVE RelayInv'
    BY <2>2 DEF RelayInv, RelayTypeOK, CopyInv, CopyExact, Ends, Other, Buffers,
        Leave
  <2>3. CASE ServerStops
    BY <2>3 DEF RelayInv, RelayTypeOK, CopyInv, CopyExact, Ends, Other, Buffers,
        ServerStops
  <2>4. ASSUME NEW s \in Ends, TakeBytes(s) PROVE RelayInv'
    BY <2>4 DEF RelayInv, RelayTypeOK, CopyInv, CopyExact, Ends, Other, Buffers,
        TakeBytes
  <2>7. ASSUME NEW s \in Ends, Finish(s) PROVE RelayInv'
    BY <2>7 DEF RelayInv, RelayTypeOK, CopyInv, CopyExact, Ends, Other, Buffers,
        Finish, Delivers, Http
  <2>8. ASSUME NEW s \in Ends, CloseReader(s) PROVE RelayInv'
    BY <2>8 DEF RelayInv, RelayTypeOK, CopyInv, CopyExact, Ends, Other, Buffers,
        CloseReader
  <2>9. CASE PumpTakes \/ PumpEnds
    BY <2>9 DEF RelayInv, RelayTypeOK, CopyInv, CopyExact, Ends, Other, Buffers,
        PumpTakes, PumpEnds
  <2>10. CASE Serve
    BY <2>10 DEF RelayInv, RelayTypeOK, CopyInv, CopyExact, Ends, Other, Buffers,
        Serve
  <2>11. CASE UNCHANGED relayVars
    BY <2>11 DEF RelayInv, RelayTypeOK, CopyInv, CopyExact, Ends, Other, Buffers,
        relayVars
  <2> QED
    BY <2>1, <2>2, <2>3, <2>4, TakeEndsKeeps, PutKeeps, <2>7, <2>8, <2>9, <2>10, <2>11
       DEF StreamRelayNext, RelaySteps
<1> QED
  BY <1>1, <1>2, PTL DEF StreamRelaySpec

(* io.Copy in both directions, as the lwip TCP handler, the CONNECT        *)
(* proxies and the WebSocket conns use it: while both ends are there and   *)
(* the server serves, an end that is told that the other has ended its     *)
(* half has everything it wrote, for any number of bytes and any order of  *)
(* reads, writes and closes.                                               *)
THEOREM EofIsLast == StreamRelaySpec => []EofAfterAllBytes
<1>1. RelayInv => EofAfterAllBytes
  BY TheEnds DEF RelayInv, RelayTypeOK, CopyInv, CopyExact, EofAfterAllBytes
<1> QED
  BY <1>1, RelayInvariance, PTL

-----------------------------------------------------------------------------
(***************************************************************************)
(* ShadowsocksStream: every chunk decrypts, and the connection is a pipe.  *)
(***************************************************************************)
(* A chunk, and what a flush may hold of one.                              *)
Chunks == [salt : BOOLEAN, nonce : Nat, payload : Seq(Nat)]
AtMostOneChunk == {k \in Seq(Chunks) : Len(k) =< 1}
(* The thread that uses the connection, and the reader of the other end.   *)
MainRecs == [at : {"idle", "lazy", "lazyFlush", "read1", "relock", "flush1", "loop", "loopFlush"},
             left : Nat, n : Nat, start : Nat, eof : BOOLEAN, sealed : AtMostOneChunk]
ReaderRecs == [inited : BOOLEAN, counter : Nat, leftover : Seq(Nat), slice : BOOLEAN,
               err : {"nil", "EOF", "unexpected EOF", "failed to decrypt"},
               delivered : Nat, inOrder : BOOLEAN]

(* Every variable keeps its type.                                          *)
SsTypeOK ==
  /\ buf \in [Cells -> Nat] /\ pending \in 0..PayloadMax /\ needFlush \in BOOLEAN
  /\ counter \in Nat /\ mu \in {"free", "main", "timer"} /\ main \in MainRecs
  /\ timer \in AtMostOneChunk /\ given \in Nat /\ wire \in Seq(Chunks)
  /\ broken \in BOOLEAN /\ reader \in ReaderRecs

(* Who holds the lock, and that nobody flushes beside the main loop.       *)
LockInv ==
  /\ mu = "timer" <=> timer # <<>>
  /\ mu = "main" <=> main.at \in {"lazy", "lazyFlush", "flush1"}
  /\ timer # <<>> => needFlush
  /\ main.at \in {"loop", "loopFlush"} => ~needFlush
  /\ main.sealed # <<>> => main.at \in Flushing

(* Nothing is pending in the main loop, and what the special case reads    *)
(* lies behind what a flush may still encrypt.                             *)
RoomInv ==
  /\ ~needFlush /\ main.at \in {"idle", "loop"} => pending = 0
  /\ main.at \in {"read1", "relock"} =>
       /\ pending + Overhead + 1 =< main.start /\ main.start =< PayloadMax + Overhead + 1
       /\ main.at = "relock" => main.start + main.n =< PayloadMax + Overhead + 1

(* The last byte of a chunk, the last byte the reader has got, and the     *)
(* last byte of the wire.                                                  *)
LastOf(k) == k.payload[Len(k.payload)]
Came == reader.delivered + Len(reader.leftover)
End == IF wire = <<>> THEN Came ELSE LastOf(wire[Len(wire)])
(* The payload of a chunk is the bytes behind byte "at".                   *)
Follows(p, at) == Len(p) > 0 /\ \A j \in 1..Len(p) : p[j] = at + j

(* The chunks on the wire follow one another, and so do their nonces.      *)
WireInv == \A i \in 1..Len(wire) :
  /\ Follows(wire[i].payload, IF i = 1 THEN Came ELSE LastOf(wire[i - 1]))
  /\ wire[i].nonce = reader.counter + 2 * (i - 1)
  /\ wire[i].salt <=> wire[i].nonce = 0
  /\ LastOf(wire[i]) =< given

ReaderInv ==
  /\ reader.inited <=> reader.counter > 0
  /\ reader.err # "failed to decrypt" /\ reader.inOrder
  /\ \A j \in 1..Len(reader.leftover) : reader.leftover[j] = reader.delivered + j
  /\ Came =< given

(* A chunk that was encrypted and is to be written next.                   *)
SealedInv == \A K \in {main.sealed, timer} : K # <<>> =>
  /\ pending > 0 /\ Ciphertext
  /\ ~broken => /\ Follows(K[1].payload, End) /\ Len(K[1].payload) = pending
                /\ K[1].nonce = reader.counter + 2 * Len(wire) /\ counter = K[1].nonce + 2
                /\ K[1].salt <=> K[1].nonce = 0

InHand == IF main.at = "relock" THEN main.n ELSE 0

(* The bytes in the buffer follow those on the wire.                       *)
BufInv ==
  /\ ~broken => End + pending + InHand = given
  /\ ~broken /\ main.sealed = <<>> /\ timer = <<>> =>
       /\ counter = reader.counter + 2 * Len(wire)
       /\ \A c \in 1..pending : buf[c] = End + c
  /\ main.at = "relock" =>
       main.n =< given /\ \A i \in 1..main.n : buf[main.start + i - 1] = given - main.n + i

(* The inductive invariant of the writer, the timer and the reader.        *)
SsInv == SsTypeOK /\ LockInv /\ RoomInv /\ WireInv /\ ReaderInv /\ SealedInv /\ BufInv

(* The sizes of the format.                                                *)
LEMMA Sizes ==
  /\ PayloadMax \in Nat /\ PayloadMax > 0 /\ Overhead \in Nat
  /\ AddrLen \in Nat /\ AddrLen > 0 /\ TotalBytes \in Nat
BY StreamSizes

(* At most one chunk is held.                                              *)
LEMMA OneChunk ==
  /\ <<>> \in AtMostOneChunk
  /\ \A k \in Chunks : <<k>> \in AtMostOneChunk /\ <<k>> # <<>> /\ <<k>>[1] = k
  /\ \A K \in AtMostOneChunk : K # <<>> => K[1] \in Chunks
<1>1. <<>> \in AtMostOneChunk
  BY DEF AtMostOneChunk
<1>2. ASSUME NEW k \in Chunks PROVE <<k>> \in AtMostOneChunk /\ <<k>> # <<>> /\ <<k>>[1] = k
  <2>1. <<k>> \in Seq(Chunks) /\ Len(<<k>>) = 1
    OBVIOUS
  <2> QED
    BY <2>1 DEF AtMostOneChunk
<1>3. ASSUME NEW K \in AtMostOneChunk, K # <<>> PROVE K[1] \in Chunks
  <2>1. K \in Seq(Chunks)
    BY DEF AtMostOneChunk
  <2>2. 1 \in 1..Len(K)
    BY <1>3, <2>1, EmptySeq
  <2> QED
    BY <2>1, <2>2, ElementOfSeq
<1> QED
  BY <1>1, <1>2, <1>3

(* The smaller of two numbers.                                             *)
LEMMA Lesser ==
  ASSUME NEW a \in Nat, NEW b \in Nat
  PROVE  Min({a, b}) = IF a <= b THEN a ELSE b
<1> DEFINE m == IF a <= b THEN a ELSE b
<1>1. m \in {a, b} /\ \A y \in {a, b} : m =< y
  OBVIOUS
<1>2. \A x \in {a, b} : (\A y \in {a, b} : x =< y) => x = m
  OBVIOUS
<1> HIDE DEF m
<1>3. Min({a, b}) = m
  BY <1>1, <1>2 DEF Min
<1> QED
  BY <1>3 DEF m

(* The types of the fields.                                                *)
LEMMA FieldTypes ==
  ASSUME SsTypeOK
  PROVE  /\ buf \in [Cells -> Nat] /\ pending \in Nat /\ pending =< PayloadMax
         /\ counter \in Nat /\ given \in Nat /\ wire \in Seq(Chunks) /\ Len(wire) \in Nat
         /\ timer \in AtMostOneChunk /\ broken \in BOOLEAN /\ needFlush \in BOOLEAN
         /\ main.left \in Nat /\ main.n \in Nat /\ main.start \in Nat /\ main.eof \in BOOLEAN
         /\ main.sealed \in AtMostOneChunk
         /\ reader.counter \in Nat /\ reader.leftover \in Seq(Nat) /\ reader.delivered \in Nat
         /\ Len(reader.leftover) \in Nat /\ Came \in Nat
<1>1. main \in MainRecs /\ reader \in ReaderRecs /\ wire \in Seq(Chunks) /\ pending \in 0..PayloadMax
  BY DEF SsTypeOK
<1>2. reader.leftover \in Seq(Nat) /\ reader.delivered \in Nat /\ reader.counter \in Nat
  BY <1>1 DEF ReaderRecs
<1>3. Len(reader.leftover) \in Nat /\ Len(wire) \in Nat
  BY <1>1, <1>2, LenProperties
<1>4. /\ main.left \in Nat /\ main.n \in Nat /\ main.start \in Nat /\ main.eof \in BOOLEAN
      /\ main.sealed \in AtMostOneChunk
  BY <1>1 DEF MainRecs
<1>5. pending \in Nat /\ pending =< PayloadMax
  BY <1>1, Sizes
<1> QED
  BY <1>2, <1>3, <1>4, <1>5 DEF SsTypeOK, Came

(* The fields of a chunk on the wire.                                      *)
LEMMA WireTypes ==
  ASSUME SsTypeOK, NEW i \in 1..Len(wire)
  PROVE  /\ wire[i] \in Chunks /\ wire[i].payload \in Seq(Nat) /\ wire[i].nonce \in Nat
         /\ Len(wire[i].payload) \in Nat
         /\ \A j \in 1..Len(wire[i].payload) : wire[i].payload[j] \in Nat
         /\ Len(wire[i].payload) > 0 => LastOf(wire[i]) \in Nat
<1>1. wire[i] \in Chunks
  BY ElementOfSeq DEF SsTypeOK
<1>2. wire[i].payload \in Seq(Nat) /\ wire[i].nonce \in Nat
  BY <1>1 DEF Chunks
<1>3. Len(wire[i].payload) \in Nat /\ \A j \in 1..Len(wire[i].payload) : wire[i].payload[j] \in Nat
  BY <1>2, ElementOfSeq, LenProperties
<1> QED
  BY <1>1, <1>2, <1>3 DEF LastOf

(* Bytes are numbered.                                                     *)
LEMMA EndType == ASSUME SsTypeOK, WireInv PROVE End \in Nat
<1>1. CASE wire = <<>>
  BY <1>1, FieldTypes DEF End
<1>2. CASE wire # <<>>
  <2>1. Len(wire) \in 1..Len(wire)
    BY <1>2, EmptySeq DEF SsTypeOK
  <2>2. Len(wire[Len(wire)].payload) > 0
    BY <2>1 DEF WireInv, Follows
  <2> QED
    BY <1>2, <2>1, <2>2, WireTypes DEF End
<1> QED
  BY <1>1, <1>2

(* A step that leaves the wire, and what the reader has got, alone.         *)
LEMMA QuietKeeps ==
  ASSUME SsTypeOK, WireInv, wire' = wire, reader'.counter = reader.counter, Came' = Came,
         given' \in Nat, given' >= given
  PROVE  WireInv' /\ End' = End
<1>0. given \in Nat /\ Came \in Nat
  BY FieldTypes
<1>1. End' = End
  BY DEF End
<1>3. WireInv'
  <2> SUFFICES ASSUME NEW i \in 1..Len(wire)
               PROVE  /\ Follows(wire[i].payload, IF i = 1 THEN Came ELSE LastOf(wire[i - 1]))
                      /\ wire[i].nonce = reader.counter + 2 * (i - 1)
                      /\ wire[i].salt <=> wire[i].nonce = 0
                      /\ LastOf(wire[i]) =< given'
    BY DEF WireInv
  <2>1. /\ Follows(wire[i].payload, IF i = 1 THEN Came ELSE LastOf(wire[i - 1]))
        /\ wire[i].nonce = reader.counter + 2 * (i - 1)
        /\ wire[i].salt <=> wire[i].nonce = 0
        /\ LastOf(wire[i]) =< given
    BY DEF WireInv
  <2>2. LastOf(wire[i]) \in Nat
    BY <2>1, WireTypes DEF Follows
  <2> QED
    BY <1>0, <2>1, <2>2
<1> QED
  BY <1>1, <1>3

(* A step of the writing side that sends nothing.                          *)
LEMMA WriterKeeps ==
  ASSUME SsInv, UNCHANGED <<wire, reader>>, given' \in Nat, given' >= given
  PROVE  WireInv' /\ ReaderInv' /\ End' = End
<1>0. SsTypeOK /\ WireInv /\ ReaderInv /\ given \in Nat /\ Came \in Nat
  BY FieldTypes DEF SsInv
<1>1. Came' = Came /\ reader' = reader /\ wire' = wire
  BY DEF Came
<1>2. Came =< given
  BY <1>0 DEF ReaderInv
<1>3. Came =< given'
  BY <1>0, <1>2
<1>4. ReaderInv'
  BY <1>0, <1>1, <1>3 DEF ReaderInv
<1> QED
  BY <1>0, <1>1, <1>4, QuietKeeps

(* What a copy of bs to place i of old makes of it.                         *)
IsCopy(new, old, i, bs) ==
  /\ new \in [Cells -> Nat]
  /\ \A c \in Cells : c < i => new[c] = old[c]
  /\ \A j \in 1..Len(bs) : i + j - 1 \in Cells => new[i + j - 1] = bs[j]

(* The memory after a copy.                                                *)
LEMMA CopyMade ==
  ASSUME NEW mem \in [Cells -> Nat], NEW i \in Nat \ {0}, NEW bs \in Seq(Nat)
  PROVE  IsCopy(CopyTo(mem, i, bs), mem, i, bs)
<1>0. Len(bs) \in Nat /\ Cells \subseteq Nat /\ \A j \in 1..Len(bs) : bs[j] \in Nat
  BY LenProperties, ElementOfSeq, Sizes DEF Cells
<1>1. \A c \in Cells : c \in i .. i + Len(bs) - 1 => c - i + 1 \in 1..Len(bs)
  BY <1>0
<1>2. CopyTo(mem, i, bs) \in [Cells -> Nat]
  BY <1>0, <1>1 DEF CopyTo
<1>3. \A c \in Cells : c < i => CopyTo(mem, i, bs)[c] = mem[c]
  BY <1>0 DEF CopyTo
<1>4. ASSUME NEW j \in 1..Len(bs), i + j - 1 \in Cells
      PROVE  CopyTo(mem, i, bs)[i + j - 1] = bs[j]
  <2>1. i + j - 1 \in i .. i + Len(bs) - 1 /\ (i + j - 1) - i + 1 = j
    BY <1>0
  <2> QED
    BY <1>4, <2>1 DEF CopyTo
<1> QED
  BY <1>2, <1>3, <1>4 DEF IsCopy

(* A row of numbers is a sequence.                                         *)
LEMMA RowOf ==
  ASSUME NEW k \in Nat, NEW row, row \in [1..k -> Nat]
  PROVE  row \in Seq(Nat) /\ Len(row) = k
<1>1. row \in Seq(Nat)
  BY SeqDef
<1>2. DOMAIN row = 1..k
  OBVIOUS
<1> QED
  BY <1>1, <1>2, LenProperties

(* The bytes that are read next.                                           *)
LEMMA NextOnes ==
  ASSUME given \in Nat, NEW k \in Nat
  PROVE  /\ NextBytes(k) \in Seq(Nat) /\ Len(NextBytes(k)) = k
         /\ \A i \in 1..k : NextBytes(k)[i] = given + i
<1>1. NextBytes(k) \in [1..k -> Nat]
  BY DEF NextBytes
<1>2. NextBytes(k) \in Seq(Nat) /\ Len(NextBytes(k)) = k
  BY <1>1, RowOf
<1> QED
  BY <1>2 DEF NextBytes

(* The first bytes of a sequence.                                          *)
LEMMA FirstOf ==
  ASSUME NEW s \in Seq(Nat), NEW n \in Nat, n =< Len(s)
  PROVE  /\ SubSeq(s, 1, n) \in Seq(Nat) /\ Len(SubSeq(s, 1, n)) = n
         /\ \A j \in 1..n : SubSeq(s, 1, n)[j] = s[j]
<1>1. Len(s) \in Nat /\ \A i \in 1..n : s[i] \in Nat
  BY LenProperties, ElementOfSeq
<1> DEFINE t == SubSeq(s, 1, n)
<1>2. /\ t \in Seq(Nat) /\ Len(t) = IF 1 <= n THEN n - 1 + 1 ELSE 0
      /\ \A i \in 1..(n - 1 + 1) : t[i] = s[1 + i - 1]
  BY <1>1, SubSeqProperties
<1> HIDE DEF t
<1>3. n - 1 + 1 = n /\ (IF 1 <= n THEN n - 1 + 1 ELSE 0) = n /\ \A i \in 1..n : 1 + i - 1 = i
  OBVIOUS
<1>4. t \in Seq(Nat) /\ Len(t) = n /\ \A j \in 1..n : t[j] = s[j]
  BY <1>2, <1>3
<1> QED
  BY <1>4 DEF t

(* The first n of bs are behind the bytes that were pending.               *)
IsQueued(bs, n) ==
  /\ n = IF Len(bs) =< PayloadMax - pending THEN Len(bs) ELSE PayloadMax - pending
  /\ n = Min({Len(bs), PayloadMax - pending})
  /\ pending' = pending + n /\ pending' \in 0..PayloadMax
  /\ buf' \in [Cells -> Nat]
  /\ \A c \in 1..pending : buf'[c] = buf[c]
  /\ \A j \in 1..n : buf'[pending + j] = bs[j]

(* Enqueue queues as many as fit.                                          *)
LEMMA Enqueued ==
  ASSUME SsTypeOK, NEW bs \in Seq(Nat), Enqueue(bs)
  PROVE  \E n \in Nat : IsQueued(bs, n)
<1>0. /\ pending \in Nat /\ pending =< PayloadMax /\ PayloadMax \in Nat /\ Overhead \in Nat
      /\ Len(bs) \in Nat /\ buf \in [Cells -> Nat]
  BY FieldTypes, Sizes, LenProperties
<1> DEFINE n == Min({Len(bs), PayloadMax - pending})
           t == SubSeq(bs, 1, n)
<1>1. PayloadMax - pending \in Nat
  BY <1>0
<1>2. /\ n = IF Len(bs) =< PayloadMax - pending THEN Len(bs) ELSE PayloadMax - pending
      /\ n \in Nat
  BY <1>0, <1>1, Lesser
<1>3. n =< Len(bs) /\ pending + n \in 0..PayloadMax /\ n =< PayloadMax - pending
  BY <1>0, <1>1, <1>2
<1>4. pending' = pending + n /\ buf' = CopyTo(buf, pending + 1, t)
  BY DEF Enqueue
<1> HIDE DEF n
<1>5. t \in Seq(Nat) /\ Len(t) = n /\ \A j \in 1..n : t[j] = bs[j]
  BY <1>2, <1>3, FirstOf
<1> HIDE DEF t
<1>6. pending + 1 \in Nat \ {0}
  BY <1>0
<1>7. /\ buf' \in [Cells -> Nat]
      /\ \A c \in Cells : c < pending + 1 => buf'[c] = buf[c]
      /\ \A j \in 1..Len(t) : (pending + 1) + j - 1 \in Cells => buf'[(pending + 1) + j - 1] = t[j]
  <2>1. IsCopy(buf', buf, pending + 1, t)
    BY <1>0, <1>4, <1>5, <1>6, CopyMade
  <2> QED
    BY <2>1 DEF IsCopy
<1>8. \A c \in 1..pending : c \in Cells /\ c < pending + 1
  BY <1>0 DEF Cells
<1>9. \A j \in 1..n : (pending + 1) + j - 1 = pending + j /\ pending + j \in Cells
  BY <1>0, <1>2, <1>3 DEF Cells
<1>10. \A j \in 1..n : buf'[pending + j] = bs[j]
  BY <1>5, <1>7, <1>9
<1> QED
  BY <1>2, <1>3, <1>4, <1>7, <1>8, <1>10 DEF n, IsQueued

(* What flush seals: the pending bytes, under the next nonce.              *)
LEMMA SealedIs ==
  ASSUME SsTypeOK
  PROVE  /\ Sealed \in Chunks /\ Sealed.nonce = counter /\ (Sealed.salt <=> counter = 0)
         /\ Len(Sealed.payload) = pending
         /\ \A j \in 1..pending : Sealed.payload[j] = buf[j]
<1>0. /\ pending \in Nat /\ pending =< PayloadMax /\ PayloadMax \in Nat /\ Overhead \in Nat
      /\ buf \in [Cells -> Nat] /\ counter \in Nat
  BY FieldTypes, Sizes
<1> DEFINE s == [c \in Cells |-> buf[c]]
           t == SubSeq(s, 1, pending)
<1>1. s \in [1..(PayloadMax + Overhead) -> Nat] /\ PayloadMax + Overhead \in Nat
  BY <1>0 DEF Cells
<1> HIDE DEF s
<1>2. s \in Seq(Nat)
  BY <1>1, RowOf
<1>3. Len(s) = PayloadMax + Overhead
  BY <1>1, RowOf
<1>4. \A j \in 1..pending : j \in Cells /\ s[j] = buf[j]
  BY <1>0 DEF Cells, s
<1>5. t \in Seq(Nat) /\ Len(t) = pending /\ \A j \in 1..pending : t[j] = s[j]
  BY <1>0, <1>2, <1>3, FirstOf
<1>6. Sealed = [salt |-> counter = 0, nonce |-> counter, payload |-> t]
  BY DEF Sealed, s
<1> HIDE DEF t
<1>7. (counter = 0) \in BOOLEAN
  OBVIOUS
<1> QED
  BY <1>0, <1>4, <1>5, <1>6, <1>7 DEF Chunks

(* The thread that holds the lock, or runs the main loop, is alone.        *)
LEMMA Alone ==
  ASSUME SsTypeOK, LockInv
  PROVE  /\ main.at \in {"lazy", "lazyFlush", "flush1", "loop", "loopFlush"} => timer = <<>>
         /\ mu = "free" => timer = <<>>
         /\ main.at \notin Flushing => main.sealed = <<>>
         /\ timer # <<>> => main.at \in {"idle", "read1", "relock"} /\ main.sealed = <<>>
         /\ mu = "free" /\ needFlush => main.at \in {"idle", "read1", "relock"} /\ main.sealed = <<>>
         /\ main.sealed # <<>> => timer = <<>>
<1>1. main \in MainRecs /\ mu \in {"free", "main", "timer"}
  BY DEF SsTypeOK
<1>2. main.at \in {"idle", "lazy", "lazyFlush", "read1", "relock", "flush1", "loop", "loopFlush"}
  BY <1>1 DEF MainRecs
<1> QED
  BY <1>1, <1>2 DEF LockInv, Flushing

(* Locations of the thread.                                                *)
LEMMA MainTypes ==
  ASSUME NEW at \in {"idle", "lazy", "lazyFlush", "read1", "relock", "flush1", "loop", "loopFlush"},
         NEW left \in Nat, NEW n \in Nat, NEW start \in Nat, NEW atEnd \in BOOLEAN,
         NEW sealed \in AtMostOneChunk
  PROVE  [at |-> at, left |-> left, n |-> n, start |-> start, eof |-> atEnd, sealed |-> sealed] \in MainRecs
BY DEF MainRecs

(* LazyWrite takes the lock.                                               *)
LEMMA LazyWriteKeeps == ASSUME SsInv, LazyWrite PROVE SsInv'
<1>0. SsTypeOK /\ LockInv /\ RoomInv /\ BufInv /\ given \in Nat
  BY FieldTypes DEF SsInv
<1>1. PICK k \in (IF given = 0 THEN {AddrLen} ELSE 1 .. TotalBytes - given) :
         main' = [Idle EXCEPT !.at = "lazy", !.left = k]
  BY DEF LazyWrite
<1>2. k \in Nat
  BY <1>0, Sizes
<1>3. main' = [at |-> "lazy", left |-> k, n |-> 0, start |-> 0, eof |-> FALSE, sealed |-> <<>>]
  BY <1>1 DEF Idle
<1>4. /\ main.at = "idle" /\ mu = "free" /\ mu' = "main"
      /\ UNCHANGED <<buf, pending, needFlush, counter, given, wire, broken, reader, timer>>
  BY DEF LazyWrite
<1>5. timer = <<>> /\ main.sealed = <<>>
  BY <1>0, <1>4, Alone DEF Flushing
<1>6. SsTypeOK'
  <2>1. main' \in MainRecs
    BY <1>2, <1>3, OneChunk, MainTypes, 0 \in Nat
  <2> QED
    BY <1>0, <1>4, <2>1 DEF SsTypeOK
<1>7. LockInv' /\ RoomInv'
  BY <1>0, <1>3, <1>4, <1>5 DEF LockInv, RoomInv
<1>8. WireInv' /\ ReaderInv' /\ End' = End
  BY <1>0, <1>4, WriterKeeps
<1>9. SealedInv'
  BY <1>3, <1>4, <1>5 DEF SealedInv
<1>10. BufInv'
  BY <1>0, <1>3, <1>4, <1>5, <1>8 DEF BufInv, InHand
<1> QED
  BY <1>6, <1>7, <1>8, <1>9, <1>10 DEF SsInv

(* A turn of the loop of LazyWrite queues the next bytes.                  *)
LEMMA LazyEnqueueKeeps == ASSUME SsInv, LazyEnqueue PROVE SsInv'
<1>0. /\ SsTypeOK /\ WireInv /\ LockInv /\ RoomInv /\ BufInv /\ given \in Nat /\ main.left \in Nat
      /\ pending \in Nat /\ End \in Nat /\ main \in MainRecs
  BY FieldTypes, EndType DEF SsInv, SsTypeOK
<1>1. /\ main.at = "lazy" /\ Enqueue(NextBytes(main.left))
      /\ UNCHANGED <<counter, wire, broken, reader, timer>>
  BY DEF LazyEnqueue
<1>2. timer = <<>> /\ main.sealed = <<>> /\ mu = "main"
  BY <1>0, <1>1, Alone DEF Flushing, LockInv
<1>3. /\ NextBytes(main.left) \in Seq(Nat) /\ Len(NextBytes(main.left)) = main.left
      /\ \A i \in 1..main.left : NextBytes(main.left)[i] = given + i
  BY <1>0, NextOnes
<1>20. PICK n \in Nat : IsQueued(NextBytes(main.left), n)
  BY <1>0, <1>1, <1>3, Enqueued
<1>4. /\ n \in Nat
      /\ n = Min({main.left, PayloadMax - pending})
      /\ n = IF main.left =< PayloadMax - pending THEN main.left ELSE PayloadMax - pending
      /\ pending' = pending + n /\ pending' \in 0..PayloadMax
      /\ buf' \in [Cells -> Nat]
      /\ \A c \in 1..pending : buf'[c] = buf[c]
      /\ \A j \in 1..n : buf'[pending + j] = NextBytes(main.left)[j]
  BY <1>3, <1>20 DEF IsQueued
<1>5. /\ given' = given + n
      /\ IF n = main.left
         THEN needFlush' = TRUE /\ mu' = "free" /\ main' = Idle
         ELSE /\ main' = [main EXCEPT !.at = "lazyFlush", !.left = main.left - n]
              /\ UNCHANGED <<needFlush, mu>>
  BY <1>4 DEF LazyEnqueue
<1>6. n =< main.left /\ main.left - n \in Nat /\ given' \in Nat /\ given' >= given
  <2>1. n \in Nat /\ given' = given + n /\ n = IF main.left =< PayloadMax - pending THEN main.left ELSE PayloadMax - pending
    BY <1>4, <1>5
  <2>2. n =< main.left
    BY <1>0, <2>1, Sizes
  <2> QED
    BY <1>0, <2>1, <2>2
<1>7. /\ main' \in MainRecs /\ main'.sealed = <<>>
      /\ \/ main'.at = "idle" /\ needFlush' = TRUE /\ mu' = "free"
         \/ main'.at = "lazyFlush" /\ needFlush' = needFlush /\ mu' = "main"
  <2>1. CASE n = main.left
    <3>1. main' = [at |-> "idle", left |-> 0, n |-> 0, start |-> 0, eof |-> FALSE, sealed |-> <<>>]
      BY <1>5, <2>1 DEF Idle
    <3>2. main' \in MainRecs
      BY <3>1, OneChunk, MainTypes, 0 \in Nat
    <3> QED
      BY <1>5, <2>1, <3>1, <3>2
  <2>2. CASE n # main.left
    <3>1. main' = [main EXCEPT !.at = "lazyFlush", !.left = main.left - n]
      BY <1>5, <2>2
    <3>2. main' \in MainRecs
      BY <1>0, <1>6, <3>1 DEF MainRecs
    <3>3. main'.sealed = <<>> /\ main'.at = "lazyFlush"
      BY <1>0, <1>2, <3>1 DEF MainRecs
    <3> QED
      BY <1>2, <1>5, <2>2, <3>2, <3>3
  <2> QED
    BY <2>1, <2>2
<1>8. SsTypeOK'
  BY <1>0, <1>1, <1>4, <1>6, <1>7 DEF SsTypeOK
<1>9. LockInv' /\ RoomInv'
  BY <1>0, <1>1, <1>2, <1>7 DEF LockInv, RoomInv
<1>10. WireInv' /\ ReaderInv' /\ End' = End
  BY <1>0, <1>1, <1>6, WriterKeeps
<1>11. SealedInv'
  BY <1>1, <1>2, <1>7 DEF SealedInv
<1>12. BufInv'
  <2>1. InHand = 0 /\ InHand' = 0 /\ main'.at # "relock"
    BY <1>1, <1>7 DEF InHand
  <2>2. ASSUME ~broken PROVE End' + pending' + InHand' = given'
    <3>1. End + pending + 0 = given
      BY <1>0, <2>1, <2>2 DEF BufInv
    <3> QED
      BY <1>0, <1>4, <1>5, <1>10, <2>1, <3>1
  <2>3. ASSUME ~broken PROVE counter' = reader'.counter + 2 * Len(wire')
    BY <1>0, <1>1, <1>2, <2>3 DEF BufInv
  <2>4. ASSUME ~broken, NEW c \in 1..pending' PROVE buf'[c] = End' + c
    <3>1. CASE c \in 1..pending
      BY <1>0, <1>2, <1>4, <1>10, <2>4, <3>1 DEF BufInv
    <3>2. CASE c \notin 1..pending
      <4>1. c - pending \in 1..n /\ pending + (c - pending) = c
        <5>1. pending' = pending + n /\ n \in Nat /\ c \in 1..pending'
          BY <1>4
        <5> QED
          BY <1>0, <3>2, <5>1
      <4>2. buf'[c] = given + (c - pending)
        BY <1>3, <1>4, <1>6, <4>1, 1..n \subseteq 1..main.left
      <4>3. End + pending + 0 = given
        BY <1>0, <2>1, <2>4 DEF BufInv
      <4> QED
        BY <1>0, <1>4, <1>10, <4>2, <4>3
    <3> QED
      BY <3>1, <3>2
  <2> QED
    BY <1>1, <2>1, <2>2, <2>3, <2>4 DEF BufInv
<1> QED
  BY <1>8, <1>9, <1>10, <1>11, <1>12 DEF SsInv

(* Write and ReadFrom choose where they read to.                           *)
LEMMA ReadFromKeeps == ASSUME SsInv, ReadFrom PROVE SsInv'
<1>0. SsTypeOK /\ LockInv /\ RoomInv /\ BufInv /\ given \in Nat /\ pending \in Nat /\ pending =< PayloadMax
  BY FieldTypes DEF SsInv
<1>1. PICK k \in 0 .. TotalBytes - given :
          main' = IF needFlush
                  THEN [Idle EXCEPT !.at = "read1", !.left = k, !.start = ReadBufStart(pending)]
                  ELSE [Idle EXCEPT !.at = "loop", !.left = k]
  BY DEF ReadFrom
<1>2. k \in Nat /\ ReadBufStart(pending) \in Nat /\ ReadBufStart(pending) = pending + Overhead + 1
  BY <1>0, Sizes DEF ReadBufStart
<1>3. /\ needFlush => main' = [at |-> "read1", left |-> k, n |-> 0, start |-> ReadBufStart(pending),
                                eof |-> FALSE, sealed |-> <<>>]
      /\ ~needFlush => main' = [at |-> "loop", left |-> k, n |-> 0, start |-> 0, eof |-> FALSE, sealed |-> <<>>]
  BY <1>1 DEF Idle
<1>4. /\ main.at = "idle" /\ mu = "free"
      /\ UNCHANGED <<buf, pending, needFlush, counter, mu, given, wire, broken, reader, timer>>
  BY DEF ReadFrom
<1>5. timer = <<>> /\ main.sealed = <<>>
  BY <1>0, <1>4, Alone DEF Flushing
<1>6. SsTypeOK'
  <2>1. main' \in MainRecs
    <3>1. <<>> \in AtMostOneChunk /\ 0 \in Nat
      BY OneChunk
    <3> DEFINE st == ReadBufStart(pending)
    <3>2. CASE needFlush
      <4>1. st \in Nat /\ k \in Nat
        BY <1>2
      <4>2. main' = [at |-> "read1", left |-> k, n |-> 0, start |-> st, eof |-> FALSE, sealed |-> <<>>]
        BY <1>3, <3>2
      <4> HIDE DEF st
      <4> QED
        BY <3>1, <4>1, <4>2 DEF MainRecs
    <3>3. CASE ~needFlush
      <4>1. main' = [at |-> "loop", left |-> k, n |-> 0, start |-> 0, eof |-> FALSE, sealed |-> <<>>]
        BY <1>3, <3>3
      <4>2. k \in Nat
        BY <1>2
      <4> QED
        BY <3>1, <4>1, <4>2 DEF MainRecs
    <3> QED
      BY <3>2, <3>3
  <2> QED
    BY <1>0, <1>4, <2>1 DEF SsTypeOK
<1>7. LockInv'
  BY <1>0, <1>3, <1>4, <1>5 DEF LockInv
<1>8. RoomInv'
  <2>1. CASE needFlush
    <3>1. main'.at = "read1" /\ main'.start = pending + Overhead + 1 /\ needFlush'
      BY <1>2, <1>3, <1>4, <2>1
    <3> QED
      BY <1>0, <1>4, <3>1, Sizes DEF RoomInv
  <2>2. CASE ~needFlush
    BY <1>0, <1>3, <1>4, <2>2 DEF RoomInv
  <2> QED
    BY <2>1, <2>2
<1>9. WireInv' /\ ReaderInv' /\ End' = End
  BY <1>0, <1>4, WriterKeeps
<1>10. SealedInv'
  BY <1>3, <1>4, <1>5 DEF SealedInv
<1>11. BufInv'
  BY <1>0, <1>3, <1>4, <1>5, <1>9 DEF BufInv, InHand
<1> QED
  BY <1>6, <1>7, <1>8, <1>9, <1>10, <1>11 DEF SsInv

(* The read of the special case leaves what a flush may encrypt alone.     *)
LEMMA ReadBehindPendingKeeps == ASSUME SsInv, ReadBehindPending PROVE SsInv'
<1>0. /\ SsTypeOK /\ LockInv /\ RoomInv /\ BufInv /\ SealedInv /\ given \in Nat /\ pending \in Nat
      /\ main \in MainRecs /\ main.left \in Nat /\ main.start \in Nat /\ buf \in [Cells -> Nat]
      /\ WireInv /\ End \in Nat
  BY FieldTypes, EndType DEF SsInv, SsTypeOK
<1>1. /\ main.at = "read1"
      /\ UNCHANGED <<pending, needFlush, counter, mu, wire, broken, reader, timer>>
  BY DEF ReadBehindPending
<1>2. PICK n \in 0 .. main.left, atEnd \in BOOLEAN :
          /\ ReadResult(main.left, PayloadMax + Overhead + 1 - main.start, n, atEnd)
          /\ buf' = CopyTo(buf, main.start, NextBytes(n))
          /\ given' = given + n
          /\ main' = [main EXCEPT !.at = "relock", !.n = n, !.eof = atEnd, !.left = main.left - n]
  BY DEF ReadBehindPending
<1>3. /\ n \in Nat /\ main.left - n \in Nat /\ n =< PayloadMax + Overhead + 1 - main.start
      /\ given' \in Nat /\ given' >= given /\ given' = given + n
  BY <1>0, <1>2 DEF ReadResult
<1>4. /\ pending + Overhead + 1 =< main.start /\ main.start =< PayloadMax + Overhead + 1
      /\ main.start + n =< PayloadMax + Overhead + 1 /\ main.start \in Nat \ {0}
  BY <1>0, <1>1, <1>3, Sizes DEF RoomInv
<1>5. /\ NextBytes(n) \in Seq(Nat) /\ Len(NextBytes(n)) = n
      /\ \A i \in 1..n : NextBytes(n)[i] = given + i
  BY <1>0, <1>3, NextOnes
<1>6. /\ buf' \in [Cells -> Nat]
      /\ \A c \in Cells : c < main.start => buf'[c] = buf[c]
      /\ \A j \in 1..n : main.start + j - 1 \in Cells => buf'[main.start + j - 1] = NextBytes(n)[j]
  <2> DEFINE bs == NextBytes(n)
             st == main.start
  <2>1. buf' = CopyTo(buf, st, bs) /\ bs \in Seq(Nat) /\ Len(bs) = n /\ st \in Nat \ {0}
    BY <1>2, <1>4, <1>5
  <2> HIDE DEF bs, st
  <2>2. IsCopy(buf', buf, st, bs)
    BY <1>0, <2>1, CopyMade
  <2> QED
    BY <2>1, <2>2 DEF bs, st, IsCopy
<1>7. /\ main' \in MainRecs /\ main'.at = "relock" /\ main'.n = n /\ main'.start = main.start
      /\ main'.sealed = main.sealed /\ main.sealed = <<>>
  <2>1. main.sealed = <<>>
    BY <1>0, <1>1, Alone DEF Flushing
  <2>2. main' \in MainRecs
    BY <1>0, <1>2, <1>3 DEF MainRecs
  <2>3. main'.at = "relock" /\ main'.n = n /\ main'.start = main.start /\ main'.sealed = main.sealed
    BY <1>0, <1>2 DEF MainRecs
  <2> QED
    BY <2>1, <2>2, <2>3
<1>8. SsTypeOK'
  BY <1>0, <1>1, <1>3, <1>6, <1>7 DEF SsTypeOK
<1>9. LockInv'
  BY <1>0, <1>1, <1>7 DEF LockInv
<1>10. RoomInv'
  BY <1>1, <1>4, <1>7 DEF RoomInv
<1>11. WireInv' /\ ReaderInv' /\ End' = End
  BY <1>0, <1>1, <1>3, WriterKeeps
<1>12. \A c \in 1..pending + Overhead : c \in Cells /\ buf'[c] = buf[c]
  <2>1. \A c \in 1..pending + Overhead : c \in Cells /\ c < main.start
    <3> DEFINE st == main.start
    <3>1. /\ st \in Nat /\ pending \in Nat /\ Overhead \in Nat /\ PayloadMax \in Nat
          /\ pending + Overhead + 1 =< st /\ st =< PayloadMax + Overhead + 1
      BY <1>0, <1>4, Sizes
    <3> HIDE DEF st
    <3>2. \A c \in 1..pending + Overhead : c \in 1..PayloadMax + Overhead /\ c < st
      BY <3>1
    <3> QED
      BY <3>2 DEF st, Cells
  <2> QED
    BY <1>6, <2>1
<1>13. SealedInv'
  <2>1. CASE timer = <<>>
    BY <1>1, <1>7, <2>1 DEF SealedInv
  <2>2. CASE timer # <<>>
    <3>1. pending > 0 /\ Ciphertext
      BY <1>0, <2>2 DEF SealedInv
    <3>2. Ciphertext'
      BY <1>1, <1>12, <3>1 DEF Ciphertext
    <3>3. ~broken => /\ Follows(timer[1].payload, End) /\ Len(timer[1].payload) = pending
                     /\ timer[1].nonce = reader.counter + 2 * Len(wire) /\ counter = timer[1].nonce + 2
                     /\ timer[1].salt <=> timer[1].nonce = 0
      BY <1>0, <2>2 DEF SealedInv
    <3> QED
      BY <1>1, <1>7, <1>11, <3>1, <3>2, <3>3 DEF SealedInv
  <2> QED
    BY <2>1, <2>2
<1>14. BufInv'
  <2>1. InHand = 0 /\ InHand' = n
    BY <1>1, <1>7 DEF InHand
  <2>2. ASSUME ~broken PROVE End' + pending' + InHand' = given'
    <3>1. End + pending + 0 = given
      BY <1>0, <2>1, <2>2 DEF BufInv
    <3> QED
      BY <1>0, <1>1, <1>3, <1>11, <2>1, <3>1
  <2>3. ASSUME ~broken, timer = <<>>
        PROVE  counter' = reader'.counter + 2 * Len(wire') /\ \A c \in 1..pending' : buf'[c] = End' + c
    <3>1. counter = reader.counter + 2 * Len(wire) /\ \A c \in 1..pending : buf[c] = End + c
      BY <1>0, <1>7, <2>3 DEF BufInv
    <3>2. \A c \in 1..pending : buf'[c] = buf[c]
      <4>1. \A c \in 1..pending : c \in 1..pending + Overhead
        BY <1>0, Sizes
      <4> QED
        BY <1>12, <4>1
    <3> QED
      BY <1>1, <1>11, <3>1, <3>2
  <2>4. ASSUME NEW i \in 1..n PROVE buf'[main.start + i - 1] = given' - n + i
    <3>1. main.start + i - 1 \in Cells
      <4> DEFINE st == main.start
      <4>1. st \in Nat /\ st > 0 /\ st + n =< PayloadMax + Overhead + 1 /\ n \in Nat /\ PayloadMax \in Nat /\ Overhead \in Nat
        BY <1>3, <1>4, Sizes
      <4> HIDE DEF st
      <4>2. st + i - 1 \in 1..PayloadMax + Overhead
        BY <4>1
      <4> QED
        BY <4>2 DEF st, Cells
    <3>2. buf'[main.start + i - 1] = given + i
      BY <1>5, <1>6, <3>1
    <3> QED
      BY <1>0, <1>3, <3>2
  <2>5. n =< given'
    BY <1>0, <1>3
  <2> QED
    BY <1>1, <1>7, <2>2, <2>3, <2>4, <2>5 DEF BufInv
<1> QED
  BY <1>8, <1>9, <1>10, <1>11, <1>13, <1>14 DEF SsInv

(* What it has read fits behind the pending bytes.                         *)
LEMMA RelockKeeps == ASSUME SsInv, RelockAndEnqueue PROVE SsInv'
<1>0. /\ SsTypeOK /\ LockInv /\ RoomInv /\ BufInv /\ given \in Nat /\ pending \in Nat
      /\ main \in MainRecs /\ main.n \in Nat /\ main.start \in Nat /\ buf \in [Cells -> Nat]
      /\ WireInv /\ End \in Nat
  BY FieldTypes, EndType DEF SsInv, SsTypeOK
<1> DEFINE bs == [i \in 1 .. main.n |-> buf[main.start + i - 1]]
<1>1. /\ main.at = "relock" /\ mu = "free" /\ mu' = "main" /\ Enqueue(bs)
      /\ main' = [main EXCEPT !.at = "flush1"]
      /\ UNCHANGED <<needFlush, counter, given, wire, broken, reader, timer>>
  BY DEF RelockAndEnqueue
<1>2. timer = <<>> /\ main.sealed = <<>>
  BY <1>0, <1>1, Alone DEF Flushing
<1>3. /\ main' \in MainRecs /\ main'.at = "flush1" /\ main'.sealed = <<>>
  <2>1. main' \in MainRecs
    BY <1>0, <1>1 DEF MainRecs
  <2> QED
    BY <1>0, <1>1, <1>2, <2>1 DEF MainRecs
<1>4. /\ pending + Overhead + 1 =< main.start /\ main.start + main.n =< PayloadMax + Overhead + 1
      /\ main.n =< PayloadMax - pending
  <2>1. pending + Overhead + 1 =< main.start /\ main.start + main.n =< PayloadMax + Overhead + 1
    BY <1>0, <1>1 DEF RoomInv
  <2> QED
    BY <1>0, <2>1, Sizes
<1>5. bs \in Seq(Nat) /\ Len(bs) = main.n /\ \A j \in 1..main.n : bs[j] = buf[main.start + j - 1]
  <2>1. \A i \in 1..main.n : main.start + i - 1 \in Cells
    <3> DEFINE st == main.start
               n == main.n
    <3>1. /\ st \in Nat /\ st > 0 /\ st + n =< PayloadMax + Overhead + 1 /\ n \in Nat
          /\ PayloadMax \in Nat /\ Overhead \in Nat
      BY <1>0, <1>4, Sizes
    <3> HIDE DEF st, n
    <3>2. \A i \in 1..n : st + i - 1 \in 1..PayloadMax + Overhead
      BY <3>1
    <3> QED
      BY <3>2 DEF st, n, Cells
  <2>2. bs \in [1..main.n -> Nat] /\ \A j \in 1..main.n : bs[j] = buf[main.start + j - 1]
    BY <1>0, <2>1
  <2> HIDE DEF bs
  <2>3. bs \in Seq(Nat) /\ Len(bs) = main.n
    BY <1>0, <2>2, RowOf
  <2> QED
    BY <2>2, <2>3
<1> HIDE DEF bs
<1>20. PICK n \in Nat : IsQueued(bs, n)
  BY <1>0, <1>1, <1>5, Enqueued
<1>6. /\ n \in Nat
      /\ n = Min({Len(bs), PayloadMax - pending})
      /\ n = IF Len(bs) =< PayloadMax - pending THEN Len(bs) ELSE PayloadMax - pending
      /\ pending' = pending + n /\ pending' \in 0..PayloadMax
      /\ buf' \in [Cells -> Nat]
      /\ \A c \in 1..pending : buf'[c] = buf[c]
      /\ \A j \in 1..n : buf'[pending + j] = bs[j]
  BY <1>20 DEF IsQueued
<1>7. n = main.n /\ pending' = pending + main.n /\ \A j \in 1..main.n : buf'[pending + j] = buf[main.start + j - 1]
  <2>1. n = main.n
    BY <1>4, <1>5, <1>6
  <2> QED
    BY <1>5, <1>6, <2>1
<1>8. SsTypeOK'
  BY <1>0, <1>1, <1>3, <1>6 DEF SsTypeOK
<1>9. LockInv' /\ RoomInv'
  BY <1>0, <1>1, <1>2, <1>3 DEF LockInv, RoomInv
<1>10. WireInv' /\ ReaderInv' /\ End' = End
  BY <1>0, <1>1, WriterKeeps
<1>11. SealedInv'
  BY <1>1, <1>2, <1>3 DEF SealedInv
<1>12. BufInv'
  <2>1. InHand = main.n /\ InHand' = 0
    BY <1>1, <1>3 DEF InHand
  <2>2. ASSUME ~broken PROVE End + pending + main.n = given
    BY <1>0, <2>1, <2>2 DEF BufInv
  <2>3. ASSUME ~broken PROVE End' + pending' + InHand' = given'
    BY <1>0, <1>1, <1>7, <1>10, <2>1, <2>2, <2>3
  <2>4. ASSUME ~broken PROVE counter' = reader'.counter + 2 * Len(wire')
    BY <1>0, <1>1, <1>2, <2>4 DEF BufInv
  <2>5. ASSUME ~broken, NEW c \in 1..pending' PROVE buf'[c] = End' + c
    <3>1. CASE c \in 1..pending
      BY <1>0, <1>2, <1>6, <1>10, <2>5, <3>1 DEF BufInv
    <3>2. CASE c \notin 1..pending
      <4>1. c - pending \in 1..main.n /\ pending + (c - pending) = c
        BY <1>0, <1>7, <3>2
      <4>2. buf'[c] = buf[main.start + (c - pending) - 1]
        BY <1>7, <4>1
      <4>3. buf[main.start + (c - pending) - 1] = given - main.n + (c - pending)
        BY <1>0, <1>1, <4>1 DEF BufInv
      <4> QED
        BY <1>0, <1>7, <1>10, <2>2, <2>5, <4>2, <4>3
    <3> QED
      BY <3>1, <3>2
  <2> QED
    BY <1>1, <1>3, <2>3, <2>4, <2>5 DEF BufInv
<1> QED
  BY <1>8, <1>9, <1>10, <1>11, <1>12 DEF SsInv

(* The main loop reads to the start of the buffer.                         *)
LEMMA LoopReadKeeps == ASSUME SsInv, LoopRead PROVE SsInv'
<1>0. /\ SsTypeOK /\ LockInv /\ RoomInv /\ BufInv /\ given \in Nat /\ pending \in Nat
      /\ main \in MainRecs /\ main.left \in Nat /\ buf \in [Cells -> Nat]
      /\ WireInv /\ End \in Nat
  BY FieldTypes, EndType DEF SsInv, SsTypeOK
<1>1. main.at = "loop" /\ UNCHANGED <<needFlush, counter, mu, wire, broken, reader, timer>>
  BY DEF LoopRead
<1>2. PICK n \in 0 .. main.left, atEnd \in BOOLEAN :
          /\ ReadResult(main.left, PayloadMax, n, atEnd)
          /\ buf' = CopyTo(buf, 1, NextBytes(n))
          /\ pending' = n
          /\ given' = given + n
          /\ main' = [main EXCEPT !.at = "loopFlush", !.eof = atEnd, !.left = main.left - n]
  BY DEF LoopRead
<1>3. timer = <<>> /\ main.sealed = <<>> /\ ~needFlush /\ pending = 0
  BY <1>0, <1>1, Alone DEF Flushing, LockInv, RoomInv
<1>4. /\ n \in Nat /\ main.left - n \in Nat /\ n =< PayloadMax
      /\ given' \in Nat /\ given' >= given /\ given' = given + n /\ pending' = n
  BY <1>0, <1>2 DEF ReadResult
<1>5. /\ NextBytes(n) \in Seq(Nat) /\ Len(NextBytes(n)) = n
      /\ \A i \in 1..n : NextBytes(n)[i] = given + i
  BY <1>0, <1>4, NextOnes
<1>6. /\ buf' \in [Cells -> Nat]
      /\ \A j \in 1..n : 1 + j - 1 \in Cells => buf'[1 + j - 1] = NextBytes(n)[j]
  <2> DEFINE bs == NextBytes(n)
  <2>1. buf' = CopyTo(buf, 1, bs) /\ bs \in Seq(Nat) /\ Len(bs) = n /\ 1 \in Nat \ {0}
    BY <1>2, <1>5
  <2> HIDE DEF bs
  <2>2. IsCopy(buf', buf, 1, bs)
    BY <1>0, <2>1, CopyMade
  <2> QED
    BY <2>1, <2>2 DEF bs, IsCopy
<1>7. \A j \in 1..n : buf'[j] = given + j
  <2>1. \A j \in 1..n : 1 + j - 1 = j /\ j \in Cells
    BY <1>4, Sizes DEF Cells
  <2> QED
    BY <1>5, <1>6, <2>1
<1>8. main' \in MainRecs /\ main'.at = "loopFlush" /\ main'.sealed = <<>>
  <2>1. main' \in MainRecs
    BY <1>0, <1>2, <1>4 DEF MainRecs
  <2> QED
    BY <1>0, <1>2, <1>3, <2>1 DEF MainRecs
<1>9. SsTypeOK'
  <2>1. pending' \in 0..PayloadMax
    BY <1>4, Sizes
  <2> QED
    BY <1>0, <1>1, <1>4, <1>6, <1>8, <2>1 DEF SsTypeOK
<1>10. LockInv' /\ RoomInv'
  BY <1>0, <1>1, <1>3, <1>8 DEF LockInv, RoomInv
<1>11. WireInv' /\ ReaderInv' /\ End' = End
  BY <1>0, <1>1, <1>4, WriterKeeps
<1>12. SealedInv'
  BY <1>1, <1>3, <1>8 DEF SealedInv
<1>13. BufInv'
  <2>1. InHand = 0 /\ InHand' = 0
    BY <1>1, <1>8 DEF InHand
  <2>2. ASSUME ~broken PROVE End = given
    <3>1. End + pending + 0 = given
      BY <1>0, <2>1, <2>2 DEF BufInv
    <3> QED
      BY <1>0, <1>3, <3>1
  <2>3. ASSUME ~broken PROVE End' + pending' + InHand' = given'
    BY <1>0, <1>4, <1>11, <2>1, <2>2, <2>3
  <2>4. ASSUME ~broken PROVE counter' = reader'.counter + 2 * Len(wire')
    BY <1>0, <1>1, <1>3, <2>4 DEF BufInv
  <2>5. ASSUME ~broken PROVE \A c \in 1..pending' : buf'[c] = End' + c
    BY <1>4, <1>7, <1>11, <2>2, <2>5
  <2> QED
    BY <1>1, <1>8, <2>3, <2>4, <2>5 DEF BufInv
<1> QED
  BY <1>9, <1>10, <1>11, <1>12, <1>13 DEF SsInv

(* Where the thread is once its flush is over.                             *)
LEMMA Flushed ==
  ASSUME SsTypeOK, LockInv, main.at \in Flushing, NEW failed \in BOOLEAN, AfterFlush(failed),
         timer = <<>>
  PROVE  /\ main' \in MainRecs /\ main'.sealed = <<>> /\ needFlush' \in BOOLEAN
         /\ main'.at \in {"idle", "lazy", "loop"} /\ mu' \in {"free", "main"}
         /\ mu' = "main" <=> main'.at = "lazy"
         /\ main'.at = "loop" => ~needFlush'
<1>0. main \in MainRecs /\ needFlush \in BOOLEAN /\ mu \in {"free", "main", "timer"}
  BY DEF SsTypeOK
<1>1. Idle \in MainRecs /\ Idle.at = "idle" /\ Idle.sealed = <<>>
  <2>1. Idle = [at |-> "idle", left |-> 0, n |-> 0, start |-> 0, eof |-> FALSE, sealed |-> <<>>]
    BY DEF Idle
  <2>2. <<>> \in AtMostOneChunk /\ 0 \in Nat
    BY OneChunk
  <2> QED
    BY <2>1, <2>2 DEF MainRecs
<1> DEFINE Goes(at) == [main EXCEPT !.at = at, !.sealed = <<>>]
<1>2. /\ Goes("lazy") \in MainRecs /\ Goes("lazy").at = "lazy" /\ Goes("lazy").sealed = <<>>
      /\ Goes("loop") \in MainRecs /\ Goes("loop").at = "loop" /\ Goes("loop").sealed = <<>>
  <2>1. <<>> \in AtMostOneChunk
    BY OneChunk
  <2> QED
    BY <1>0, <2>1 DEF MainRecs
<1> HIDE DEF Goes
<1>3. CASE main.at = "lazyFlush"
  <2>1. /\ main' = IF failed THEN Idle ELSE Goes("lazy")
        /\ mu' = IF failed THEN "free" ELSE mu
        /\ UNCHANGED needFlush
    BY <1>3 DEF AfterFlush, Goes
  <2>2. mu = "main"
    BY <1>3 DEF LockInv
  <2>3. CASE failed
    BY <1>0, <1>1, <2>1, <2>3
  <2>4. CASE ~failed
    BY <1>0, <1>2, <2>1, <2>2, <2>4
  <2> QED
    BY <2>3, <2>4
<1>4. CASE main.at = "flush1"
  <2>1. /\ main' = IF failed \/ main.eof THEN Idle ELSE Goes("loop")
        /\ mu' = "free" /\ needFlush' = FALSE
    BY <1>4 DEF AfterFlush, Goes
  <2>2. CASE failed \/ main.eof
    BY <1>1, <2>1, <2>2
  <2>3. CASE ~(failed \/ main.eof)
    BY <1>2, <2>1, <2>3
  <2> QED
    BY <2>2, <2>3
<1>5. CASE main.at = "loopFlush"
  <2>1. /\ main' = IF failed \/ main.eof THEN Idle ELSE Goes("loop")
        /\ UNCHANGED <<mu, needFlush>>
    BY <1>5 DEF AfterFlush, Goes
  <2>2. mu = "free" /\ ~needFlush
    BY <1>0, <1>5 DEF LockInv
  <2>3. CASE failed \/ main.eof
    BY <1>0, <1>1, <2>1, <2>2, <2>3
  <2>4. CASE ~(failed \/ main.eof)
    BY <1>0, <1>2, <2>1, <2>2, <2>4
  <2> QED
    BY <2>3, <2>4
<1> QED
  BY <1>3, <1>4, <1>5 DEF Flushing

(* A flush of nothing.                                                     *)
LEMMA MainFlushNothingKeeps == ASSUME SsInv, MainFlushNothing PROVE SsInv'
<1>0. /\ SsTypeOK /\ LockInv /\ RoomInv /\ BufInv /\ given \in Nat /\ pending \in Nat
      /\ WireInv /\ End \in Nat
  BY FieldTypes, EndType DEF SsInv
<1>1. /\ main.at \in Flushing /\ main.sealed = <<>> /\ pending = 0 /\ AfterFlush(FALSE)
      /\ UNCHANGED <<buf, pending, counter, given, wire, broken, reader, timer>>
  BY DEF MainFlushNothing
<1>2. timer = <<>>
  BY <1>0, <1>1, Alone DEF Flushing
<1>3. /\ main' \in MainRecs /\ main'.sealed = <<>> /\ needFlush' \in BOOLEAN
      /\ main'.at \in {"idle", "lazy", "loop"} /\ mu' \in {"free", "main"}
      /\ mu' = "main" <=> main'.at = "lazy"
      /\ main'.at = "loop" => ~needFlush'
  BY <1>0, <1>1, <1>2, Flushed, FALSE \in BOOLEAN
<1>4. SsTypeOK'
  BY <1>0, <1>1, <1>3 DEF SsTypeOK
<1>5. LockInv' /\ RoomInv'
  BY <1>1, <1>2, <1>3 DEF LockInv, RoomInv
<1>6. WireInv' /\ ReaderInv' /\ End' = End
  BY <1>0, <1>1, WriterKeeps
<1>7. SealedInv'
  BY <1>1, <1>2, <1>3 DEF SealedInv
<1>8. BufInv'
  <2>1. InHand = 0 /\ InHand' = 0
    BY <1>1, <1>3 DEF InHand, Flushing
  <2> QED
    BY <1>0, <1>1, <1>2, <1>3, <1>6, <2>1 DEF BufInv
<1> QED
  BY <1>4, <1>5, <1>6, <1>7, <1>8 DEF SsInv

(* A chunk that holds the pending bytes, encrypted under the next nonce.   *)
LEMMA Encrypted ==
  ASSUME SsInv, EncryptChunk, pending > 0, main.sealed = <<>>, timer = <<>>,
         UNCHANGED <<pending, given, wire, broken, reader>>
  PROVE  /\ buf' \in [Cells -> Nat] /\ counter' \in Nat /\ Ciphertext'
         /\ \A c \in Cells : c > pending + Overhead => buf'[c] = buf[c]
         /\ <<Sealed>> \in AtMostOneChunk /\ <<Sealed>> # <<>> /\ <<Sealed>>[1] = Sealed
         /\ ~broken => /\ Follows(Sealed.payload, End) /\ Len(Sealed.payload) = pending
                       /\ Sealed.nonce = reader.counter + 2 * Len(wire) /\ counter' = Sealed.nonce + 2
                       /\ Sealed.salt <=> Sealed.nonce = 0
<1>0. /\ SsTypeOK /\ BufInv /\ pending \in Nat /\ pending =< PayloadMax /\ buf \in [Cells -> Nat]
      /\ counter \in Nat /\ Overhead \in Nat /\ PayloadMax \in Nat
  BY FieldTypes, Sizes DEF SsInv
<1>1. /\ buf' = [c \in Cells |-> IF c =< pending + Overhead THEN 0 ELSE buf[c]]
      /\ counter' = counter + 2
  BY DEF EncryptChunk
<1>2. buf' \in [Cells -> Nat] /\ counter' \in Nat
  BY <1>0, <1>1
<1>3. \A c \in Cells : c > pending + Overhead => buf'[c] = buf[c]
  <2>1. \A c \in Cells : c > pending + Overhead => ~(c =< pending + Overhead)
    BY <1>0 DEF Cells
  <2> QED
    BY <1>1, <2>1
<1>4. Ciphertext'
  <2>1. \A c \in 1..pending + Overhead : c \in Cells /\ c =< pending + Overhead
    BY <1>0 DEF Cells
  <2> QED
    BY <1>1, <2>1 DEF Ciphertext
<1>5. /\ Sealed \in Chunks /\ Sealed.nonce = counter /\ (Sealed.salt <=> counter = 0)
      /\ Len(Sealed.payload) = pending /\ \A j \in 1..pending : Sealed.payload[j] = buf[j]
  BY <1>0, SealedIs
<1>6. ~broken => /\ counter = reader.counter + 2 * Len(wire)
                 /\ \A c \in 1..pending : buf[c] = End + c
  BY <1>0 DEF BufInv
<1>7. ~broken => Follows(Sealed.payload, End)
  BY <1>5, <1>6 DEF Follows
<1> QED
  BY <1>1, <1>2, <1>3, <1>4, <1>5, <1>6, <1>7, OneChunk

(* One chunk is encrypted, by the thread or by the timer.                  *)
LEMMA SealedNext ==
  ASSUME pending > 0, Ciphertext', UNCHANGED <<pending, wire, broken, reader>>, End' = End,
         \/ main'.sealed = <<Sealed>> /\ timer' = <<>>
         \/ main'.sealed = <<>> /\ timer' = <<Sealed>>,
         <<Sealed>>[1] = Sealed,
         ~broken => /\ Follows(Sealed.payload, End) /\ Len(Sealed.payload) = pending
                    /\ Sealed.nonce = reader.counter + 2 * Len(wire) /\ counter' = Sealed.nonce + 2
                    /\ Sealed.salt <=> Sealed.nonce = 0
  PROVE  SealedInv'
<1> SUFFICES ASSUME NEW K \in {main'.sealed, timer'}, K # <<>>
             PROVE  /\ pending' > 0 /\ Ciphertext'
                    /\ ~broken' => /\ Follows(K[1].payload, End') /\ Len(K[1].payload) = pending'
                                   /\ K[1].nonce = reader'.counter + 2 * Len(wire') /\ counter' = K[1].nonce + 2
                                   /\ K[1].salt <=> K[1].nonce = 0
  BY DEF SealedInv
<1>1. K[1] = Sealed
  OBVIOUS
<1> QED
  BY <1>1

(* The thread encrypts.                                                    *)
LEMMA MainSealKeeps == ASSUME SsInv, MainSeal PROVE SsInv'
<1>0. /\ SsTypeOK /\ LockInv /\ RoomInv /\ BufInv /\ given \in Nat /\ pending \in Nat
      /\ main \in MainRecs
  BY FieldTypes DEF SsInv, SsTypeOK
<1>1. /\ main.at \in Flushing /\ main.sealed = <<>> /\ pending > 0 /\ EncryptChunk
      /\ main' = [main EXCEPT !.sealed = <<Sealed>>]
      /\ UNCHANGED <<pending, needFlush, mu, given, wire, broken, reader, timer>>
  BY DEF MainSeal
<1>2. timer = <<>>
  BY <1>0, <1>1, Alone DEF Flushing
<1>3. /\ buf' \in [Cells -> Nat] /\ counter' \in Nat /\ Ciphertext'
      /\ <<Sealed>> \in AtMostOneChunk /\ <<Sealed>> # <<>> /\ <<Sealed>>[1] = Sealed
      /\ ~broken => /\ Follows(Sealed.payload, End) /\ Len(Sealed.payload) = pending
                    /\ Sealed.nonce = reader.counter + 2 * Len(wire) /\ counter' = Sealed.nonce + 2
                    /\ Sealed.salt <=> Sealed.nonce = 0
  BY <1>1, <1>2, Encrypted
<1>4. main' \in MainRecs /\ main'.at = main.at /\ main'.sealed = <<Sealed>>
  <2>1. main' \in MainRecs
    BY <1>0, <1>1, <1>3 DEF MainRecs
  <2> QED
    BY <1>0, <1>1, <2>1 DEF MainRecs
<1>5. SsTypeOK'
  BY <1>0, <1>1, <1>3, <1>4 DEF SsTypeOK
<1>6. LockInv' /\ RoomInv'
  BY <1>0, <1>1, <1>2, <1>3, <1>4 DEF LockInv, RoomInv, Flushing
<1>7. WireInv' /\ ReaderInv' /\ End' = End
  BY <1>0, <1>1, WriterKeeps
<1>8. SealedInv'
  BY <1>1, <1>2, <1>3, <1>4, <1>7, SealedNext
<1>9. BufInv'
  <2>1. InHand = 0 /\ InHand' = 0 /\ main'.at # "relock"
    BY <1>1, <1>4 DEF InHand, Flushing
  <2> QED
    BY <1>0, <1>1, <1>3, <1>4, <1>7, <2>1 DEF BufInv
<1> QED
  BY <1>5, <1>6, <1>7, <1>8, <1>9 DEF SsInv

(* The write of an encrypted chunk, and what the reader then finds.        *)
LEMMA Sent ==
  ASSUME SsInv, NEW K \in {main.sealed, timer}, K # <<>>, SendChunk(K[1]),
         UNCHANGED <<counter, given, reader>>
  PROVE  /\ wire' \in Seq(Chunks) /\ broken' \in BOOLEAN /\ pending' = 0
         /\ WireInv' /\ ReaderInv'
         /\ ~broken' => /\ ~broken /\ End' + InHand = given /\ End' \in Nat
                        /\ counter' = reader'.counter + 2 * Len(wire')
<1>0. /\ SsTypeOK /\ WireInv /\ ReaderInv /\ BufInv /\ given \in Nat /\ pending \in Nat
      /\ wire \in Seq(Chunks) /\ Len(wire) \in Nat /\ reader.counter \in Nat /\ End \in Nat
      /\ broken \in BOOLEAN /\ main.n \in Nat /\ InHand \in Nat
  BY FieldTypes, EndType DEF SsInv, InHand
<1>1. /\ pending > 0 /\ Ciphertext
      /\ ~broken => /\ Follows(K[1].payload, End) /\ Len(K[1].payload) = pending
                    /\ K[1].nonce = reader.counter + 2 * Len(wire) /\ counter = K[1].nonce + 2
                    /\ K[1].salt <=> K[1].nonce = 0
  BY DEF SsInv, SealedInv
<1>2. Came' = Came /\ reader' = reader /\ given' = given
  BY DEF Came
<1>3. ReaderInv'
  BY <1>0, <1>2 DEF ReaderInv
<1>4. CASE broken' = TRUE /\ wire' = wire
  <2>1. WireInv'
    BY <1>0, <1>2, <1>4, QuietKeeps
  <2> QED
    BY <1>0, <1>3, <1>4, <2>1 DEF SendChunk
<1>5. CASE ~broken /\ broken' = broken
           /\ wire' = Append(wire, IF Ciphertext THEN K[1] ELSE [K[1] EXCEPT !.payload = <<0>>])
  <2> DEFINE k == K[1]
  <2>1. wire' = Append(wire, k)
    BY <1>1, <1>5
  <2>2. k \in Chunks
    <3>1. K \in AtMostOneChunk
      BY <1>0, FieldTypes
    <3> QED
      BY <3>1, OneChunk
  <2>3. /\ Follows(k.payload, End) /\ Len(k.payload) = pending
        /\ k.nonce = reader.counter + 2 * Len(wire) /\ counter = k.nonce + 2
        /\ k.salt <=> k.nonce = 0
    BY <1>1, <1>5
  <2>4. LastOf(k) = End + pending
    <3>1. pending \in 1..Len(k.payload)
      BY <1>0, <1>1, <2>3
    <3> QED
      BY <2>3, <3>1 DEF LastOf, Follows
  <2> HIDE DEF k
  <2>5. /\ wire' \in Seq(Chunks) /\ Len(wire') = Len(wire) + 1
        /\ wire'[Len(wire) + 1] = k /\ \A i \in 1..Len(wire) : wire'[i] = wire[i]
    BY <1>0, <2>1, <2>2, AppendProperties
  <2>6. wire' # <<>> /\ End' = End + pending
    <3>1. wire' # <<>>
      BY <1>0, <2>5, EmptySeq
    <3> QED
      BY <2>4, <2>5, <3>1 DEF End
  <2>7. End + pending + InHand = given
    BY <1>0, <1>5 DEF BufInv
  <2>8. WireInv'
    <3> SUFFICES ASSUME NEW i \in 1..Len(wire) + 1
                 PROVE  /\ Follows(wire'[i].payload, IF i = 1 THEN Came ELSE LastOf(wire'[i - 1]))
                        /\ wire'[i].nonce = reader.counter + 2 * (i - 1)
                        /\ wire'[i].salt <=> wire'[i].nonce = 0
                        /\ LastOf(wire'[i]) =< given
      BY <1>2, <2>5 DEF WireInv
    <3>1. CASE i = Len(wire) + 1
      <4>1. Follows(k.payload, IF i = 1 THEN Came ELSE LastOf(wire'[i - 1]))
        <5>1. CASE wire = <<>>
          <6>1. i = 1 /\ End = Came
            BY <3>1, <5>1 DEF End
          <6> QED
            BY <2>3, <6>1
        <5>2. CASE wire # <<>>
          <6>1. Len(wire) > 0
            BY <1>0, <5>2, EmptySeq
          <6>2. i # 1 /\ i - 1 = Len(wire) /\ Len(wire) \in 1..Len(wire)
            BY <1>0, <3>1, <6>1
          <6>3. wire'[i - 1] = wire[Len(wire)] /\ End = LastOf(wire[Len(wire)])
            BY <2>5, <5>2, <6>2 DEF End
          <6> QED
            BY <2>3, <6>2, <6>3
        <5> QED
          BY <5>1, <5>2
      <4>2. i - 1 = Len(wire) /\ wire'[i] = k
        BY <1>0, <2>5, <3>1
      <4>3. LastOf(k) =< given
        BY <1>0, <2>4, <2>7
      <4> QED
        BY <2>3, <4>1, <4>2, <4>3
    <3>2. CASE i \in 1..Len(wire)
      <4>1. wire'[i] = wire[i]
        BY <2>5, <3>2
      <4>2. i # 1 => wire'[i - 1] = wire[i - 1]
        <5>1. i # 1 => i - 1 \in 1..Len(wire)
          BY <1>0, <3>2
        <5> QED
          BY <2>5, <5>1
      <4>3. /\ Follows(wire[i].payload, IF i = 1 THEN Came ELSE LastOf(wire[i - 1]))
            /\ wire[i].nonce = reader.counter + 2 * (i - 1)
            /\ wire[i].salt <=> wire[i].nonce = 0
            /\ LastOf(wire[i]) =< given
        BY <1>0, <3>2 DEF WireInv
      <4> QED
        BY <4>1, <4>2, <4>3
    <3> QED
      BY <1>0, <3>1, <3>2
  <2>9. End' + InHand = given /\ End' \in Nat
    BY <1>0, <2>6, <2>7
  <2>10. counter' = reader'.counter + 2 * Len(wire')
    <3>1. counter = reader.counter + 2 * Len(wire) + 2
      BY <1>0, <2>3
    <3>2. counter = reader.counter + 2 * (Len(wire) + 1)
      BY <1>0, <3>1
    <3> QED
      BY <1>2, <2>5, <3>2
  <2> QED
    BY <1>0, <1>3, <1>5, <2>5, <2>8, <2>9, <2>10 DEF SendChunk
<1> QED
  BY <1>4, <1>5 DEF SendChunk

(* The thread writes the chunk out.                                        *)
LEMMA MainSendKeeps == ASSUME SsInv, MainSend PROVE SsInv'
<1>0. /\ SsTypeOK /\ LockInv /\ RoomInv /\ BufInv /\ given \in Nat /\ Overhead \in Nat /\ PayloadMax \in Nat
  BY FieldTypes, Sizes DEF SsInv
<1>1. /\ main.at \in Flushing /\ main.sealed # <<>> /\ SendChunk(main.sealed[1]) /\ AfterFlush(broken')
      /\ UNCHANGED <<buf, counter, given, reader, timer>>
  BY DEF MainSend
<1>2. timer = <<>>
  BY <1>0, <1>1, Alone
<1>3. /\ wire' \in Seq(Chunks) /\ broken' \in BOOLEAN /\ pending' = 0
      /\ WireInv' /\ ReaderInv'
      /\ ~broken' => /\ ~broken /\ End' + InHand = given /\ End' \in Nat
                     /\ counter' = reader'.counter + 2 * Len(wire')
  BY <1>1, Sent
<1>4. /\ main' \in MainRecs /\ main'.sealed = <<>> /\ needFlush' \in BOOLEAN
      /\ main'.at \in {"idle", "lazy", "loop"} /\ mu' \in {"free", "main"}
      /\ mu' = "main" <=> main'.at = "lazy"
      /\ main'.at = "loop" => ~needFlush'
  BY <1>0, <1>1, <1>2, <1>3, Flushed
<1>5. SsTypeOK'
  BY <1>0, <1>1, <1>3, <1>4 DEF SsTypeOK
<1>6. LockInv' /\ RoomInv'
  BY <1>1, <1>2, <1>3, <1>4 DEF LockInv, RoomInv
<1>7. SealedInv'
  BY <1>1, <1>2, <1>4 DEF SealedInv
<1>8. BufInv'
  <2>1. InHand = 0 /\ InHand' = 0 /\ main'.at # "relock"
    BY <1>1, <1>4 DEF InHand, Flushing
  <2>2. ASSUME ~broken' PROVE End' + pending' + InHand' = given'
    <3>1. End' + 0 = given
      BY <1>3, <2>1, <2>2
    <3>2. End' \in Nat
      BY <1>3, <2>2
    <3> QED
      BY <1>1, <1>3, <2>1, <3>1, <3>2
  <2>3. \A c \in 1..pending' : buf'[c] = End' + c
    BY <1>3
  <2> QED
    BY <1>3, <2>1, <2>2, <2>3 DEF BufInv
<1> QED
  BY <1>3, <1>5, <1>6, <1>7, <1>8 DEF SsInv

(* The timer encrypts, beside a read of the special case.                  *)
LEMMA FlushLockKeeps == ASSUME SsInv, FlushLock PROVE SsInv'
<1>0. /\ SsTypeOK /\ LockInv /\ RoomInv /\ BufInv /\ given \in Nat /\ pending \in Nat
      /\ Overhead \in Nat /\ PayloadMax \in Nat /\ main.n \in Nat /\ main.start \in Nat
  BY FieldTypes, Sizes DEF SsInv
<1>1. /\ timer = <<>> /\ mu = "free" /\ needFlush /\ pending > 0
      /\ mu' = "timer" /\ timer' = <<Sealed>> /\ EncryptChunk
      /\ UNCHANGED <<pending, needFlush, main, given, wire, broken, reader>>
  BY DEF FlushLock, FlushGuard
<1>2. main.at \in {"idle", "read1", "relock"} /\ main.sealed = <<>>
  BY <1>0, <1>1, Alone
<1>3. /\ buf' \in [Cells -> Nat] /\ counter' \in Nat /\ Ciphertext'
      /\ \A c \in Cells : c > pending + Overhead => buf'[c] = buf[c]
      /\ <<Sealed>> \in AtMostOneChunk /\ <<Sealed>> # <<>> /\ <<Sealed>>[1] = Sealed
      /\ ~broken => /\ Follows(Sealed.payload, End) /\ Len(Sealed.payload) = pending
                    /\ Sealed.nonce = reader.counter + 2 * Len(wire) /\ counter' = Sealed.nonce + 2
                    /\ Sealed.salt <=> Sealed.nonce = 0
  BY <1>1, <1>2, Encrypted
<1>4. SsTypeOK'
  BY <1>0, <1>1, <1>3 DEF SsTypeOK
<1>5. LockInv' /\ RoomInv'
  BY <1>0, <1>1, <1>2, <1>3 DEF LockInv, RoomInv
<1>6. WireInv' /\ ReaderInv' /\ End' = End
  BY <1>0, <1>1, WriterKeeps
<1>7. SealedInv'
  BY <1>1, <1>2, <1>3, <1>6, SealedNext
<1>8. BufInv'
  <2>1. InHand' = InHand
    BY <1>1 DEF InHand
  <2>2. ~broken' => End' + pending' + InHand' = given'
    BY <1>0, <1>1, <1>6, <2>1 DEF BufInv
  <2>3. ASSUME main.at = "relock", NEW i \in 1..main.n
        PROVE  buf'[main.start + i - 1] = given - main.n + i
    <3>1. pending + Overhead + 1 =< main.start /\ main.start + main.n =< PayloadMax + Overhead + 1
      BY <1>0, <2>3 DEF RoomInv
    <3>2. main.start + i - 1 \in Cells /\ main.start + i - 1 > pending + Overhead
      <4> DEFINE st == main.start
                 n == main.n
      <4>1. /\ st \in Nat /\ n \in Nat /\ i \in 1..n /\ pending \in Nat /\ Overhead \in Nat
            /\ PayloadMax \in Nat
            /\ pending + Overhead + 1 =< st /\ st + n =< PayloadMax + Overhead + 1
        BY <1>0, <3>1
      <4> HIDE DEF st, n
      <4>2. st + i - 1 \in 1..PayloadMax + Overhead /\ st + i - 1 > pending + Overhead
        BY <4>1
      <4> QED
        BY <4>2 DEF st, Cells
    <3>3. buf'[main.start + i - 1] = buf[main.start + i - 1]
      BY <1>3, <3>2
    <3> QED
      BY <1>0, <2>3, <3>3 DEF BufInv
  <2>4. main.at = "relock" => main.n =< given
    BY <1>0 DEF BufInv
  <2>5. timer' # <<>>
    BY <1>1, <1>3
  <2> QED
    BY <1>1, <2>2, <2>3, <2>4, <2>5 DEF BufInv
<1> QED
  BY <1>4, <1>5, <1>6, <1>7, <1>8 DEF SsInv

(* The timer writes the chunk out.                                         *)
LEMMA FlushSendKeeps == ASSUME SsInv, FlushSend PROVE SsInv'
<1>0. /\ SsTypeOK /\ LockInv /\ RoomInv /\ BufInv /\ given \in Nat /\ pending \in Nat
      /\ Overhead \in Nat /\ PayloadMax \in Nat /\ main.n \in Nat /\ main.start \in Nat
  BY FieldTypes, Sizes DEF SsInv
<1>1. /\ timer # <<>> /\ SendChunk(timer[1]) /\ timer' = <<>> /\ mu' = "free"
      /\ UNCHANGED <<buf, needFlush, counter, main, given, reader>>
  BY DEF FlushSend
<1>2. main.at \in {"idle", "read1", "relock"} /\ main.sealed = <<>> /\ needFlush
  BY <1>0, <1>1, Alone DEF LockInv
<1>3. /\ wire' \in Seq(Chunks) /\ broken' \in BOOLEAN /\ pending' = 0
      /\ WireInv' /\ ReaderInv'
      /\ ~broken' => /\ ~broken /\ End' + InHand = given /\ End' \in Nat
                     /\ counter' = reader'.counter + 2 * Len(wire')
  BY <1>1, Sent
<1>4. SsTypeOK'
  BY <1>0, <1>1, <1>3, OneChunk DEF SsTypeOK
<1>5. LockInv'
  BY <1>1, <1>2 DEF LockInv
<1>6. RoomInv'
  <2>1. ASSUME main.at \in {"read1", "relock"} PROVE pending' + Overhead + 1 =< main.start
    <3>1. pending + Overhead + 1 =< main.start
      BY <1>0, <2>1 DEF RoomInv
    <3> QED
      BY <1>0, <1>3, <3>1
  <2> QED
    BY <1>0, <1>1, <1>2, <2>1 DEF RoomInv
<1>7. SealedInv'
  BY <1>1, <1>2 DEF SealedInv
<1>8. BufInv'
  <2>1. InHand' = InHand /\ InHand \in Nat
    BY <1>0, <1>1 DEF InHand
  <2>2. ASSUME ~broken' PROVE End' + pending' + InHand' = given'
    <3>1. End' \in Nat
      BY <1>3, <2>2
    <3> QED
      BY <1>1, <1>3, <2>1, <2>2, <3>1
  <2>3. \A c \in 1..pending' : buf'[c] = End' + c
    BY <1>3
  <2>4. main'.at = "relock" =>
          main'.n =< given' /\ \A i \in 1..main'.n : buf'[main'.start + i - 1] = given' - main'.n + i
    BY <1>0, <1>1 DEF BufInv
  <2> QED
    BY <1>3, <2>2, <2>3, <2>4 DEF BufInv
<1> QED
  BY <1>3, <1>4, <1>5, <1>6, <1>7, <1>8 DEF SsInv

(* The first chunk of the wire is the one the reader expects, and it is    *)
(* taken off.                                                              *)
LEMMA FirstChunk ==
  ASSUME SsInv, reader.leftover = <<>>, wire # <<>>
  PROVE  /\ Head(wire) = wire[1] /\ Head(wire) \in Chunks
         /\ Head(wire).payload \in Seq(Nat) /\ Len(Head(wire).payload) \in Nat
         /\ Len(Head(wire).payload) > 0 /\ Head(wire).payload # <<0>>
         /\ \A j \in 1..Len(Head(wire).payload) : Head(wire).payload[j] = reader.delivered + j
         /\ Head(wire).nonce = reader.counter /\ (Head(wire).salt = ~reader.inited)
         /\ LastOf(Head(wire)) = reader.delivered + Len(Head(wire).payload)
         /\ LastOf(Head(wire)) =< given
<1>0. /\ SsTypeOK /\ WireInv /\ ReaderInv /\ wire \in Seq(Chunks) /\ Len(wire) \in Nat
      /\ reader.counter \in Nat /\ reader.delivered \in Nat /\ reader \in ReaderRecs
  BY FieldTypes DEF SsInv, SsTypeOK
<1>1. 1 \in 1..Len(wire)
  BY <1>0, EmptySeq
<1>2. Head(wire) = wire[1]
  BY <1>0
<1> DEFINE k == wire[1]
<1>3. k \in Chunks /\ k.payload \in Seq(Nat) /\ Len(k.payload) \in Nat /\ k.nonce \in Nat /\ k.salt \in BOOLEAN
  BY <1>0, <1>1, WireTypes DEF Chunks
<1>4. Came = reader.delivered
  <2>1. Len(reader.leftover) = 0
    OBVIOUS
  <2> QED
    BY <1>0, <2>1 DEF Came
<1>5. /\ Follows(k.payload, Came) /\ k.nonce = reader.counter + 2 * (1 - 1)
      /\ k.salt <=> k.nonce = 0
      /\ LastOf(k) =< given
  BY <1>0, <1>1 DEF WireInv
<1> HIDE DEF k
<1>6. k.nonce = reader.counter
  BY <1>0, <1>5
<1>7. Len(k.payload) > 0 /\ \A j \in 1..Len(k.payload) : k.payload[j] = reader.delivered + j
  BY <1>4, <1>5 DEF Follows
<1>8. k.payload[1] = reader.delivered + 1 /\ k.payload[1] # 0
  <2>1. 1 \in 1..Len(k.payload)
    BY <1>3, <1>7
  <2> QED
    BY <1>0, <1>7, <2>1
<1>9. k.payload # <<0>>
  BY <1>8
<1>10. LastOf(k) = reader.delivered + Len(k.payload)
  <2>1. Len(k.payload) \in 1..Len(k.payload)
    BY <1>3, <1>7
  <2> QED
    BY <1>7, <2>1 DEF LastOf
<1>11. k.salt = ~reader.inited
  <2>1. reader.inited \in BOOLEAN /\ (reader.inited <=> reader.counter > 0)
    BY <1>0 DEF ReaderInv, ReaderRecs
  <2>2. k.nonce = 0 <=> ~(reader.counter > 0)
    BY <1>0, <1>6
  <2>3. k.salt <=> ~reader.inited
    BY <1>5, <2>1, <2>2
  <2> QED
    BY <1>3, <2>1, <2>3
<1>12. Head(wire) = k
  BY <1>2 DEF k
<1> QED
  BY <1>2, <1>3, <1>5, <1>6, <1>7, <1>9, <1>10, <1>11, <1>12

(* What the reading side does leaves the writing side as it is.            *)
LEMMA TheRest ==
  ASSUME SealedInv, BufInv, End' = End,
         UNCHANGED <<buf, pending, needFlush, counter, mu, main, timer, given, broken>>,
         reader'.counter + 2 * Len(wire') = reader.counter + 2 * Len(wire)
  PROVE  SealedInv' /\ BufInv'
<1>1. SealedInv'
  BY DEF SealedInv, Ciphertext
<1>2. BufInv'
  BY DEF BufInv, InHand
<1> QED
  BY <1>1, <1>2

(* The reader opens a chunk.                                               *)
LEMMA ReadChunkKeeps == ASSUME SsInv, ReadChunk PROVE SsInv' /\ reader'.delivered = reader.delivered
<1>0. /\ SsTypeOK /\ LockInv /\ RoomInv /\ WireInv /\ ReaderInv /\ SealedInv /\ BufInv
      /\ wire \in Seq(Chunks) /\ Len(wire) \in Nat
      /\ reader.counter \in Nat /\ reader.delivered \in Nat /\ reader \in ReaderRecs
  BY FieldTypes DEF SsInv, SsTypeOK
<1>1. /\ reader.leftover = <<>> /\ wire # <<>> /\ wire' = Tail(wire)
      /\ UNCHANGED <<buf, pending, needFlush, counter, mu, main, timer, given, broken>>
  BY DEF ReadChunk
<1> DEFINE k == Head(wire)
<1>2. /\ k = wire[1] /\ k \in Chunks
      /\ k.payload \in Seq(Nat) /\ Len(k.payload) \in Nat
      /\ Len(k.payload) > 0 /\ k.payload # <<0>>
      /\ \A j \in 1..Len(k.payload) : k.payload[j] = reader.delivered + j
      /\ k.nonce = reader.counter /\ (k.salt = ~reader.inited)
      /\ LastOf(k) = reader.delivered + Len(k.payload)
      /\ LastOf(k) =< given
  BY <1>1, FirstChunk
<1>3. reader' = [reader EXCEPT !.inited = TRUE, !.counter = reader.counter + 2,
                               !.leftover = k.payload, !.slice = TRUE]
  <2>1. reader' = IF k.salt = ~reader.inited /\ k.nonce = reader.counter /\ k.payload # <<0>>
                  THEN [reader EXCEPT !.inited = TRUE, !.counter = reader.counter + 2,
                                      !.leftover = k.payload, !.slice = TRUE]
                  ELSE [reader EXCEPT !.err = "failed to decrypt", !.slice = FALSE]
    BY DEF ReadChunk
  <2> HIDE DEF k
  <2> QED
    BY <1>2, <2>1
<1> HIDE DEF k
<1>4. reader' \in ReaderRecs
  <2>1. reader.counter + 2 \in Nat /\ k.payload \in Seq(Nat) /\ reader \in ReaderRecs
    BY <1>0, <1>2
  <2> QED
    BY <1>3, <2>1 DEF ReaderRecs
<1>5. /\ reader'.inited = TRUE /\ reader'.counter = reader.counter + 2 /\ reader'.leftover = k.payload
      /\ reader'.delivered = reader.delivered /\ reader'.err = reader.err /\ reader'.inOrder = reader.inOrder
  BY <1>0, <1>3 DEF ReaderRecs
<1>6. /\ wire' \in Seq(Chunks) /\ Len(wire') = Len(wire) - 1
      /\ \A i \in 1..Len(wire) - 1 : wire'[i] = wire[i + 1]
  BY <1>0, <1>1, HeadTailProperties
<1>7. Len(wire) > 0
  BY <1>0, <1>1, EmptySeq
<1>8. Came' = LastOf(k)
  BY <1>2, <1>5 DEF Came
<1>9. End' = End
  <2>1. End = LastOf(wire[Len(wire)])
    BY <1>1 DEF End
  <2>2. CASE Len(wire) = 1
    <3>1. wire' = <<>>
      BY <1>6, <2>2, EmptySeq
    <3> QED
      BY <1>2, <1>8, <2>1, <2>2, <3>1 DEF End
  <2>3. CASE Len(wire) # 1
    <3>1. wire' # <<>> /\ Len(wire) - 1 \in 1..Len(wire) - 1 /\ Len(wire) - 1 + 1 = Len(wire)
      BY <1>0, <1>6, <1>7, <2>3, EmptySeq
    <3>2. wire'[Len(wire')] = wire[Len(wire)]
      BY <1>6, <3>1
    <3> QED
      BY <2>1, <3>1, <3>2 DEF End
  <2> QED
    BY <2>2, <2>3
<1>10. SsTypeOK'
  BY <1>0, <1>1, <1>4, <1>6 DEF SsTypeOK
<1>11. LockInv' /\ RoomInv'
  BY <1>0, <1>1 DEF LockInv, RoomInv
<1>12. WireInv'
  <2> SUFFICES ASSUME NEW i \in 1..Len(wire) - 1
               PROVE  /\ Follows(wire'[i].payload, IF i = 1 THEN Came' ELSE LastOf(wire'[i - 1]))
                      /\ wire'[i].nonce = reader'.counter + 2 * (i - 1)
                      /\ wire'[i].salt <=> wire'[i].nonce = 0
                      /\ LastOf(wire'[i]) =< given
    BY <1>1, <1>6 DEF WireInv
  <2>1. i + 1 \in 1..Len(wire) /\ i + 1 # 1 /\ (i + 1) - 1 = i /\ i \in Nat
    BY <1>0
  <2>2. /\ Follows(wire[i + 1].payload, LastOf(wire[i]))
        /\ wire[i + 1].nonce = reader.counter + 2 * i
        /\ wire[i + 1].salt <=> wire[i + 1].nonce = 0
        /\ LastOf(wire[i + 1]) =< given
    <3>1. /\ Follows(wire[i + 1].payload, IF i + 1 = 1 THEN Came ELSE LastOf(wire[(i + 1) - 1]))
          /\ wire[i + 1].nonce = reader.counter + 2 * ((i + 1) - 1)
          /\ wire[i + 1].salt <=> wire[i + 1].nonce = 0
          /\ LastOf(wire[i + 1]) =< given
      BY <1>0, <2>1 DEF WireInv
    <3> QED
      BY <2>1, <3>1
  <2>3. wire'[i] = wire[i + 1]
    BY <1>6
  <2>4. IF i = 1 THEN Came' = LastOf(wire[i]) ELSE LastOf(wire'[i - 1]) = LastOf(wire[i])
    <3>1. CASE i = 1
      BY <1>2, <1>8, <3>1
    <3>2. CASE i # 1
      <4>1. i - 1 \in 1..Len(wire) - 1 /\ (i - 1) + 1 = i
        BY <1>0, <3>2
      <4>2. wire'[i - 1] = wire[i]
        BY <1>6, <4>1
      <4> QED
        BY <3>2, <4>2
    <3> QED
      BY <3>1, <3>2
  <2>5. reader'.counter + 2 * (i - 1) = reader.counter + 2 * i
    <3> DEFINE m == reader.counter
    <3>1. m \in Nat /\ reader'.counter = m + 2
      BY <1>0, <1>5
    <3> HIDE DEF m
    <3>2. reader'.counter + 2 * (i - 1) = m + 2 * i
      BY <2>1, <3>1
    <3> QED
      BY <3>2 DEF m
  <2>6. Follows(wire'[i].payload, IF i = 1 THEN Came' ELSE LastOf(wire'[i - 1]))
    BY <2>2, <2>3, <2>4
  <2> QED
    BY <2>2, <2>3, <2>5, <2>6
<1>13. ReaderInv'
  <2>1. reader'.counter > 0
    BY <1>0, <1>5
  <2>2. \A j \in 1..Len(reader'.leftover) : reader'.leftover[j] = reader'.delivered + j
    BY <1>2, <1>5
  <2> QED
    BY <1>0, <1>1, <1>2, <1>5, <1>8, <2>1, <2>2 DEF ReaderInv
<1>14. reader'.counter + 2 * Len(wire') = reader.counter + 2 * Len(wire)
  <2> DEFINE m == reader.counter
             l == Len(wire)
  <2>1. m \in Nat /\ reader'.counter = m + 2 /\ l \in Nat /\ Len(wire') = l - 1
    BY <1>0, <1>5, <1>6
  <2> HIDE DEF m, l
  <2>2. reader'.counter + 2 * Len(wire') = m + 2 * l
    BY <2>1
  <2> QED
    BY <2>2 DEF m, l
<1>15. SealedInv' /\ BufInv'
  BY <1>0, <1>1, <1>9, <1>14, TheRest
<1> QED
  BY <1>5, <1>10, <1>11, <1>12, <1>13, <1>15 DEF SsInv

(* The reader is at the end, or inside of a chunk that is cut.             *)
LEMMA ReadEndKeeps == ASSUME SsInv, ReadEnd PROVE SsInv' /\ reader'.delivered = reader.delivered
<1>0. /\ SsTypeOK /\ LockInv /\ RoomInv /\ WireInv /\ ReaderInv /\ SealedInv /\ BufInv
      /\ given \in Nat /\ reader \in ReaderRecs
  BY FieldTypes DEF SsInv, SsTypeOK
<1>1. UNCHANGED <<buf, pending, needFlush, counter, mu, main, timer, given, wire, broken>>
  BY DEF ReadEnd
<1>2. /\ reader' \in ReaderRecs
      /\ reader'.inited = reader.inited /\ reader'.counter = reader.counter
      /\ reader'.leftover = reader.leftover /\ reader'.delivered = reader.delivered
      /\ reader'.inOrder = reader.inOrder /\ reader'.err # "failed to decrypt"
  <2>1. PICK e \in {"EOF", "unexpected EOF"} : reader' = [reader EXCEPT !.err = e, !.slice = FALSE]
    BY DEF ReadEnd
  <2>2. reader' \in ReaderRecs
    BY <1>0, <2>1 DEF ReaderRecs
  <2>3. /\ reader'.inited = reader.inited /\ reader'.counter = reader.counter
        /\ reader'.leftover = reader.leftover /\ reader'.delivered = reader.delivered
        /\ reader'.inOrder = reader.inOrder /\ reader'.err # "failed to decrypt"
    BY <1>0, <2>1 DEF ReaderRecs
  <2> QED
    BY <2>2, <2>3
<1>4. Came' = Came
  BY <1>2 DEF Came
<1>5. WireInv' /\ End' = End
  <2>1. wire' = wire /\ given' = given
    BY <1>1
  <2>2. given' \in Nat /\ given' >= given
    BY <1>0, <2>1
  <2>3. reader'.counter = reader.counter /\ SsTypeOK /\ WireInv
    BY <1>0, <1>2
  <2> QED
    BY <1>4, <2>1, <2>2, <2>3, QuietKeeps
<1>6. SsTypeOK'
  BY <1>0, <1>1, <1>2 DEF SsTypeOK
<1>7. LockInv' /\ RoomInv'
  BY <1>0, <1>1 DEF LockInv, RoomInv
<1>8. ReaderInv'
  BY <1>0, <1>1, <1>2, <1>4 DEF ReaderInv
<1>9. SealedInv' /\ BufInv'
  BY <1>0, <1>1, <1>2, <1>5, TheRest
<1> QED
  BY <1>2, <1>5, <1>6, <1>7, <1>8, <1>9 DEF SsInv

(* The reader hands on the next bytes.                                     *)
LEMMA ReadLeftoverKeeps ==
  ASSUME SsInv, ReadLeftover
  PROVE  /\ SsInv' /\ given' = given /\ reader'.delivered \in Nat
         /\ reader'.delivered > reader.delivered /\ reader'.delivered =< given
<1>0. /\ SsTypeOK /\ LockInv /\ RoomInv /\ WireInv /\ ReaderInv /\ SealedInv /\ BufInv
      /\ given \in Nat /\ reader \in ReaderRecs /\ reader.leftover \in Seq(Nat)
      /\ reader.delivered \in Nat /\ Len(reader.leftover) \in Nat /\ Came \in Nat
  BY FieldTypes DEF SsInv, SsTypeOK
<1>1. UNCHANGED <<buf, pending, needFlush, counter, mu, main, timer, given, wire, broken>>
  BY DEF ReadLeftover
<1> DEFINE s == reader.leftover
           at == reader.delivered
           len == Len(s)
<1>2. PICK n \in 1 .. len :
          reader' = [reader EXCEPT !.leftover = SubSeq(s, n + 1, len),
                        !.delivered = at + n,
                        !.inOrder = reader.inOrder /\ \A i \in 1 .. n : s[i] = at + i]
  BY DEF ReadLeftover
<1>3. /\ s \in Seq(Nat) /\ at \in Nat /\ len \in Nat /\ n \in Nat /\ n =< len /\ n > 0
      /\ \A j \in 1..len : s[j] = at + j /\ s[j] \in Nat
      /\ reader.inOrder = TRUE /\ at + len = Came /\ Came =< given
  <2>1. \A j \in 1..len : s[j] = at + j
    BY <1>0 DEF ReaderInv
  <2>2. reader.inOrder = TRUE
    BY <1>0 DEF ReaderInv, ReaderRecs
  <2>3. at + len = Came /\ Came =< given
    BY <1>0 DEF ReaderInv, Came
  <2>4. s \in Seq(Nat) /\ at \in Nat /\ len \in Nat
    BY <1>0
  <2> HIDE DEF s, at, len
  <2>5. n \in Nat /\ n =< len /\ n > 0
    BY <1>2, <2>4
  <2>6. \A j \in 1..len : s[j] \in Nat
    BY <2>1, <2>4
  <2> QED
    BY <2>1, <2>2, <2>3, <2>4, <2>5, <2>6
<1> HIDE DEF s, at, len
<1>4. /\ SubSeq(s, n + 1, len) \in Seq(Nat) /\ Len(SubSeq(s, n + 1, len)) = len - n
      /\ \A i \in 1..len - n : SubSeq(s, n + 1, len)[i] = (at + n) + i
  <2>1. n + 1 \in Int /\ len \in Int /\ \A i \in n + 1 .. len : s[i] \in Nat
    BY <1>3
  <2>2. /\ SubSeq(s, n + 1, len) \in Seq(Nat)
        /\ Len(SubSeq(s, n + 1, len)) = IF n + 1 <= len THEN len - (n + 1) + 1 ELSE 0
        /\ \A i \in 1 .. len - (n + 1) + 1 : SubSeq(s, n + 1, len)[i] = s[(n + 1) + i - 1]
    BY <2>1, SubSeqProperties
  <2>3. len - (n + 1) + 1 = len - n /\ (IF n + 1 <= len THEN len - (n + 1) + 1 ELSE 0) = len - n
    BY <1>3
  <2>4. \A i \in 1..len - n : (n + 1) + i - 1 = n + i /\ n + i \in 1..len /\ at + (n + i) = (at + n) + i
    BY <1>3
  <2>5. \A i \in 1..len - n : SubSeq(s, n + 1, len)[i] = (at + n) + i
    BY <1>3, <2>2, <2>3, <2>4
  <2> QED
    BY <2>2, <2>3, <2>5
<1>5. (reader.inOrder /\ \A i \in 1 .. n : s[i] = at + i) = TRUE
  <2>1. \A i \in 1..n : i \in 1..len
    BY <1>3
  <2> QED
    BY <1>3, <2>1
<1> DEFINE t == SubSeq(s, n + 1, len)
           on == reader.inOrder /\ \A i \in 1 .. n : s[i] = at + i
<1>6. /\ reader' = [reader EXCEPT !.leftover = t, !.delivered = at + n, !.inOrder = on]
      /\ on = TRUE /\ t \in Seq(Nat) /\ Len(t) = len - n /\ at + n \in Nat
      /\ \A i \in 1..len - n : t[i] = (at + n) + i
  BY <1>2, <1>3, <1>4, <1>5
<1> HIDE DEF t, on
<1>7. reader' \in ReaderRecs
  BY <1>0, <1>6 DEF ReaderRecs
<1>8. /\ reader'.inited = reader.inited /\ reader'.counter = reader.counter
      /\ reader'.leftover = t /\ reader'.delivered = at + n
      /\ reader'.inOrder = TRUE /\ reader'.err = reader.err
  BY <1>0, <1>6 DEF ReaderRecs
<1>9. Came' = Came
  <2>1. Came' = (at + n) + (len - n)
    BY <1>6, <1>8 DEF Came
  <2> QED
    BY <1>3, <2>1
<1>10. WireInv' /\ End' = End
  BY <1>0, <1>1, <1>8, <1>9, QuietKeeps
<1>11. SsTypeOK'
  BY <1>0, <1>1, <1>7 DEF SsTypeOK
<1>12. LockInv' /\ RoomInv'
  BY <1>0, <1>1 DEF LockInv, RoomInv
<1>13. ReaderInv'
  BY <1>0, <1>1, <1>6, <1>8, <1>9 DEF ReaderInv
<1>14. SealedInv' /\ BufInv'
  BY <1>0, <1>1, <1>8, <1>10, TheRest
<1>15. reader'.delivered \in Nat /\ reader'.delivered > reader.delivered /\ reader'.delivered =< given
  <2>1. at + n \in Nat /\ at + n > at /\ at + n =< given
    BY <1>0, <1>3
  <2> QED
    BY <1>8, <2>1 DEF at
<1> QED
  BY <1>1, <1>10, <1>11, <1>12, <1>13, <1>14, <1>15 DEF SsInv

(* Nothing is written yet.                                                 *)
LEMMA SsInitially == SsInit => SsInv
<1> SUFFICES ASSUME SsInit PROVE SsInv
  OBVIOUS
<1>1. /\ buf = [c \in Cells |-> 0] /\ pending = 0 /\ needFlush = FALSE /\ counter = 0
      /\ mu = "free" /\ timer = <<>> /\ given = 0 /\ wire = <<>> /\ broken = FALSE
      /\ main = [at |-> "idle", left |-> 0, n |-> 0, start |-> 0, eof |-> FALSE, sealed |-> <<>>]
      /\ reader = [inited |-> FALSE, counter |-> 0, leftover |-> <<>>, slice |-> FALSE, err |-> "nil",
                   delivered |-> 0, inOrder |-> TRUE]
  BY DEF SsInit, Idle, NewReader
<1>2. Len(<<>>) = 0 /\ <<>> \in Seq(Nat) /\ <<>> \in Seq(Chunks) /\ <<>> \in AtMostOneChunk /\ 0 \in Nat
  BY OneChunk
<1>3. main \in MainRecs /\ reader \in ReaderRecs
  <2>1. main \in MainRecs
    BY <1>1, <1>2 DEF MainRecs
  <2>2. reader \in ReaderRecs
    BY <1>1, <1>2 DEF ReaderRecs
  <2> QED
    BY <2>1, <2>2
<1>4. SsTypeOK
  <2>1. buf \in [Cells -> Nat] /\ pending \in 0..PayloadMax
    BY <1>1, <1>2, Sizes
  <2> QED
    BY <1>1, <1>2, <1>3, <2>1 DEF SsTypeOK
<1>5. LockInv /\ RoomInv
  BY <1>1 DEF LockInv, RoomInv
<1>6. Came = 0 /\ End = 0 /\ InHand = 0
  BY <1>1, <1>2 DEF Came, End, InHand
<1>7. WireInv /\ ReaderInv
  BY <1>1, <1>2, <1>6 DEF WireInv, ReaderInv
<1>8. SealedInv /\ BufInv
  BY <1>1, <1>2, <1>6 DEF SealedInv, BufInv
<1> QED
  BY <1>4, <1>5, <1>7, <1>8 DEF SsInv

(* Every step keeps the invariant.                                         *)
LEMMA SsInductive == SsInv /\ [SsNext]_ssVars => SsInv'
<1> SUFFICES ASSUME SsInv, [SsNext]_ssVars PROVE SsInv'
  OBVIOUS
<1>1. CASE LazyWrite \/ ReadFrom
  BY <1>1, LazyWriteKeeps, ReadFromKeeps
<1>2. CASE MainStep
  BY <1>2, LazyEnqueueKeeps, ReadBehindPendingKeeps, RelockKeeps, LoopReadKeeps,
     MainFlushNothingKeeps, MainSealKeeps, MainSendKeeps DEF MainStep
<1>3. CASE TimerStep
  BY <1>3, FlushLockKeeps, FlushSendKeeps DEF TimerStep
<1>4. CASE ReaderStep
  BY <1>4, ReadChunkKeeps, ReadEndKeeps, ReadLeftoverKeeps DEF ReaderStep
<1>5. CASE UNCHANGED ssVars
  BY <1>5 DEF ssVars, SsInv, SsTypeOK, LockInv, RoomInv, WireInv, ReaderInv, SealedInv, BufInv,
              InHand, End, Came, Ciphertext
<1> QED
  BY <1>1, <1>2, <1>3, <1>4, <1>5 DEF SsNext

(* The inductive invariant of the shared buffer: who may touch which part  *)
(* of it.                                                                  *)
THEOREM SsInvariance == SsSpec => []SsInv
<1>1. SsSpec => SsInit /\ [][SsNext]_ssVars
  BY DEF SsSpec
<1> QED
  BY <1>1, SsInitially, SsInductive, PTL

(* Writer and Reader of transport/shadowsocks: whatever LazyWrite, the     *)
(* timer that flushes, Write and ReadFrom do at one time in one buffer,    *)
(* every chunk decrypts and the bytes come out in order, for any sizes of  *)
(* chunks and tags and any number of bytes.                                *)
THEOREM ChunksAreDecrypted == SsSpec => []ChunksDecrypt
<1>1. SsInv => ChunksDecrypt
  BY DEF SsInv, ReaderInv, ChunksDecrypt
<1> QED
  BY <1>1, SsInvariance, PTL

(* A step gives the writer more bytes, hands on the next ones, or is none  *)
(* of the pipe.                                                            *)
LEMMA PipeSteps ==
  ASSUME SsInv, [SsNext]_ssVars
  PROVE  [Pipe!Next]_<<given, reader.delivered>>
<1>0. given \in Nat /\ reader.delivered \in Nat
  BY FieldTypes DEF SsInv
<1>1. CASE given' # given
  <2>1. reader' = reader /\ SsTypeOK /\ (LazyEnqueue \/ ReadBehindPending \/ LoopRead)
    BY <1>1 DEF SsInv, SsNext, MainStep, TimerStep, ReaderStep, ssVars, LazyWrite, ReadFrom, RelockAndEnqueue,
       MainFlushNothing, MainSeal, MainSend, FlushLock, FlushSend, ReadChunk, ReadEnd, ReadLeftover,
       LazyEnqueue, ReadBehindPending, LoopRead
  <2>2. given' \in Nat /\ given' >= given
    <3>1. main.left \in Nat /\ pending \in Nat /\ pending =< PayloadMax
      BY <2>1, FieldTypes
    <3>2. CASE LazyEnqueue
      <4>1. PayloadMax - pending \in Nat
        BY <3>1, Sizes
      <4>2. given' = given + Min({main.left, PayloadMax - pending})
        BY <3>2 DEF LazyEnqueue
      <4>3. Min({main.left, PayloadMax - pending}) \in Nat
        BY <3>1, <4>1, Lesser
      <4> QED
        BY <1>0, <4>2, <4>3
    <3>3. CASE ReadBehindPending
      <4>1. PICK n \in 0..main.left : given' = given + n
        BY <3>3 DEF ReadBehindPending
      <4> QED
        BY <1>0, <3>1, <4>1
    <3>4. CASE LoopRead
      <4>1. PICK n \in 0..main.left : given' = given + n
        BY <3>4 DEF LoopRead
      <4> QED
        BY <1>0, <3>1, <4>1
    <3> QED
      BY <2>1, <3>2, <3>3, <3>4
  <2>3. given' > given
    BY <1>0, <1>1, <2>2
  <2> QED
    BY <2>1, <2>2, <2>3 DEF Pipe!Next, Pipe!Accept
<1>2. CASE given' = given
  <2>1. CASE reader' = reader
    BY <1>2, <2>1
  <2>2. CASE reader' # reader
    <3>1. ReadChunk \/ ReadEnd \/ ReadLeftover
      BY <2>2 DEF SsNext, MainStep, TimerStep, ReaderStep, ssVars, LazyWrite, ReadFrom, RelockAndEnqueue,
         MainFlushNothing, MainSeal, MainSend, FlushLock, FlushSend, LazyEnqueue, ReadBehindPending, LoopRead
    <3>2. CASE ReadChunk \/ ReadEnd
      BY <1>2, <3>2, ReadChunkKeeps, ReadEndKeeps
    <3>3. CASE ReadLeftover
      BY <3>3, ReadLeftoverKeeps DEF Pipe!Next, Pipe!Deliver
    <3> QED
      BY <3>1, <3>2, <3>3
  <2> QED
    BY <2>1, <2>2
<1> QED
  BY <1>1, <1>2

(* A Shadowsocks connection implements the pipe of StreamPipe: no byte is  *)
(* lost, repeated or out of its place.                                     *)
THEOREM StreamIsPipe == SsSpec => IsPipe
<1>1. SsInit => Pipe!Init
  BY DEF SsInit, NewReader, Pipe!Init
<1>2. SsInv /\ [SsNext]_ssVars => [Pipe!Next]_<<given, reader.delivered>>
  BY PipeSteps
<1>3. SsSpec => SsInit /\ [][SsNext]_ssVars
  BY DEF SsSpec
<1> QED
  BY <1>1, <1>2, <1>3, SsInvariance, PTL DEF IsPipe, Pipe!Spec

-----------------------------------------------------------------------------
(***************************************************************************)
(* ShadowsocksPacket: packets go whole.                                    *)
(***************************************************************************)
(* A datagram that was packed fits the buffer it is read into.             *)
LEMMA SentFits ==
  ASSUME NEW n \in 0 .. MaxPayload, WritePacket(n), NEW d \in datagrams' \ datagrams
  PROVE  Unpacks(d)
<1>1. /\ PackFits(AddrSize + n)
      /\ d = [from |-> Remote, payload |-> n, genuine |-> TRUE]
  BY DEF WritePacket
<1>2. {BufferSize, SaltSize, TagSize, AddrSize} \subseteq Nat /\ n \in Nat
  BY PacketSizes
<1> DEFINE size == SaltSize + AddrSize + n + TagSize
<1>3. size \in Nat /\ size =< BufferSize
  BY <1>1, <1>2 DEF PackFits
<1>4. FromSocket(d) = Min({BufferSize, size})
  BY <1>1 DEF FromSocket
<1> HIDE DEF size
<1>5. FromSocket(d) = size
  BY <1>2, <1>3, <1>4, Lesser
<1> QED
  BY <1>1, <1>5 DEF Unpacks, size

(* Packet conns of transport/shadowsocks: a datagram that is sent can be   *)
(* unpacked, and a read that succeeds returns the whole payload of one     *)
(* genuine datagram of the server, for any sizes of the buffer, the salt,  *)
(* the tag and the address.                                                *)
THEOREM PacketsGoWhole == PacketSpec => PacketsAreWhole
<1>1. ASSUME [PacketNext]_packetVars
      PROVE  /\ [\A n \in 0 .. MaxPayload : WritePacket(n) =>
                   \A d \in datagrams' \ datagrams : Unpacks(d)]_packetVars
             /\ [slice = "acquired" /\ result' # result /\ result'.err = "nil" =>
                   \E d \in datagrams : d.from = Remote /\ d.genuine /\ d.payload = result'.n]_packetVars
  <2>1. \A n \in 0 .. MaxPayload : WritePacket(n) => \A d \in datagrams' \ datagrams : Unpacks(d)
    BY SentFits
  <2>2. ASSUME slice = "acquired", result' # result, result'.err = "nil"
        PROVE  \E d \in datagrams : d.from = Remote /\ d.genuine /\ d.payload = result'.n
    <3>1. ASSUME NEW b \in 0 .. MaxPayload, ReadDatagram(b)
          PROVE  \E d \in datagrams : d.from = Remote /\ d.genuine /\ d.payload = result'.n
      <4>1. PICK d \in datagrams :
              LET r == IF Unpacks(d) THEN Copied(d, b) ELSE Fails("unpack")
              IN  ~(r.err = "nil" /\ r.from # Remote) /\ result' = r
        BY <2>2, <3>1 DEF ReadDatagram
      <4>2. Unpacks(d) /\ result' = Copied(d, b) /\ result'.from = Remote
        BY <2>2, <4>1 DEF Fails
      <4>3. result' = Ok(d.payload, d.from)
        BY <2>2, <4>2 DEF Copied, Fails
      <4> QED
        BY <4>2, <4>3 DEF Ok, Unpacks
    <3>2. CASE ReadFails
      BY <2>2, <3>2 DEF ReadFails, Fails
    <3> QED
      BY <1>1, <2>2, <3>1, <3>2
         DEF PacketNext, WritePacket, Arrives, ReadStart, Lose, packetVars
  <2> QED
    BY <2>1, <2>2
<1> QED
  BY <1>1, PTL DEF PacketSpec, PacketsAreWhole, SentCanBeUnpacked, ReadsWholePackets
=============================================================================
