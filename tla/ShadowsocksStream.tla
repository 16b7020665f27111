-------------------------- MODULE ShadowsocksStream --------------------------
(***************************************************************************)
(* transport/shadowsocks/stream.go and stream_dialer.go: the Writer that   *)
(* encrypts a stream in place in one buffer, shared by the thread that     *)
(* writes and by the timer that flushes the lazily written target address, *)
(* composed with the Reader that takes the chunks apart again.             *)
(*                                                                         *)
(* The k-th byte the application writes is the number k; 0 stands for any  *)
(* byte of a ciphertext or of a tag.  The model keeps the payload part of  *)
(* sw.buf as memory, because the two threads use parts of it at one time.  *)
(***************************************************************************)
EXTENDS Integers, Sequences, SequencesExt, FiniteSetsExt

CONSTANTS
    PayloadMax,   \* payloadSizeMask: plaintext bytes that fit in one chunk
    Overhead,     \* aead.Overhead(): bytes of a tag
    AddrLen,      \* bytes of the SOCKS target address
    TotalBytes    \* bound: bytes written to the connection in all

ASSUME StreamSizes == /\ PayloadMax \in Nat \ {0} /\ Overhead \in Nat
                      /\ AddrLen \in Nat \ {0} /\ TotalBytes \in Nat

VARIABLES
    buf,        \* the payload part of sw.buf with room for the tag
    pending,    \* sw.pending
    needFlush,  \* sw.needFlush
    counter,    \* sw.counter as a number
    mu,         \* who holds sw.mu: "free", "main" or "timer"
    main,       \* the thread that uses the connection
    timer,      \* the function AfterFunc runs, and any other caller of Flush
    given,      \* bytes the Writer has taken from the application
    wire,       \* the chunks written to the inner connection and not yet read
    broken,     \* the inner connection fails every further write
    reader      \* the chunkReader and the readConverter of the other end

ssVars == <<buf, pending, needFlush, counter, mu, main, timer, given, wire, broken, reader>>

Cells == 1 .. PayloadMax + Overhead
Idle == [at |-> "idle", left |-> 0, n |-> 0, start |-> 0, eof |-> FALSE, sealed |-> <<>>]

(***************************************************************************)
(* Helpers.                                                                *)
(***************************************************************************)
\* Go's copy of the byte numbers bs into the memory from index i on.
CopyTo(mem, i, bs) == [c \in Cells |-> IF c \in i .. i + Len(bs) - 1 THEN bs[c - i + 1] ELSE mem[c]]

\* The next k bytes of the application.
NextBytes(k) == [i \in 1 .. k |-> given + i]

(* Variant: the read buffer of ReadFrom begins right behind the pending bytes. *)
ReadBufStartNoTag(p) == p + 1

\* readBuf of ReadFrom: behind the pending bytes and the tag a flush adds.
ReadBufStart(p) == p + Overhead + 1

\* Enqueues the bytes in the buffer: as many as fit behind the pending ones.
Enqueue(bs) ==
    LET n == Min({Len(bs), PayloadMax - pending})
    IN /\ buf' = CopyTo(buf, pending + 1, SubSeq(bs, 1, n))
       /\ pending' = pending + n

(***************************************************************************)
(* flush(), in the two steps another thread may come between: it encrypts  *)
(* the size and the payload in place, then writes the buffer out.          *)
(***************************************************************************)
Ciphertext == \A c \in 1 .. pending + Overhead : buf[c] = 0

\* What flush leaves in the buffer and notes of the chunk it is to write.
Sealed == [salt |-> counter = 0, nonce |-> counter, payload |-> SubSeq([c \in Cells |-> buf[c]], 1, pending)]

EncryptChunk ==
    /\ buf' = [c \in Cells |-> IF c =< pending + Overhead THEN 0 ELSE buf[c]]
    /\ counter' = counter + 2

(* Variant: the pending bytes are not reset while another flush may come. *)
SendChunkKeeps(sealed) ==
    /\ \/ /\ ~broken /\ broken' = broken
          /\ wire' = Append(wire, IF Ciphertext THEN sealed ELSE [sealed EXCEPT !.payload = <<0>>])
       \/ broken' = TRUE /\ wire' = wire
    /\ pending' = IF needFlush THEN pending ELSE 0

\* The write to the inner connection: of the ciphertext, unless somebody has
\* overwritten it since; or it fails, and then every later write fails too.
SendChunk(sealed) ==
    /\ \/ /\ ~broken /\ broken' = broken
          /\ wire' = Append(wire, IF Ciphertext THEN sealed ELSE [sealed EXCEPT !.payload = <<0>>])
       \/ broken' = TRUE /\ wire' = wire
    /\ pending' = 0

(***************************************************************************)
(* The thread that uses the connection.  A call takes "left" bytes from    *)
(* the application, or from a Reader that has that many.                   *)
(***************************************************************************)

\* LazyWrite takes the lock; DialStream calls it with the target address.
LazyWrite ==
    /\ main.at = "idle" /\ mu = "free"
    /\ \E k \in (IF given = 0 THEN {AddrLen} ELSE 1 .. TotalBytes - given) :
          /\ k =< TotalBytes - given
          /\ main' = [Idle EXCEPT !.at = "lazy", !.left = k]
    /\ mu' = "main"
    /\ UNCHANGED <<buf, pending, needFlush, counter, given, wire, broken, reader, timer>>

\* One turn of its loop: either all is queued, or the buffer has to go first.
LazyEnqueue ==
    /\ main.at = "lazy"
    /\ LET n == Min({main.left, PayloadMax - pending})
       IN /\ Enqueue(NextBytes(main.left))
          /\ given' = given + n
          /\ IF n = main.left
             THEN needFlush' = TRUE /\ mu' = "free" /\ main' = Idle
             ELSE /\ main' = [main EXCEPT !.at = "lazyFlush", !.left = main.left - n]
                  /\ UNCHANGED <<needFlush, mu>>
    /\ UNCHANGED <<counter, wire, broken, reader, timer>>

\* Write and ReadFrom: with needFlush set, one read that is safe beside a flush.
ReadFrom ==
    /\ main.at = "idle" /\ mu = "free" /\ given > 0
    /\ \E k \in 0 .. TotalBytes - given :
          main' = IF needFlush
                  THEN [Idle EXCEPT !.at = "read1", !.left = k, !.start = ReadBufStart(pending)]
                  ELSE [Idle EXCEPT !.at = "loop", !.left = k]
    /\ UNCHANGED <<buf, pending, needFlush, counter, mu, given, wire, broken, reader, timer>>

\* What a Read into "space" bytes of a Reader with "left" bytes may return.
ReadResult(left, space, n, eof) ==
    /\ n =< left /\ n =< space
    /\ eof => n = left
    /\ n = 0 => (eof \/ space = 0)

\* The read of the special case, without the lock, into the end of the buffer.
ReadBehindPending ==
    /\ main.at = "read1"
    /\ \E n \in 0 .. main.left, eof \in BOOLEAN :
          /\ ReadResult(main.left, PayloadMax + Overhead + 1 - main.start, n, eof)
          /\ buf' = CopyTo(buf, main.start, NextBytes(n))
          /\ given' = given + n
          /\ main' = [main EXCEPT !.at = "relock", !.n = n, !.eof = eof, !.left = main.left - n]
    /\ UNCHANGED <<pending, needFlush, counter, mu, wire, broken, reader, timer>>

\* It takes the lock again and queues what it has read.
RelockAndEnqueue ==
    /\ main.at = "relock" /\ mu = "free"
    /\ mu' = "main"
    /\ Enqueue([i \in 1 .. main.n |-> buf[main.start + i - 1]])
    /\ main' = [main EXCEPT !.at = "flush1"]
    /\ UNCHANGED <<needFlush, counter, given, wire, broken, reader, timer>>

\* The main transfer loop reads to the start of the buffer, without the lock.
LoopRead ==
    /\ main.at = "loop"
    /\ \E n \in 0 .. main.left, eof \in BOOLEAN :
          /\ ReadResult(main.left, PayloadMax, n, eof)
          /\ buf' = CopyTo(buf, 1, NextBytes(n))
          /\ pending' = n
          /\ given' = given + n
          /\ main' = [main EXCEPT !.at = "loopFlush", !.eof = eof, !.left = main.left - n]
    /\ UNCHANGED <<needFlush, counter, mu, wire, broken, reader, timer>>

\* Where the thread is after a flush; the special case ends needFlush there.
AfterFlush(failed) ==
    CASE main.at = "lazyFlush" ->
            /\ main' = IF failed THEN Idle ELSE [main EXCEPT !.at = "lazy", !.sealed = <<>>]
            /\ mu' = IF failed THEN "free" ELSE mu
            /\ UNCHANGED needFlush
      [] main.at = "flush1" ->
            /\ main' = IF failed \/ main.eof THEN Idle ELSE [main EXCEPT !.at = "loop", !.sealed = <<>>]
            /\ mu' = "free" /\ needFlush' = FALSE
      [] main.at = "loopFlush" ->
            /\ main' = IF failed \/ main.eof THEN Idle ELSE [main EXCEPT !.at = "loop", !.sealed = <<>>]
            /\ UNCHANGED <<mu, needFlush>>

Flushing == {"lazyFlush", "flush1", "loopFlush"}

\* flush with nothing pending returns at once.
MainFlushNothing ==
    /\ main.at \in Flushing /\ main.sealed = <<>> /\ pending = 0
    /\ AfterFlush(FALSE)
    /\ UNCHANGED <<buf, pending, counter, given, wire, broken, reader, timer>>

MainSeal ==
    /\ main.at \in Flushing /\ main.sealed = <<>> /\ pending > 0
    /\ main' = [main EXCEPT !.sealed = <<Sealed>>]
    /\ EncryptChunk
    /\ UNCHANGED <<pending, needFlush, mu, given, wire, broken, reader, timer>>

MainSend ==
    /\ main.at \in Flushing /\ main.sealed # <<>>
    /\ SendChunk(main.sealed[1])
    /\ AfterFlush(broken')
    /\ UNCHANGED <<buf, counter, given, reader, timer>>

(***************************************************************************)
(* Flush, called by the function of AfterFunc; a Flush that has nothing to *)
(* do changes nothing.                                                     *)
(***************************************************************************)
(* Variant: the timer flushes a full buffer only. *)
FlushGuardFull == needFlush /\ pending = PayloadMax

FlushGuard == needFlush

FlushLock ==
    /\ timer = <<>> /\ mu = "free" /\ given > 0 /\ FlushGuard /\ pending > 0
    /\ mu' = "timer"
    /\ timer' = <<Sealed>>
    /\ EncryptChunk
    /\ UNCHANGED <<pending, needFlush, main, given, wire, broken, reader>>

FlushSend ==
    /\ timer # <<>>
    /\ SendChunk(timer[1])
    /\ timer' = <<>> /\ mu' = "free"
    /\ UNCHANGED <<buf, needFlush, counter, main, given, reader>>

(***************************************************************************)
(* The Reader: chunkReader under readConverter, with its pooled buffer.    *)
(***************************************************************************)
NewReader == [inited |-> FALSE, counter |-> 0, leftover |-> <<>>, slice |-> FALSE, err |-> "nil",
              delivered |-> 0, inOrder |-> TRUE]

\* ReadChunk: the salt once, then the size and the payload of a chunk, with
\* the next two nonces.  The buffer of the chunk before goes back first.
ReadChunk ==
    /\ reader.leftover = <<>> /\ reader.err = "nil" /\ wire # <<>>
    /\ LET chunk == Head(wire)
           opens == chunk.salt = ~reader.inited /\ chunk.nonce = reader.counter /\ chunk.payload # <<0>>
       IN reader' = IF opens
                    THEN [reader EXCEPT !.inited = TRUE, !.counter = reader.counter + 2,
                                        !.leftover = chunk.payload, !.slice = TRUE]
                    ELSE [reader EXCEPT !.err = "failed to decrypt", !.slice = FALSE]
    /\ wire' = Tail(wire)
    /\ UNCHANGED <<buf, pending, needFlush, counter, mu, main, timer, given, broken>>

\* The inner connection ends between two chunks (EOF) or inside of one.
ReadEnd ==
    /\ reader.leftover = <<>> /\ reader.err = "nil" /\ broken
    /\ \E e \in {"EOF", "unexpected EOF"} :
          /\ e = "EOF" => wire = <<>>
          /\ reader' = [reader EXCEPT !.err = e, !.slice = FALSE]
    /\ UNCHANGED <<buf, pending, needFlush, counter, mu, main, timer, given, wire, broken>>

\* Read copies as much of the chunk as fits in the buffer of its caller.
ReadLeftover ==
    /\ reader.leftover # <<>>
    /\ \E n \in 1 .. Len(reader.leftover) :
          reader' = [reader EXCEPT !.leftover = SubSeq(@, n + 1, Len(@)),
                        !.delivered = @ + n,
                        !.inOrder = @ /\ \A i \in 1 .. n : reader.leftover[i] = reader.delivered + i]
    /\ UNCHANGED <<buf, pending, needFlush, counter, mu, main, timer, given, wire, broken>>

SsInit ==
    /\ buf = [c \in Cells |-> 0] /\ pending = 0 /\ needFlush = FALSE /\ counter = 0
    /\ mu = "free" /\ main = Idle /\ timer = <<>> /\ given = 0
    /\ wire = <<>> /\ broken = FALSE /\ reader = NewReader

MainStep == LazyEnqueue \/ ReadBehindPending \/ RelockAndEnqueue \/ LoopRead
            \/ MainFlushNothing \/ MainSeal \/ MainSend
TimerStep == FlushLock \/ FlushSend
ReaderStep == ReadChunk \/ ReadEnd \/ ReadLeftover

SsNext == LazyWrite \/ ReadFrom \/ MainStep \/ TimerStep \/ ReaderStep

\* The goroutines of the process run, and the other end reads what arrives.
SsFairness == /\ WF_ssVars(MainStep) /\ SF_ssVars(FlushLock) /\ WF_ssVars(FlushSend)
              /\ WF_ssVars(ReaderStep)

SsSpec == SsInit /\ [][SsNext]_ssVars /\ SsFairness

(***************************************************************************)
(* Properties.                                                             *)
(***************************************************************************)
\* The Writer's comment of stream.go:42 ("mu protects needFlush, and also
\* protects everything else while needFlush could be true"): whatever the
\* threads do at one time, every chunk decrypts and the bytes come out in order.
ChunksDecrypt == /\ reader.err # "failed to decrypt"
                 /\ reader.inOrder

\* One direction of the connection is a pipe: see StreamPipe.
Pipe == INSTANCE StreamPipe WITH given <- given, delivered <- reader.delivered
IsPipe == Pipe!Spec

\* Whatever the application has written comes out, also the address when no
\* data follows it (the ClientDataWait of stream_dialer.go), unless the
\* connection breaks.
\* (Bytes come out in order, so the address and all bytes are the cases.)
WrittenArrives == \A k \in {AddrLen, TotalBytes} : (given >= k) ~> (reader.delivered >= k \/ broken)
=============================================================================
