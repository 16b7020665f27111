---------------------------- MODULE TlsFragWriter ----------------------------
(***************************************************************************)
(* transport/tlsfrag: the two writers that cut the first TLS record of a   *)
(* stream in two.  recordLenFragWriter ("len") rewrites the record header  *)
(* as it passes; clientHelloFragWriter ("hello") collects the record, cuts *)
(* it and sends the result.  Both take Write and ReadFrom calls in any mix *)
(* and in pieces of any size.                                              *)
(*                                                                         *)
(* Byte k of the payload is the number HeaderLen + k, and so on behind the *)
(* record; byte i of a record header is the record [h |-> i, len |-> n],   *)
(* where n is the payload length the header announces.                     *)
(***************************************************************************)
EXTENDS Integers, Sequences, SequencesExt, FiniteSetsExt

CONSTANTS
    HeaderLen,    \* recordHeaderLen
    MaxRecord,    \* bound: the longest payload of the first record
    FragStreamLen,    \* bound: bytes of the stream, header and record included
    Kinds,        \* which of the writers are checked: "len", "hello"
    Resumers      \* the kinds whose caller goes on after a Write that failed half-way

ASSUME FragSizes == /\ HeaderLen \in Nat \ {0} /\ MaxRecord \in Nat \ {0}
                    /\ FragStreamLen \in Nat
                    /\ Kinds \subseteq {"len", "hello"} /\ Resumers \subseteq Kinds

VARIABLES
    conf,     \* kind of the writer, first record of the stream, what frag returns
    frag,     \* the fields of the writer
    op,       \* the call that runs: its kind, the bytes left in it, where it is
    taken,    \* bytes of the stream the writer has accepted
    out,      \* bytes written to the base writer
    baseDown  \* the base writer fails for good

fragVars == <<conf, frag, op, taken, out, baseDown>>

NoCall == [kind |-> "none", at |-> "idle", left |-> 0]

Header(n) == [i \in 1 .. HeaderLen |-> [h |-> i, len |-> n]]
StreamBytes(a, b) == [i \in 1 .. b - a + 1 |-> [h |-> 0, len |-> a + i - 1]]

(***************************************************************************)
(* What the doc of WrapConnFixedLen promises, written down independently.  *)
(***************************************************************************)
Splits == conf.valid /\ conf.split > 0 /\ conf.split < conf.len

PlainStream == Header(conf.len) \o StreamBytes(HeaderLen + 1, FragStreamLen)

FragmentedStream ==
    IF Splits
    THEN Header(conf.split) \o StreamBytes(HeaderLen + 1, HeaderLen + conf.split)
         \o Header(conf.len - conf.split) \o StreamBytes(HeaderLen + conf.split + 1, FragStreamLen)
    ELSE PlainStream

(***************************************************************************)
(* Writing to the base: all of it, or a part and an error.                 *)
(***************************************************************************)
\* "sent" bytes of bs reach the base; after an error the call returns, and the
\* caller goes on with the rest only if it is one that does.
BaseWrite(bs, sent) ==
    /\ ~baseDown
    /\ sent \in 0 .. Len(bs)
    /\ out' = out \o SubSeq(bs, 1, sent)
    /\ baseDown' = (sent < Len(bs) /\ (conf.kind \notin Resumers \/ op.kind = "read"))

CallOver == op' = NoCall

\* The caller's bytes that are still in this call.
CallBytes(n) == SubSeq(PlainStream, taken + 1, taken + n)

Consume(n, at) == /\ taken' = taken + n
                  /\ op' = [op EXCEPT !.left = @ - n, !.at = at]

(***************************************************************************)
(* Calls.                                                                  *)
(***************************************************************************)
Call ==
    /\ op = NoCall /\ ~baseDown
    /\ \E k \in {"write", "read", "readErr"}, n \in 0 .. FragStreamLen - taken :
          /\ k = "write" => n > 0
          /\ k = "readErr" => conf.kind = "hello"
          /\ op' = [kind |-> k, left |-> n,
                    at |-> IF conf.kind = "len" /\ k = "write" THEN "fill"
                           ELSE IF conf.kind = "hello" THEN "buffer"
                           ELSE IF frag.done /\ frag.hdr = 0 THEN "rest" ELSE "firstReader"]
    /\ UNCHANGED <<conf, frag, taken, out, baseDown>>

(***************************************************************************)
(* recordLenFragWriter.                                                    *)
(***************************************************************************)
\* The bytes of w.hdr that are still to be written; hdr counts those left.
HdrLeft == SubSeq(Header(frag.announced), HeaderLen - frag.hdr + 1, HeaderLen)

\* updateSplitRecordLens, and the first header gets the first length.
ParseHeader(f) ==
    IF Splits
    THEN [f EXCEPT !.tls = TRUE, !.r1Size = conf.split + HeaderLen,
                   !.r2Size = conf.len - conf.split + HeaderLen, !.announced = conf.split]
    ELSE [f EXCEPT !.tls = TRUE, !.done = TRUE]

\* The first record is out: the header becomes that of the second.
FirstRecordDone(f) == [f EXCEPT !.done = TRUE, !.announced = f.r2Size - HeaderLen]

\* Bytes of the header that a call has filled in.
Filled(m) == LET f == [frag EXCEPT !.hdr = @ + m]
             IN IF f.hdr < HeaderLen THEN f ELSE ParseHeader(f)

\* Write collects the five bytes of the header.
FillHeader ==
    /\ op.at = "fill"
    /\ IF frag.done \/ frag.tls
       THEN /\ op' = [op EXCEPT !.at = IF frag.done THEN "header" ELSE "firstRecord"]
            /\ UNCHANGED <<frag, taken>>
       ELSE LET m == Min({HeaderLen - frag.hdr, op.left})
            IN /\ frag' = Filled(m)
               /\ taken' = taken + m
               /\ op' = IF frag'.hdr < HeaderLen THEN NoCall
                        ELSE [op EXCEPT !.left = @ - m,
                                        !.at = IF frag'.done THEN "header" ELSE "firstRecord"]
    /\ UNCHANGED <<conf, out, baseDown>>

\* What writeBothN or writeN is given: the rest of the header and of the record.
\* The limit of writeBothN is r1Size, whatever part of the header is out.
FirstRecordBytes ==
    IF frag.r1Written < HeaderLen
    THEN SubSeq(Header(frag.announced) \o
                  CallBytes(op.left), frag.r1Written + 1, Min({frag.r1Written + frag.r1Size, HeaderLen + op.left}))
    ELSE CallBytes(Min({op.left, frag.r1Size - frag.r1Written}))

WriteFirstRecord ==
    /\ op.at = "firstRecord"
    /\ \E sent \in 0 .. Len(FirstRecordBytes) :
          LET ofHdr == Min({sent, IF frag.r1Written < HeaderLen THEN HeaderLen - frag.r1Written ELSE 0})
              f == [frag EXCEPT !.r1Written = @ + sent]
              failed == sent < Len(FirstRecordBytes)
          IN /\ BaseWrite(FirstRecordBytes, sent)
             /\ frag' = IF f.r1Written < f.r1Size THEN f ELSE FirstRecordDone(f)
             /\ taken' = taken + sent - ofHdr
             /\ op' = IF f.r1Written < f.r1Size \/ failed THEN NoCall
                      ELSE [op EXCEPT !.left = @ - (sent - ofHdr), !.at = "header"]
    /\ UNCHANGED conf

\* What is left of a header goes out in one write with the caller's bytes.
WriteHeader ==
    /\ op.at = "header"
    /\ IF frag.hdr = 0
       THEN /\ op' = [op EXCEPT !.at = "rest"]
            /\ UNCHANGED <<frag, taken, out, baseDown>>
       ELSE \E sent \in 0 .. frag.hdr + op.left :
               LET ofHdr == Min({sent, frag.hdr})
               IN /\ BaseWrite(HdrLeft \o CallBytes(op.left), sent)
                  /\ frag' = [frag EXCEPT !.hdr = @ - ofHdr]
                  /\ taken' = taken + sent - ofHdr
                  /\ CallOver
    /\ UNCHANGED conf

\* The rest of the call goes straight to the base writer; a ReadFrom passes the
\* Reader on, and ends when it is at its end.
WriteRest ==
    /\ op.at = "rest"
    /\ \E sent \in 0 .. op.left :
          /\ BaseWrite(CallBytes(op.left), sent)
          /\ taken' = taken + sent
          /\ CallOver
    /\ UNCHANGED <<conf, frag>>

(***************************************************************************)
(* fixedLenReaderFrom: the base reads from two readers, one after another. *)
(***************************************************************************)
\* Bytes the base takes from a Read and writes out; a failure is for good.
Pull(bs) == \E sent \in {0, Len(bs)} : BaseWrite(bs, sent)

\* fixedLenFirstRecordReader fills the header before it delivers anything.
FirstReaderHeader ==
    /\ op.at = "firstReader" /\ ~frag.tls /\ ~frag.done
    /\ LET m == Min({HeaderLen - frag.hdr, op.left})
       IN /\ frag' = Filled(m)
          /\ Consume(m, IF frag'.tls /\ ~frag'.done THEN "firstReader" ELSE "secondReader")
    /\ UNCHANGED <<conf, out, baseDown>>

\* One Read of it, into a buffer of s bytes.
FirstReaderRead ==
    /\ op.at = "firstReader" /\ frag.tls /\ ~frag.done
    /\ \E s \in 1 .. HeaderLen + MaxRecord :
          LET ofHdr == Min({s, IF frag.r1Written < HeaderLen THEN HeaderLen - frag.r1Written ELSE 0})
              m == Min({s - ofHdr, frag.r1Size - frag.r1Written - ofHdr, op.left})
              f == [frag EXCEPT !.r1Written = @ + ofHdr + m]
          IN /\ Pull(SubSeq(Header(frag.announced), frag.r1Written + 1, frag.r1Written + ofHdr)
                     \o CallBytes(m))
             /\ frag' = IF f.r1Written = f.r1Size THEN FirstRecordDone(f) ELSE f
             /\ Consume(m, IF frag'.done \/ (op.left = m /\ s > ofHdr) THEN "secondReader" ELSE "firstReader")
    /\ UNCHANGED conf

\* A first reader that has nothing more to give.
FirstReaderEnd ==
    /\ op.at = "firstReader" /\ frag.done
    /\ op' = [op EXCEPT !.at = "secondReader"]
    /\ UNCHANGED <<conf, frag, taken, out, baseDown>>

\* fixedLenRemainingRecordReader: the header, then whatever the source has.
SecondReaderRead ==
    /\ op.at = "secondReader"
    /\ IF ~frag.done \/ (frag.hdr = 0 /\ op.left = 0)
       THEN CallOver /\ UNCHANGED <<frag, taken, out, baseDown>>
       ELSE \E s \in 1 .. HeaderLen + FragStreamLen :
               LET h == Min({s, frag.hdr})
                   m == IF h < frag.hdr THEN 0 ELSE Min({s - h, op.left})
               IN /\ Pull(SubSeq(HdrLeft, 1, h) \o CallBytes(m))
                  /\ frag' = [frag EXCEPT !.hdr = @ - h]
                  /\ Consume(m, "secondReader")
    /\ UNCHANGED conf

(***************************************************************************)
(* clientHelloFragWriter, with its clientHelloBuffer.                      *)
(***************************************************************************)
\* How many bytes ReadFrom of the buffer takes of n, and what it returns.
HelloTakes(n) ==
    LET size == IF conf.valid THEN HeaderLen + conf.len ELSE HeaderLen
    IN Min({n, size - frag.hdr})

HelloResult(total) ==
    IF total >= HeaderLen /\ ~conf.valid THEN "invalid"
    ELSE IF total = HeaderLen + conf.len THEN "full" ELSE "more"

\* What the buffer has received: the first bytes of the stream.
Received(total) == SubSeq(PlainStream, 1, total)

\* splitHelloBufToRecord and copyHelloBufToRecord.
SplitRecord(total) ==
    IF Splits THEN SubSeq(FragmentedStream, 1, HeaderLen + total) ELSE Received(total)

BufferHello ==
    /\ op.at = "buffer"
    /\ IF frag.done \/ frag.tls
       THEN /\ op' = [op EXCEPT !.at = IF frag.done THEN "rest" ELSE "flush"]
            /\ UNCHANGED <<frag, taken>>
       ELSE LET m == HelloTakes(op.left)
                total == frag.hdr + m
                res == HelloResult(total)
                failed == res = "more" /\ op.kind = "readErr"
            IN /\ taken' = taken + m
               /\ frag' = [frag EXCEPT !.hdr = total,
                             !.tls = res # "more" \/ failed,
                             !.cut = res = "full",
                             !.record = IF res = "full" THEN SplitRecord(total)
                                        ELSE IF res = "invalid" \/ failed THEN Received(total) ELSE <<>>]
               /\ op' = IF res = "more" /\ ~failed THEN NoCall
                        ELSE [op EXCEPT !.left = @ - m, !.at = "flush"]
    /\ UNCHANGED <<conf, out, baseDown>>

(* Variant: what a failed flush has written is written again. *)
FlushedRewind(sent) == [frag EXCEPT !.done = sent = Len(frag.record)]

\* w.record keeps what a failed flush has not written.
Flushed(sent) == [frag EXCEPT !.record = SubSeq(@, sent + 1, Len(@)), !.done = sent = Len(frag.record)]

FlushRecord ==
    /\ op.at = "flush"
    /\ \E sent \in 0 .. Len(frag.record) :
          /\ BaseWrite(frag.record, sent)
          /\ frag' = Flushed(sent)
          /\ op' = IF sent < Len(frag.record) THEN NoCall ELSE [op EXCEPT !.at = "rest"]
    /\ UNCHANGED <<conf, taken>>

FragInit ==
    /\ conf \in [kind : Kinds, valid : BOOLEAN, len : 1 .. MaxRecord, split : 0 .. MaxRecord]
    /\ ~conf.valid => conf.len = 1 /\ conf.split = 0
    /\ frag = [done |-> FALSE, hdr |-> 0, tls |-> FALSE, announced |-> conf.len,
               r1Size |-> 0, r1Written |-> 0, r2Size |-> 0, record |-> <<>>, cut |-> FALSE]
    /\ op = NoCall /\ taken = 0 /\ out = <<>> /\ baseDown = FALSE

FragNext == Call \/ FillHeader \/ WriteFirstRecord \/ WriteHeader \/ WriteRest
            \/ FirstReaderHeader \/ FirstReaderRead \/ FirstReaderEnd \/ SecondReaderRead
            \/ BufferHello \/ FlushRecord

FragSpec == FragInit /\ [][FragNext]_fragVars

(***************************************************************************)
(* Properties.                                                             *)
(***************************************************************************)
\* The bytes a writer holds back: an incomplete header or record.
HeldBack ==
    IF conf.kind = "hello" THEN IF frag.tls THEN Len(frag.record) ELSE frag.hdr
    ELSE IF frag.done THEN frag.hdr ELSE frag.hdr - Min({frag.r1Written, HeaderLen})

\* The second header, once the record is cut.
HeaderAdded == IF Splits /\ (IF conf.kind = "hello" THEN frag.cut ELSE frag.done) THEN HeaderLen ELSE 0

\* "If the first message isn't a valid Client Hello, WrapConnFixedLen forwards
\* all data without modifying it" and otherwise the first record becomes two
\* (stream_dialer.go:114): whatever the mix of Write and ReadFrom calls and
\* their sizes, the base sees the two records in order, nothing twice, and
\* nothing but the header or the incomplete record is held back.
OutputIsFragmented ==
    ~baseDown =>
    /\ \/ IsPrefix(out, FragmentedStream)
       \/ conf.kind = "hello" /\ ~frag.cut /\ IsPrefix(out, PlainStream)
    /\ op = NoCall => Len(out) + HeldBack = taken + HeaderAdded

\* "If splitLen is positive, the first fragmented record content will have that
\* length" (stream_dialer.go:111), also for a caller that writes the rest after
\* a Write that its deadline has cut short.
FirstRecordHasItsLength == ~baseDown => IsPrefix(out, FragmentedStream)
=============================================================================
