----------------------------- MODULE SplitWriter -----------------------------
(***************************************************************************)
(* transport/split and x/disorder: the writers that cut a stream into      *)
(* segments, and the one that sends one of the segments with a hop limit   *)
(* of one.  A configuration "disorder:N|split:..." stacks the first on the *)
(* second: each segment of the split writer is a Write of the disorder     *)
(* writer.  The connections of one dialer share its SplitIterator.         *)
(*                                                                         *)
(* A segment is a record with its first and last byte and its hop limit.   *)
(***************************************************************************)
EXTENDS Integers, Sequences, FiniteSetsExt

CONSTANTS
    Conns,         \* connections dialled with one split dialer
    SplitLengths,        \* the lengths the iterator of the dialer returns
    DisorderAt,    \* disorderPacketN
    SplitStreamLen,     \* bound: bytes of each stream
    DefaultHops    \* the hop limit of the connection before

ASSUME SplitSizes == /\ SplitStreamLen \in Nat /\ DefaultHops \in Nat \ {0, 1} /\ DisorderAt \in Nat
                     /\ SplitLengths \in Seq(Nat \ {0})

VARIABLES
    iterator,   \* the lengths that the SplitIterator of the dialer has left
    sw,         \* per connection: nextSplitBytes and the split points drawn
    dis,        \* per connection: writesToDisorder and the hop limit of the socket
    calls,       \* per connection: the bytes left in the Write or ReadFrom that runs
    segments,       \* per connection: the segments written to the socket
    dead      \* per connection: a write of the socket has failed

splitVars == <<iterator, sw, dis, calls, segments, dead>>

NoSegments == [next |-> 0, cuts |-> {}, dialled |-> FALSE]
NoCallRuns == [kind |-> "none", left |-> 0]

Accepted(c) == IF segments[c] = <<>> THEN 0 ELSE segments[c][Len(segments[c])].last

(***************************************************************************)
(* The iterator: NewRepeatedSplitIterator after its counts are unrolled.   *)
(***************************************************************************)
Upcoming == IF iterator = <<>> THEN 0 ELSE Head(iterator)
Draw == iterator' = IF iterator = <<>> THEN <<>> ELSE Tail(iterator)

\* The split points a connection has, with the next one "n" bytes behind "at".
WithNext(s, at, n) == [s EXCEPT !.next = n, !.cuts = IF n = 0 THEN @ ELSE @ \cup {at + n}]

\* splitDialer.DialStream: the writer asks for its first split at once.
DialStream(c) ==
    /\ ~sw[c].dialled
    /\ sw' = [sw EXCEPT ![c] = WithNext([@ EXCEPT !.dialled = TRUE], 0, Upcoming)]
    /\ Draw
    /\ UNCHANGED <<dis, calls, segments, dead>>

(* Variant: what is left of a split is not counted down. *)
AdvanceWhole(c, n) ==
    IF sw[c].next = 0 \/ n < sw[c].next
    THEN UNCHANGED <<sw, iterator>>
    ELSE /\ sw' = [sw EXCEPT ![c] = WithNext(@, Accepted(c) + n, Upcoming)]
         /\ Draw

\* advance: the split is used up, or comes nearer.
Advance(c, n) ==
    CASE sw[c].next = 0 -> UNCHANGED <<sw, iterator>>
      [] n < sw[c].next -> sw' = [sw EXCEPT ![c].next = @ - n] /\ UNCHANGED iterator
      [] OTHER -> /\ sw' = [sw EXCEPT ![c] = WithNext(@, Accepted(c) + n, Upcoming)]
                  /\ Draw

(***************************************************************************)
(* disorderWriter.Write around a write of the socket.                      *)
(***************************************************************************)
(* Variant: the hop limit is not set back. *)
HopsAfterKept(c) == IF dis[c].left = 0 THEN 1 ELSE dis[c].hops

\* The deferred function sets the hop limit back to what it was.
HopsAfter(c) == dis[c].hops

\* n of "len" bytes reach the socket in one segment; fewer only with an error.
SocketWrite(c, len, n) ==
    /\ n \in 0 .. len
    /\ segments' = IF n = 0 THEN segments
               ELSE [segments EXCEPT ![c] = Append(@, [first |-> Accepted(c) + 1, last |-> Accepted(c) + n,
                                          hops |-> IF dis[c].left = 0 THEN 1 ELSE dis[c].hops])]
    /\ dead' = [dead EXCEPT ![c] = n < len]
    /\ dis' = [dis EXCEPT ![c] = [left |-> IF @.left > -1 THEN @.left - 1 ELSE @.left, hops |-> HopsAfter(c)]]

(***************************************************************************)
(* The split writer's calls.  A call ends with an error when a write fails.*)
(***************************************************************************)
BeginCall(c) ==
    /\ sw[c].dialled /\ calls[c] = NoCallRuns /\ ~dead[c]
    /\ \E k \in {"write", "read"}, n \in 1 .. SplitStreamLen - Accepted(c) :
          calls' = [calls EXCEPT ![c] = [kind |-> k, left |-> n]]
    /\ UNCHANGED <<iterator, sw, dis, segments, dead>>

CallEnds(c) == calls' = [calls EXCEPT ![c] = NoCallRuns]

Wrote(c, len, n) ==
    /\ SocketWrite(c, len, n)
    /\ Advance(c, n)
    /\ IF n < len \/ n = calls[c].left THEN CallEnds(c)
       ELSE calls' = [calls EXCEPT ![c].left = @ - n]

\* Write: one write for each split inside of the data, then the rest.
WriteSegment(c) ==
    /\ calls[c].kind = "write"
    /\ LET len == IF 0 < sw[c].next /\ sw[c].next < calls[c].left THEN sw[c].next ELSE calls[c].left
       IN \E n \in 0 .. len : Wrote(c, len, n)

\* ReadFrom: the base may write what it reads up to the next split in any
\* pieces; behind the last split, any piece of what the source has.
ReadFromSegment(c) ==
    /\ calls[c].kind = "read"
    /\ \E len \in 1 .. (IF sw[c].next > 0 THEN Min({sw[c].next, calls[c].left}) ELSE calls[c].left) :
          \E n \in {0, len} : Wrote(c, len, n)

SplitInit ==
    /\ iterator = SplitLengths
    /\ sw = [c \in Conns |-> NoSegments]
    /\ dis = [c \in Conns |-> [left |-> DisorderAt, hops |-> DefaultHops]]
    /\ calls = [c \in Conns |-> NoCallRuns]
    /\ segments = [c \in Conns |-> <<>>]
    /\ dead = [c \in Conns |-> FALSE]

SplitNext == \E c \in Conns : DialStream(c) \/ BeginCall(c) \/ WriteSegment(c) \/ ReadFromSegment(c)

SplitSpec == SplitInit /\ [][SplitNext]_splitVars

(***************************************************************************)
(* Properties.                                                             *)
(***************************************************************************)
\* NewWriter "calls the nextSegmentLength SplitIterator to determine the number
\* bytes until the next split point" (split/writer.go:81): the segments follow
\* one another, and none has a split point of its connection inside, whatever
\* mix of calls and partial writes made them.
NoSegmentCrossesSplit ==
    \A c \in Conns : \A i \in DOMAIN segments[c] :
        /\ segments[c][i].first = IF i = 1 THEN 1 ELSE segments[c][i - 1].last + 1
        /\ \A p \in sw[c].cuts : ~(segments[c][i].first =< p /\ p < segments[c][i].last)

\* disorderWriter: of all segments only that of the chosen Write goes out with
\* the low hop limit, and the next ones with the connection's own again.
OnlyOneSegmentDisordered ==
    \A c \in Conns : \A i \in DOMAIN segments[c] :
        segments[c][i].hops = IF i = DisorderAt + 1 THEN 1 ELSE DefaultHops

\* The segments are those that were asked for, in their lengths and their hops.
SegmentsAsAsked == NoSegmentCrossesSplit /\ OnlyOneSegmentDisordered

\* "To split outgoing streams on bytes 2 and 123, you can use: split:2|split:123"
\* (x/configurl/doc.go:156): every stream of the dialer is split.
EveryStreamSplit ==
    \A c \in Conns : \A i \in DOMAIN segments[c] :
        ~(segments[c][i].first =< SplitLengths[1] /\ SplitLengths[1] < segments[c][i].last)
=============================================================================
