----------------------------- MODULE StreamRelay ------------------------------
(*****************************************************************************)
(* The relay of one stream between a client and a target: relay and          *)
(* copyOneWay of src/network/lwip2transport/tcp.go, and ServeHTTP of         *)
(* src/x/httpproxy/connect_handler.go over HTTP/1.1, HTTP/1.1 in TLS and     *)
(* HTTP/2. The target's connection is a plain one, a WebSocket               *)
(* (src/x/websocket/endpoint.go) or a CONNECT tunnel through an HTTP proxy   *)
(* (src/x/httpconnect/connect_client.go, pipe_conn.go). The two ends of the  *)
(* stream are the programs behind it: each writes, ends its half or          *)
(* disappears. Bytes are counted: a connection keeps their order.            *)
(*****************************************************************************)
EXTENDS Naturals, FiniteSets

CONSTANTS Fronts,     \* how the client's connection is served
          Backs,      \* how the target is reached
          MaxBytes    \* bytes each end writes

VARIABLES front,      \* "lwip" | "h1" | "h1tls" | "h2"
          back,       \* "tcp" | "ws" | "pipe"
          sent,       \* sent[s]: bytes end s has written
          ended,      \* ended[s]: "open" | "fin" (wrote everything) | "gone"
          taken,      \* taken[s]: bytes of s the relay has read
          seen,       \* seen[s]: bytes that have reached end s
          eof,        \* ends that were told that the stream has ended
          copier,     \* copier[s], the copy of s's bytes: "read" | "hold" | "finish" | "closeR" | "done"
          shut,       \* halves the relay has closed: <<s, "r">>, <<s, "w">>
          pump,       \* DialStream's copy of the response: "read" | "hold" | "done"
          served,     \* the handler has returned
          stopped     \* the HTTP server has ended the request

relayVars == <<front, back, sent, ended, taken, seen, eof, copier, shut, pump, served, stopped>>

Ends == {"C", "T"}
Other(s) == IF s = "C" THEN "T" ELSE "C"
Http == front # "lwip"

StreamRelayInit ==
  /\ front \in Fronts /\ back \in Backs
  /\ sent = [s \in Ends |-> 0]
  /\ ended = [s \in Ends |-> "open"]
  /\ taken = [s \in Ends |-> 0]
  /\ seen = [s \in Ends |-> 0]
  /\ eof = {} /\ shut = {}
  /\ copier = [s \in Ends |-> "read"]
  /\ pump = IF back = "pipe" THEN "read" ELSE "done"
  /\ served = FALSE /\ stopped = FALSE

\* What closing connections whole leaves: both halves of both.
AllShut == Ends \X {"r", "w"}

-------------------------------------------------------------------------------
\* The ends.

Send(s) == /\ ended[s] = "open" /\ sent[s] < MaxBytes
           /\ sent' = [sent EXCEPT ![s] = @ + 1]
           /\ UNCHANGED <<front, back, ended, taken, seen, eof, copier, shut, pump, served, stopped>>

Leave(s, how) == /\ ended[s] = "open" \/ (how = "gone" /\ ended[s] = "fin")
                 /\ ended' = [ended EXCEPT ![s] = how]
                 /\ UNCHANGED <<front, back, sent, taken, seen, eof, copier, shut, pump, served, stopped>>

\* The server ends the context of a hijacked request, and with it the connection.
ServerStops == /\ front \in {"h1", "h1tls"} /\ ~stopped /\ ~served
               /\ stopped' = TRUE
               /\ shut' = shut \cup {<<"C", "r">>, <<"C", "w">>}
               /\ eof' = eof \cup {"C"}
               /\ UNCHANGED <<front, back, sent, ended, taken, seen, copier, pump, served>>

-------------------------------------------------------------------------------
\* What the relay's side of a connection has to read.

Tunnelled(s) == s = "T" /\ back = "pipe"

HasBytes(s) == IF Tunnelled(s) THEN pump = "hold" ELSE sent[s] > taken[s]

\* A WebSocket reports a close message as io.EOF. Behind a CONNECT tunnel the pipe
\* has no end: its writing side is never closed.
AtEof(s) == ~Tunnelled(s) /\ ended[s] = "fin" /\ sent[s] = taken[s]

Broken(s) == \/ <<s, "r">> \in shut
             \/ ended[s] = "gone" /\ ~Tunnelled(s)

\* DialStream's goroutine copies the response into the pipe, and ends with it or
\* when the reader has gone.
PumpTakes == /\ pump = "read" /\ sent["T"] > taken["T"] /\ ended["T"] # "gone"
             /\ pump' = "hold"
             /\ UNCHANGED <<front, back, sent, ended, taken, seen, eof, copier, shut, served, stopped>>

PumpEnds == /\ \/ pump = "read" /\ ended["T"] = "fin" /\ sent["T"] = taken["T"]
               \/ pump = "read" /\ ended["T"] = "gone"
               \/ pump = "hold" /\ <<"T", "r">> \in shut
            /\ pump' = "done"
            /\ UNCHANGED <<front, back, sent, ended, taken, seen, eof, copier, shut, served, stopped>>

-------------------------------------------------------------------------------
\* The copies.

TakeBytes(s) == /\ copier[s] = "read" /\ HasBytes(s) /\ <<s, "r">> \notin shut
                /\ taken' = [taken EXCEPT ![s] = @ + 1]
                /\ copier' = [copier EXCEPT ![s] = "hold"]
                /\ pump' = IF Tunnelled(s) THEN "read" ELSE pump
                /\ UNCHANGED <<front, back, sent, ended, seen, eof, shut, served, stopped>>

TakeEnds(s) == /\ copier[s] = "read" /\ (AtEof(s) \/ Broken(s))
               /\ copier' = [copier EXCEPT ![s] = "finish"]
               /\ UNCHANGED <<front, back, sent, ended, taken, seen, eof, shut, pump, served, stopped>>

(* Variant: io.Copy into the ResponseWriter, which does not flush. *)
BuffersHttp(d) == d = "C" /\ front \in {"h1tls", "h2"}

\* bufio.Writer.ReadFrom hands the copy over to the client's connection when that
\* is an io.ReaderFrom, as a TCP connection is; of a TLS connection it fills its
\* own buffer, which is larger than what the ends write here.
Buffers(d) == d = "C" /\ front = "h1tls"

Delivers(d) == ended[d] # "gone" /\ <<d, "w">> \notin shut

\* A write to an end that has gone fails at once or is lost on the way.
Put(s) == LET d == Other(s) IN
  /\ copier[s] = "hold"
  /\ seen' = IF Delivers(d) /\ ~Buffers(d) THEN [seen EXCEPT ![d] = @ + 1] ELSE seen
  /\ \/ copier' = [copier EXCEPT ![s] = "read"] /\ (Buffers(d) \/ <<d, "w">> \notin shut)
     \/ copier' = [copier EXCEPT ![s] = "finish"] /\ ~Delivers(d) /\ ~Buffers(d)
  /\ UNCHANGED <<front, back, sent, ended, taken, eof, shut, pump, served, stopped>>

(* Variant: a copy that ends closes both connections. *)
FinishBoth(s) ==
  /\ copier[s] = "finish"
  /\ seen' = seen
  /\ eof' = Ends
  /\ shut' = AllShut
  /\ copier' = [copier EXCEPT ![s] = "closeR"]
  /\ UNCHANGED <<front, back, sent, ended, taken, pump, served, stopped>>

(* Variant: the end of a copy is not passed on. *)
FinishOpen(s) == LET d == Other(s) IN
  /\ copier[s] = "finish"
  /\ seen' = IF Buffers(d) /\ Delivers(d) THEN [seen EXCEPT ![d] = taken[s]] ELSE seen
  /\ copier' = [copier EXCEPT ![s] = IF Http THEN "done" ELSE "closeR"]
  /\ UNCHANGED <<front, back, sent, ended, taken, eof, shut, pump, served, stopped>>

\* leftConn.CloseWrite; targetConn.CloseWrite for the client's bytes over HTTP, and
\* afterCopy, the flush, for the target's.
Finish(s) == LET d == Other(s) IN
  /\ copier[s] = "finish"
  /\ IF Http /\ s = "T"
     THEN /\ seen' = IF Buffers(d) /\ Delivers(d) THEN [seen EXCEPT ![d] = taken[s]] ELSE seen
          /\ UNCHANGED <<eof, shut>>
     ELSE /\ seen' = seen
          /\ eof' = eof \cup {d}
          /\ shut' = shut \cup {<<d, "w">>}
  /\ copier' = [copier EXCEPT ![s] = IF Http THEN "done" ELSE "closeR"]
  /\ UNCHANGED <<front, back, sent, ended, taken, pump, served, stopped>>

\* rightConn.CloseRead
CloseReader(s) == /\ copier[s] = "closeR"
                  /\ copier' = [copier EXCEPT ![s] = "done"]
                  /\ shut' = shut \cup {<<s, "r">>}
                  /\ UNCHANGED <<front, back, sent, ended, taken, seen, eof, pump, served, stopped>>

\* Both copies are over. ServeHTTP closes the target's connection, and the server
\* ends the request and the client's; relay closes nothing more.
Serve == /\ ~served /\ \A s \in Ends: copier[s] = "done"
         /\ served' = TRUE
         /\ IF Http THEN eof' = Ends /\ shut' = AllShut
                    ELSE UNCHANGED <<eof, shut>>
         /\ UNCHANGED <<front, back, sent, ended, taken, seen, copier, pump, stopped>>

RelaySteps == \/ \E s \in Ends: TakeBytes(s) \/ TakeEnds(s) \/ Put(s) \/ Finish(s) \/ CloseReader(s)
              \/ PumpTakes \/ PumpEnds \/ Serve

StreamRelayNext == \/ \E s \in Ends: Send(s) \/ Leave(s, "fin") \/ Leave(s, "gone")
                   \/ ServerStops
                   \/ RelaySteps

\* The copies are goroutines of their own; nothing is assumed of the ends.
StreamRelayFairness ==
  /\ \A s \in Ends: WF_relayVars(TakeBytes(s) \/ TakeEnds(s) \/ Put(s) \/ Finish(s) \/ CloseReader(s))
  /\ WF_relayVars(PumpTakes \/ PumpEnds)
  /\ WF_relayVars(Serve)

StreamRelaySpec == StreamRelayInit /\ [][StreamRelayNext]_relayVars /\ StreamRelayFairness

-------------------------------------------------------------------------------

\* An end that is told that the stream has ended has everything the other end
\* wrote before it ended its half ("if one side is done writing, it can still read
\* all remaining data from its peer", tcp.go): the end of one direction neither
\* cuts off nor overtakes the other.
EofAfterAllBytes ==
  \A s \in Ends: Other(s) \in eof /\ ended[s] = "fin" /\ ended[Other(s)] # "gone" /\ ~stopped
                   => seen[Other(s)] = sent[s]

\* The end of a half is passed on: at once through lwIP, and by the CONNECT handler
\* to the target at once and to the client when the client has ended too. A relay
\* whose ends have both ended is over, with both connections released. A target
\* behind a CONNECT tunnel is the exception: see HasBytes and AtEof.
EndsArePassedOn ==
  /\ ended["C"] = "fin" ~> "T" \in eof \/ ended["T"] = "gone" \/ stopped
  /\ ended["T"] = "fin" /\ back # "pipe" /\ (front = "lwip" \/ ended["C"] # "open")
       ~> "C" \in eof \/ ended["C"] = "gone"
  /\ (\A s \in Ends: ended[s] # "open") /\ back # "pipe"
       ~> served /\ shut = AllShut

\* Bytes are not held back: what one end wrote reaches the other while both stay
\* ("flushes after every write, ensuring bytes are sent to the client immediately",
\* connect_handler.go).
Reaches(s) == seen[Other(s)] < sent[s] ~> \/ seen[Other(s)] = sent[s]
                                          \/ \E e \in Ends: ended[e] # "open"
                                          \/ stopped
BytesPassThrough == \A s \in Ends: front # "h1tls" => Reaches(s)

\* The same of a client in HTTP/1.1 over TLS ("bufio.Writer.ReadFrom (H1) and
\* flushingWriter.ReadFrom (H2/H3) take care of that", connect_handler.go).
H1BytesPassThrough == front # "lwip" => Reaches("T")
===============================================================================
