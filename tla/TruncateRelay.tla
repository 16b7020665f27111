--------------------------- MODULE TruncateRelay ----------------------------
(***************************************************************************)
(* network/dnstruncate: associations that answer every DNS query locally   *)
(* with an empty, truncated response, so that the client repeats it over   *)
(* TCP.  SendPacket puts the answer into a bounded channel while it holds  *)
(* the sender's mutex; Close closes that channel under the same mutex; the *)
(* receiver ranges over the channel and stops when its handler fails.      *)
(* The steps are operators on one association: LwipUdp says who calls.     *)
(***************************************************************************)
EXTENDS Naturals, Sequences, FiniteSets

CONSTANTS Assocs,      \* identities of the associations ever made
          Packets,     \* packets a client sends: [port, len, hdr]
          QueueCap,    \* capacity of the answer channel (16 in the code)
          Nil

ASSUME QueueCapAssumption == QueueCap \in Nat \ {0}

VARIABLES mu,          \* dnsTruncateSender.mu: the thread holding it, or Nil
          closed,      \* dnsTruncateSender.closed: "open" or "closed"
          queue,       \* dnsTruncateSender.ch: answers nobody has taken yet
          recv         \* the ReceivePackets call, "unmade" before NewAssociation

truncVars == <<mu, closed, queue, recv>>

TruncInit == /\ mu = [i \in Assocs |-> Nil]
             /\ closed = [i \in Assocs |-> "open"]
             /\ queue = [i \in Assocs |-> <<>>]
             /\ recv = [i \in Assocs |-> "unmade"]

(* Packets to another port and packets without a whole header are refused. *)
IsQuery(p) == p.port = 53 /\ p.len >= 12

(* The answer: QR and TC set, RCODE cleared, ANCOUNT copied from QDCOUNT.  *)
Answer(p) == LET h == p.hdr
             IN  [p EXCEPT !.hdr = [h EXCEPT !.qr = 1, !.tc = 1, !.rcode = 0, !.an = h.qd]]

NewAssociation(i) == /\ recv[i] = "unmade"
                     /\ recv' = [recv EXCEPT ![i] = "made"]
                     /\ UNCHANGED <<mu, closed, queue>>

(* SendPacket by thread t takes the mutex, ...                             *)
SendLock(i, t) == /\ mu[i] = Nil
                  /\ mu' = [mu EXCEPT ![i] = t]
                  /\ UNCHANGED <<closed, queue, recv>>

(* Variant: a plain channel send, which waits for room with the mutex held. *)
SendPacketBlocking(i, t, p) ==
    /\ closed[i] = "open" /\ IsQuery(p) => Len(queue[i]) < QueueCap
    /\ mu[i] = t
    /\ mu' = [mu EXCEPT ![i] = Nil]
    /\ queue' = IF closed[i] = "open" /\ IsQuery(p)
                THEN [queue EXCEPT ![i] = Append(@, Answer(p))] ELSE queue
    /\ UNCHANGED <<closed, recv>>

(* ... and leaves with the answer queued or with one of its errors: the    *)
(* association is closed, the packet is no query, the queue is full.       *)
SendPacket(i, t, p) ==
    LET taken == closed[i] = "open" /\ IsQuery(p) /\ Len(queue[i]) < QueueCap
    IN  /\ mu[i] = t
        /\ mu' = [mu EXCEPT ![i] = Nil]
        /\ queue' = IF taken THEN [queue EXCEPT ![i] = Append(@, Answer(p))] ELSE queue
        /\ UNCHANGED <<closed, recv>>

(* Close: the whole call is one critical section.                          *)
CloseAssoc(i) == /\ mu[i] = Nil
                 /\ closed' = [closed EXCEPT ![i] = "closed"]
                 /\ UNCHANGED <<mu, queue, recv>>

(* ReceivePackets: the next answer goes to the handler, ...                *)
TakeAnswer(i) == /\ recv[i] = "waiting"
                 /\ queue[i] # <<>>
                 /\ queue' = [queue EXCEPT ![i] = Tail(@)]
                 /\ recv' = [recv EXCEPT ![i] = "handling"]
                 /\ UNCHANGED <<mu, closed>>

(* ... whose failure ends the loop with answers left in the channel, ...   *)
Handled(i, outcome) == /\ recv[i] = "handling"
                       /\ recv' = [recv EXCEPT ![i] = IF outcome = "ok" THEN "waiting"
                                                                        ELSE "ended"]
                       /\ UNCHANGED <<mu, closed, queue>>

(* ... and a closed channel ends it once it is empty.                      *)
RangeEnds(i) == /\ recv[i] = "waiting"
                /\ queue[i] = <<>>
                /\ closed[i] = "closed"
                /\ recv' = [recv EXCEPT ![i] = "ended"]
                /\ UNCHANGED <<mu, closed, queue>>
=============================================================================
