----------------------------- MODULE StreamPipe -----------------------------
(***************************************************************************)
(* What a wrapped stream connection (transport.StreamConn) promises about  *)
(* one direction: the bytes that come out are the bytes that were put in,  *)
(* in the same order, each once; a connection that breaks may lose the     *)
(* rest but never reorders, repeats or invents a byte.  The k-th byte put  *)
(* in is represented by the number k.                                      *)
(***************************************************************************)
EXTENDS Naturals

VARIABLES
    given,      \* how many bytes the writer has accepted
    delivered   \* how many bytes have come out at the other end

Init == given = 0 /\ delivered = 0

\* The writer accepts some more bytes.
Accept == /\ given' \in Nat /\ given' > given
          /\ UNCHANGED delivered

\* Some of the bytes that are on the way come out, the next ones in order.
Deliver == /\ delivered' \in Nat /\ delivered' > delivered
           /\ delivered' =< given
           /\ UNCHANGED given

Next == Accept \/ Deliver

Spec == Init /\ [][Next]_<<given, delivered>>
=============================================================================
